------------------------ MODULE ConnectionMigration -------------------------
(***************************************************************************)
(* connection_migration.py: an mRemoteNG connection file is filled from    *)
(* MobaXterm bookmarks, protected with a password, and given the stored    *)
(* passwords of its accounts.  Every tool reads the whole file, copies it  *)
(* to a backup named by the second, and writes the whole file.  A password *)
(* in the file is known by the key it is encrypted with.                   *)
(***************************************************************************)
EXTENDS ToolCalls

CONSTANTS
  Nodes,     \* names of connections
  Bookmarks  \* those MobaXterm has

Default == "default"
Keys == {Default, "k1", "k2"}
NoFile == [marker |-> "missing"]
Broken == [marker |-> "broken"]  \* a write stopped half way
MigrationTools == {"migrate", "setPassword", "restore"}

ASSUME MigrationAssumption == Bookmarks \subseteq Nodes /\ Bookmarks # {}

VARIABLES
  connFile,  \* the file: marker (the key of Protected, or "none"), nodes
  backups,   \* the backup files, in the order of their seconds
  content,   \* content[c]: what c read, and later what it will write
  base,      \* base[c]: what c read (history)
  held,      \* every whole content the file has had (history)
  collided   \* two backups had the same second (history)

files == <<connFile, backups, held, collided>>
migLocals == <<content, base>>
migVars == <<files, migLocals>>

Content == [marker : Keys \cup {"none"}, nodes : [Nodes -> {"absent", "blank"} \cup Keys]]
Passwords(f) == {n \in Nodes : f.nodes[n] \in Keys}

MigStart(c) ==
  \E k \in MigrationTools, key \in Keys, overwrite \in BOOLEAN, remove \in {{}} \cup {{n} : n \in Nodes} :
    /\ k = "migrate" => key = Default
    /\ k # "migrate" => ~overwrite /\ remove = {}
    /\ k = "setPassword" => key # Default
    /\ Begin(c, [kind |-> k, key |-> key, overwrite |-> overwrite, remove |-> remove],
             IF k = "restore" THEN "readFile" ELSE "backup", FALSE)
    /\ UNCHANGED migVars

AfterBackup(c) == IF req[c].kind = "restore" THEN "write" ELSE "readFile"

\* Mutant: a backup that is there is enough.
BackupOnce(c) ==
  /\ At(c, "backup") /\ connFile # NoFile
  /\ backups' = IF backups # <<>> THEN backups ELSE <<connFile>>
  /\ Go(c, AfterBackup(c))
  /\ UNCHANGED <<connFile, held, collided, migLocals>>

\* shutil.copy2; a backup of the same second is overwritten.
Backup(c) ==
  /\ At(c, "backup") /\ connFile # NoFile
  /\ \/ backups' = Append(backups, connFile) /\ UNCHANGED collided
     \/ /\ backups # <<>>
        /\ backups' = [backups EXCEPT ![Len(backups)] = connFile]
        /\ collided' = TRUE
  /\ Go(c, AfterBackup(c))
  /\ UNCHANGED <<connFile, held, migLocals>>

\* Mutant: the passwords keep the key they have.
ReencryptMarkerOnly(f, key) == [f EXCEPT !.marker = key]

\* set_mremoteng_file_password: every password is decrypted with the default or the given key.
Reencrypt(f, key) ==
  [marker |-> key, nodes |-> [n \in Nodes |-> IF n \in Passwords(f) THEN key ELSE f.nodes[n]]]

\* migrate: nodes are removed, the marker becomes the default's, bookmarks become blank nodes.
Migrated(f, r) ==
  [marker |-> Default,
   nodes |-> [n \in Nodes |->
     LET old == IF n \in r.remove THEN "absent" ELSE f.nodes[n] IN
     IF n \in Bookmarks /\ (old = "absent" \/ r.overwrite) THEN "blank" ELSE old]]

\* restore: accounts with a stored password get it, under the file's key.
Restored(f, key, stored) ==
  [f EXCEPT !.nodes = [n \in Nodes |-> IF n \in stored /\ f.nodes[n] # "absent" THEN key ELSE f.nodes[n]]]

Empty == [marker |-> "none", nodes |-> [n \in Nodes |-> "absent"]]

\* What c has read, and what it is going to write.
Prepare(c, f, g) ==
  /\ content' = [content EXCEPT ![c] = g]
  /\ base' = [base EXCEPT ![c] = f]

\* No file: migrate fills an empty one and writes it over whatever is there by then; the others raise.
NothingToBackUp(c) ==
  /\ At(c, "backup") /\ connFile = NoFile
  /\ \/ req[c].kind = "migrate" /\ Prepare(c, Empty, Migrated(Empty, req[c])) /\ Go(c, "write")
     \/ req[c].kind # "migrate" /\ Go(c, "raised") /\ UNCHANGED migLocals
  /\ UNCHANGED files

\* The file is parsed and changed in memory; what cannot be parsed or decrypted raises.
ReadFile(c) ==
  /\ At(c, "readFile")
  /\ LET r == req[c]
         f == connFile
         Becomes(g) == Prepare(c, f, g) /\ Go(c, IF r.kind = "restore" THEN "backup" ELSE "write")
         refused == \/ f \in {NoFile, Broken}
                    \/ r.kind = "restore" /\ f.marker # r.key
                    \/ r.kind = "setPassword" /\ \E n \in Passwords(f) : f.nodes[n] \notin {Default, r.key} IN
     IF refused THEN Go(c, "raised") /\ UNCHANGED migLocals
     ELSE \/ r.kind = "migrate" /\ Becomes(Migrated(f, r))
          \/ r.kind = "setPassword" /\ Becomes(Reencrypt(f, r.key))
          \/ r.kind = "restore" /\ \E stored \in SUBSET Nodes : Becomes(Restored(f, r.key, stored))
  /\ UNCHANGED files

\* Path.write_text: the old text goes first.
Write(c) ==
  /\ At(c, "write")
  /\ \/ /\ connFile' = content[c]
        /\ held' = held \cup {content[c]}
        /\ Go(c, "done")
     \/ connFile' = Broken /\ Strike(c, "failed", "raised") /\ UNCHANGED held
  /\ UNCHANGED <<backups, collided, migLocals>>

MigFails(c) ==
  /\ pc[c] \in {"backup", "readFile"}
  /\ Strike(c, "failed", "raised")
  /\ UNCHANGED migVars

MigInit ==
  /\ connFile \in {NoFile} \cup
       {f \in Content : \A n \in Passwords(f) : f.nodes[n] = IF f.marker = "none" THEN Default ELSE f.marker}
  /\ backups = <<>>
  /\ content = [c \in Calls |-> Empty]
  /\ base = [c \in Calls |-> Empty]
  /\ held = {connFile} \ {NoFile}
  /\ collided = FALSE

MigNext ==
  \E c \in Calls : MigStart(c) \/ Backup(c) \/ NothingToBackUp(c) \/ ReadFile(c) \/ Write(c) \/ MigFails(c)

-----------------------------------------------------------------------------
\* Every password in the file is encrypted with the key that opens the file, after any sequence of
\* tools and also when they overlap.  The exception is migrate on a file with a password of its
\* own: it marks the file with the default key and leaves the passwords under the old one.
PasswordsReadable ==
  connFile \in Content =>
    \/ \A n \in Passwords(connFile) :
         connFile.nodes[n] = IF connFile.marker = "none" THEN Default ELSE connFile.marker
    \/ \E c \in Calls : req[c].kind = "migrate" /\ base[c].marker \notin {Default, "none"}

\* Nothing the file held is lost: each content it ever had is still in it or in a backup, also
\* when a write stopped half way, unless calls overlapped or two backups had one second.
VersionsKept ==
  \/ \A f \in held : f = connFile \/ \E i \in DOMAIN backups : backups[i] = f
  \/ collided \/ \E c \in Calls : met[c] # {}
=============================================================================
