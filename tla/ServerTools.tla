----------------------------- MODULE ServerTools -----------------------------
(***************************************************************************)
(* Tools of the server that share no data with each other: only calls of   *)
(* one group can meet.  A behaviour takes one group, and the data of the   *)
(* others stay as they were.                                               *)
(***************************************************************************)
EXTENDS SequenceRecreate, InstanceTools, PackageSync, DailyRoutine, ConnectionMigration, CloneTime

CONSTANT Groups  \* the groups that are taken

GroupNames == {"sequence", "instance", "sync", "daily", "migration", "clone"}
ASSUME GroupAssumption == Groups \subseteq GroupNames

VARIABLE group  \* the group of this behaviour

serverVars == <<group, calls, seqVars, instVars, syncVars, dailyVars, migVars, cloneVars>>

\* What a call's arguments and findings are before it begins.
NoRequest(g) ==
  CASE g = "instance" -> [kind |-> "none", n |-> 0, m |-> 0, wide |-> FALSE]
    [] g = "migration" -> [kind |-> "none", key |-> Default, overwrite |-> FALSE, remove |-> {}]
    [] g = "daily" -> [kind |-> "none", channel |-> "none"]
    [] OTHER -> [kind |-> "none"]

\* A group that is not taken starts in one of its initial states.
Taken(g, sample) == group = g \/ sample

Init ==
  /\ group \in Groups
  /\ CallInit(NoRequest(group), FALSE)
  /\ SeqInit /\ Taken("sequence", grantee)
  /\ InstanceInit /\ Taken("instance", pga.limit = 0 /\ space.layout = "plain" /\ ~account.exists)
  /\ SyncInit /\ Taken("sync", /\ source = Package(<<"P", "Q">>, FALSE, FALSE, "source")
                               /\ target = Package(<<"P", "Q">>, FALSE, FALSE, "target"))
  /\ DailyInit /\ Taken("daily", /\ truth.es = {} /\ truth.other = {}
                                 /\ truth.refresh = [stuck |-> 0, breach |-> 0, errors |-> 0, ran |-> TRUE])
  /\ MigInit /\ Taken("migration", connFile = NoFile)
  /\ CloneInit

Next ==
  \/ /\ group = "sequence" /\ SeqNext
     /\ UNCHANGED <<group, instVars, syncVars, dailyVars, migVars, cloneVars>>
  \/ /\ group = "instance" /\ (Reuse \/ \E c \in Calls : InstanceStart(c) \/ InstanceStep(c))
     /\ UNCHANGED <<group, seqVars, syncVars, dailyVars, migVars, cloneVars>>
  \/ /\ group = "sync" /\ SyncNext
     /\ UNCHANGED <<group, seqVars, instVars, dailyVars, migVars, cloneVars>>
  \/ /\ group = "daily" /\ DailyNext
     /\ UNCHANGED <<group, seqVars, instVars, syncVars, migVars, cloneVars>>
  \/ /\ group = "migration" /\ MigNext
     /\ UNCHANGED <<group, seqVars, instVars, syncVars, dailyVars, cloneVars>>
  \/ /\ group = "clone" /\ CloneNext
     /\ UNCHANGED <<group, seqVars, instVars, syncVars, dailyVars, migVars>>

Spec == Init /\ [][Next]_serverVars
=============================================================================
