----------------------------- MODULE PackageSync -----------------------------
(***************************************************************************)
(* package_overloads.py: every overload of one packaged procedure is       *)
(* copied from one database onto another, by replacing a span of lines in  *)
(* the text of the target's package, first the specification, then the     *)
(* body.  A line is the header of a procedure, the rest of one, or the     *)
(* package's own: its first line, its initialisation, its end.  A local    *)
(* procedure has a header line like any other.                             *)
(***************************************************************************)
EXTENDS ToolCalls, SequencesExt

CONSTANT Orders  \* the procedures of a package, in the orders they may stand in its text

Procs == {"P", "Q"}
Parts == {"PACKAGE", "PACKAGE BODY"}

ASSUME SyncAssumption == Orders \subseteq Seq(Procs) /\ <<>> \notin Orders

VARIABLES
  source,  \* source[part]: the text on the source database
  target,  \* target[part]: the text on the target
  first,   \* the target's texts before any call (history)
  text,    \* text[c]: the part c is at, and the merged text it will write
  answer   \* answer[c]: the status c returned

texts == <<source, target, first>>
syncLocals == <<text, answer>>
syncVars == <<texts, syncLocals>>

Line(kind, of, db) == [kind |-> kind, of |-> of, db |-> db]
Headers(t) == {i \in DOMAIN t : t[i].kind = "head"}
Wanted(t, p) == {i \in Headers(t) : t[i].of = p}

\* Mutant: the span ends with the last header.
SpanEndAtHeader(t, p) == Max(Wanted(t, p)) + 1

\* member_span: up to the next header, or to the end of the text.
SpanEnd(t, p) ==
  LET following == {i \in Headers(t) : i > Max(Wanted(t, p))} IN
  IF following = {} THEN Len(t) + 1 ELSE Min(following)

HasSpan(t, p) ==
  LET w == Wanted(t, p) IN
  w # {} /\ \A i \in Headers(t) \ w : i < Min(w) \/ i > Max(w)

\* replace_overloads.
Merged(t, s, p) ==
  SubSeq(t, 1, Min(Wanted(t, p)) - 1)
    \o SubSeq(s, Min(Wanted(s, p)), SpanEnd(s, p) - 1)
    \o SubSeq(t, SpanEnd(t, p), Len(t))

\* Oracle: one end, at the end; in a body each header has the rest of its procedure, after a
\* local procedure if it has one.
WellFormed(part, t) ==
  LET rests == {i \in DOMAIN t : t[i].kind = "rest"}
      Closes(i, j) == j \in rests /\ t[j].of = t[i].of IN
  /\ {i \in DOMAIN t : t[i].kind = "end"} = {Len(t)}
  /\ part = "PACKAGE BODY" =>
       /\ Cardinality(rests) = Cardinality(Headers(t))
       /\ \A i \in Headers(t) :
            \/ Closes(i, i + 1)
            \/ i + 1 \in Headers(t) /\ t[i + 1].of = "local" /\ Closes(i + 1, i + 2) /\ Closes(i, i + 3)

\* The body is valid: both parts are well formed, and the body has what the specification declares.
Valid(pack) ==
  /\ \A part \in Parts : WellFormed(part, pack[part])
  /\ \A i \in Headers(pack["PACKAGE"]) :
       \E j \in Headers(pack["PACKAGE BODY"]) : pack["PACKAGE BODY"][j] = pack["PACKAGE"][i]

-----------------------------------------------------------------------------
SyncStart(c) ==
  /\ \E p \in Procs, confirmed, withTrigger \in BOOLEAN :
       /\ confirmed \/ ~withTrigger
       /\ Begin(c, [kind |-> "sync", proc |-> p, confirmed |-> confirmed, trigger |-> withTrigger],
                "count", FALSE)
  /\ UNCHANGED syncVars

\* The overloads are counted on both sides; without confirmation that is all.
Count(c) ==
  /\ At(c, "count")
  /\ answer' = [answer EXCEPT ![c] = IF req[c].confirmed THEN @ ELSE "not_confirmed"]
  /\ text' = [text EXCEPT ![c].part = "PACKAGE"]
  /\ Go(c, IF req[c].confirmed THEN "merge" ELSE "done")
  /\ UNCHANGED texts

\* The part is read on both databases and merged; a missing or scattered procedure raises.
Merge(c) ==
  /\ At(c, "merge")
  /\ LET part == text[c].part  p == req[c].proc IN
     IF HasSpan(target[part], p) /\ HasSpan(source[part], p)
     THEN /\ text' = [text EXCEPT ![c].lines = Merged(target[part], source[part], p)]
          /\ Go(c, "replace")
     ELSE Go(c, "raised") /\ UNCHANGED text
  /\ UNCHANGED <<texts, answer>>

\* CREATE OR REPLACE: a text with errors is kept, and is no error of the statement.
Replace(c) ==
  /\ At(c, "replace")
  /\ target' = [target EXCEPT ![text[c].part] = text[c].lines]
  /\ text' = [text EXCEPT ![c] = [part |-> "PACKAGE BODY", lines |-> <<>>]]
  /\ Go(c, IF text[c].part = "PACKAGE" THEN "merge" ELSE "status")
  /\ UNCHANGED <<source, first, answer>>

\* The body's status; a trigger that is named is compiled and is valid with the package.
Status(c) ==
  /\ At(c, "status")
  /\ answer' = [answer EXCEPT ![c] = IF Valid(target) THEN "synced" ELSE "synced_with_errors"]
  /\ Go(c, IF req[c].trigger THEN "trigger" ELSE "done")
  /\ UNCHANGED <<texts, text>>

CompileTrigger(c) ==
  /\ At(c, "trigger")
  /\ answer' = [answer EXCEPT ![c] = IF Valid(target) THEN @ ELSE "synced_with_errors"]
  /\ Go(c, "done")
  /\ UNCHANGED <<texts, text>>

SyncFails(c) ==
  /\ pc[c] \in {"count", "merge", "replace", "status", "trigger"}
  /\ Strike(c, "failed", "raised")
  /\ answer' = [answer EXCEPT ![c] = "none"]
  /\ UNCHANGED <<texts, text>>

-----------------------------------------------------------------------------
\* The text of a package: its procedures in some order, P with or without a local procedure,
\* and in the body an initialisation or none.
Piece(part, p, local, db) ==
  <<Line("head", p, db)>>
    \o (IF part = "PACKAGE" THEN <<>>
        ELSE (IF local /\ p = "P" THEN <<Line("head", "local", db), Line("rest", "local", db)>> ELSE <<>>)
               \o <<Line("rest", p, db)>>)

TextOf(part, order, local, init, db) ==
  <<Line("package", "package", db)>>
    \o FlattenSeq([i \in DOMAIN order |-> Piece(part, order[i], local, db)])
    \o (IF init /\ part = "PACKAGE BODY" THEN <<Line("init", "package", db)>> ELSE <<>>)
    \o <<Line("end", "package", db)>>

Package(order, local, init, db) == [part \in Parts |-> TextOf(part, order, local, init, db)]

SyncInit ==
  /\ \E order \in Orders, local, init \in BOOLEAN : source = Package(order, local, init, "source")
  /\ \E order \in Orders, local, init \in BOOLEAN : target = Package(order, local, init, "target")
  /\ first = target
  /\ text = [c \in Calls |-> [part |-> "PACKAGE", lines |-> <<>>]]
  /\ answer = [c \in Calls |-> "none"]

SyncNext ==
  \E c \in Calls :
    \/ SyncStart(c) \/ Count(c) \/ Merge(c) \/ Replace(c) \/ Status(c) \/ CompileTrigger(c)
    \/ SyncFails(c)

-----------------------------------------------------------------------------
\* The lines of t that belong to p, in their order.
LinesOf(t, p) ==
  LET upTo[n \in 0..Len(t)] ==
        IF n = 0 THEN <<>>
        ELSE IF t[n].of = p THEN Append(upTo[n - 1], t[n]) ELSE upTo[n - 1]
  IN upTo[Len(t)]

HasLocals ==
  \E part \in Parts :
    \/ \E i \in DOMAIN source[part] : source[part][i].of = "local"
    \/ \E i \in DOMAIN first[part] : first[part][i].of = "local"

\* Once a call that met no other answered "synced", both parts of the target's package have the
\* source's overloads of the procedure, in their order, and the other procedure as it was or as
\* another call copied it; also when an earlier call stopped between the two parts, and after
\* later calls.  Not so for packages with local procedures, see CopiesEveryOverload.
SyncedStays ==
  \A c \in Calls : answer[c] = "synced" /\ met[c] = {} /\ ~HasLocals =>
    \A part \in Parts, p \in Procs :
      \/ LinesOf(target[part], p) = LinesOf(source[part], p)
      \/ p # req[c].proc /\ LinesOf(target[part], p) = LinesOf(first[part], p)

\* What server.sync_saved_package_overloads says: every overload is copied.  A call that ran alone
\* and answered "synced" left the source's text of the procedure in the target's body.
CopiesEveryOverload ==
  \A c \in Calls : answer[c] = "synced" /\ met[c] = {} /\ struck[c] = "no" =>
    LinesOf(target["PACKAGE BODY"], req[c].proc) = LinesOf(source["PACKAGE BODY"], req[c].proc)
=============================================================================
