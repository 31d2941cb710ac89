---------------------------- MODULE DailyRoutine -----------------------------
(***************************************************************************)
(* server.daily_rutione_check: every saved target is checked (backups,     *)
(* alert log, the Spain refresh, space), the result is written to          *)
(* report.md and sent to Slack in at most three messages.  Checks that     *)
(* overlap (the scheduled runner calls the same function) share nothing    *)
(* but report.md, which the last one wins: one call is taken.  The length  *)
(* of a text is counted in lines: a compact problem is one, a detailed     *)
(* problem is Detail of them.                                              *)
(***************************************************************************)
EXTENDS ToolCalls, SequencesExt

CONSTANTS
  Capacity,     \* lines a message holds
  Detail,       \* lines of a problem in the detailed form
  RefreshCases  \* what the refresh process of Spain may look like

\* Spain comes first among the saved connections of the model.
Targets == <<"es", "other">>
MaxMessages == 3
MaxAlerts == 5
CompactRefresh == 2
Checks == <<"backup", "log", "refresh", "space">>

ASSUME DailyAssumption ==
  /\ Capacity \in Nat \ {0} /\ Detail \in Nat \ {0}
  /\ RefreshCases \subseteq [stuck : Nat, breach : Nat, errors : Nat, ran : BOOLEAN]

VARIABLES
  truth,    \* what is wrong: a set of {"backup", "log", "space"} per target, refresh
  items,    \* items[c]: the results of c so far: target, status, problems
  found,    \* found[c]: alerts of the target c is at
  outbox,   \* outbox[c]: messages c will send; each is a set of problems
  posted,   \* posted[c]: messages of c that are in the channel
  outcome,  \* outcome[c]: "none", "delivered" or "undelivered"
  unread    \* calls that could not read the backlog of Spain (history)

dailyLocals == <<items, found, outbox, posted, outcome, unread>>
dailyVars == <<truth, dailyLocals>>

TargetOf(c) == Targets[Len(items[c]) + 1]
Problem(t, kind) == [target |-> t, kind |-> kind]

DailyStart(c) ==
  /\ \A d \in Calls : At(d, "idle")
  /\ \E channel \in {"given", "user", "none"} : Begin(c, [kind |-> "daily", channel |-> channel], "backup", FALSE)
  /\ UNCHANGED dailyVars

\* _spain_refresh_mv_alerts: stuck workers, then breaches, then errors, five at most.
RefreshAlerts(r) ==
  LET repeat(n, kind) == [i \in 1..n |-> kind]
      all == repeat(r.stuck, "stuck") \o repeat(r.breach, "breach") \o repeat(r.errors, "error") IN
  IF all = <<>> /\ ~r.ran THEN <<"notRun">> ELSE SubSeq(all, 1, Min({Len(all), MaxAlerts}))

\* The alerts of one check on the target; the refresh of Spain only.
AlertsOf(t, check) ==
  IF check = "refresh" THEN (IF t = "es" THEN RefreshAlerts(truth.refresh) ELSE <<>>)
  ELSE IF check \in truth[t] THEN <<check>> ELSE <<>>

NextCheck(check) == Checks[(CHOOSE i \in DOMAIN Checks : Checks[i] = check) + 1]
NextTarget(c) == IF Len(items[c]) + 1 = Len(Targets) THEN "report" ELSE "backup"

\* Mutant: the alert log does not count for the status.
ItemIgnoringLog(c, problems) ==
  [target |-> TargetOf(c), problems |-> problems,
   status |-> IF SelectSeq(problems, LAMBDA k : k # "log") = <<>> THEN "ok" ELSE "issues"]

Item(c, problems) ==
  [target |-> TargetOf(c), problems |-> problems, status |-> IF problems = <<>> THEN "ok" ELSE "issues"]

\* One check of one target; the last one completes the target's item.
Check(c, check) ==
  /\ At(c, check)
  /\ LET all == found[c] \o AlertsOf(TargetOf(c), check) IN
     IF check = "space"
     THEN /\ items' = [items EXCEPT ![c] = Append(@, Item(c, all))]
          /\ found' = [found EXCEPT ![c] = <<>>]
          /\ Go(c, NextTarget(c))
     ELSE found' = [found EXCEPT ![c] = all] /\ Go(c, NextCheck(check)) /\ UNCHANGED items
  /\ UNCHANGED <<truth, outbox, posted, outcome, unread>>

\* A check raises: the target is reported as failed and what was found on it is dropped.  An
\* unreadable alert log is an alert of its own; an unreadable backlog counts as none.
CheckFails(c) ==
  /\ pc[c] \in ToSet(Checks)
  /\ \/ /\ ~At(c, "log") /\ (At(c, "refresh") => TargetOf(c) = "es")
        /\ items' = [items EXCEPT ![c] = Append(@, [target |-> TargetOf(c), status |-> "failed",
                                                    problems |-> <<"unreachable">>])]
        /\ found' = [found EXCEPT ![c] = <<>>]
        /\ Strike(c, "failed", NextTarget(c))
        /\ UNCHANGED unread
     \/ /\ At(c, "log")
        /\ found' = [found EXCEPT ![c] = Append(@, "log")]
        /\ Strike(c, "failed", "refresh")
        /\ UNCHANGED <<items, unread>>
     \/ /\ At(c, "refresh") /\ TargetOf(c) = "es"
        /\ found' = [found EXCEPT ![c] = @ \o RefreshAlerts([truth.refresh EXCEPT !.breach = 0])]
        /\ unread' = unread \cup {c}
        /\ Strike(c, "backlog", "space")
        /\ UNCHANGED items
  /\ UNCHANGED <<truth, outbox, posted, outcome>>

\* The report file; an error of it is part of the answer.
Report(c) ==
  /\ At(c, "report")
  /\ LET next == IF req[c].channel = "user" THEN "openDm"
                 ELSE IF req[c].channel = "given" THEN "format" ELSE "done" IN
       Go(c, next) \/ Strike(c, "file", next)
  /\ UNCHANGED dailyVars

\* _open_slack_direct_message is outside the try: its error loses the answer.
OpenDm(c) ==
  /\ At(c, "openDm")
  /\ Go(c, "format") \/ Strike(c, "failed", "raised")
  /\ UNCHANGED dailyVars

-----------------------------------------------------------------------------
(* The notification: lines, packed into messages, detailed if it fits in three.  Of a line and of
   a message, the problems they name. *)

TextLine(size, problems) == [size |-> size, problems |-> problems]
Summary == <<TextLine(1, {}), TextLine(1, {}), TextLine(1, {})>>
Of(i) == [n \in DOMAIN i.problems |-> Problem(i.target, i.problems[n])]

Detailed(i) ==
  IF i.problems = <<>> THEN <<>>
  ELSE <<TextLine(1, {})>> \o [n \in DOMAIN i.problems |-> TextLine(Detail, {Of(i)[n]})]

IsRefresh(p) == p.kind \in {"stuck", "breach", "error", "notRun"}

\* One line for a target: all but the refresh alerts past the second.
Kept(i) ==
  {n \in DOMAIN i.problems :
     IsRefresh(Of(i)[n]) => Cardinality({m \in 1..n : IsRefresh(Of(i)[m])}) <= CompactRefresh}

Compacted(i) ==
  IF i.problems = <<>> THEN <<>>
  ELSE <<TextLine(1 + Cardinality(Kept(i)), {Of(i)[n] : n \in Kept(i)})>>

DetailedLines(its) == Summary \o FlattenSeq([n \in DOMAIN its |-> Detailed(its[n])])
CompactLines(its) == Summary \o FlattenSeq([n \in DOMAIN its |-> Compacted(its[n])])

\* _daily_routine_notification_chunks: a line too long for a message has one of its own.
Pack(acc, line) ==
  IF acc.used > 0 /\ acc.used + line.size > Capacity
  THEN [done |-> Append(acc.done, acc.current), current |-> line.problems, used |-> line.size]
  ELSE [acc EXCEPT !.current = @ \cup line.problems, !.used = @ + line.size]

Chunks(lines) ==
  LET packed[n \in 0..Len(lines)] ==
        IF n = 0 THEN [done |-> <<>>, current |-> {}, used |-> 0] ELSE Pack(packed[n - 1], lines[n])
      end == packed[Len(lines)] IN
  Append(end.done, end.current)

Messages(its) ==
  LET detailed == Chunks(DetailedLines(its))  compact == Chunks(CompactLines(its)) IN
  IF Len(detailed) > MaxMessages /\ Len(compact) <= MaxMessages THEN compact ELSE detailed

\* The text of a refresh alert that is not an error names its hours, which only notRun has; the
\* detailed lines are made first, whatever form is sent.
Formats(its) ==
  \A n \in DOMAIN its : \A p \in DOMAIN its[n].problems : its[n].problems[p] \notin {"stuck", "breach"}

\* An error here, and every one below, makes the answer say that nothing was delivered.
Format(c) ==
  /\ At(c, "format")
  /\ IF Formats(items[c]) /\ Len(Messages(items[c])) <= MaxMessages
     THEN /\ outbox' = [outbox EXCEPT ![c] = Messages(items[c])]
          /\ Go(c, "post") /\ UNCHANGED outcome
     ELSE outcome' = [outcome EXCEPT ![c] = "undelivered"] /\ Go(c, "done") /\ UNCHANGED outbox
  /\ UNCHANGED <<truth, items, found, posted, unread>>

\* Mutant: an error of one message does not end the others.
PostGoingOn(c) ==
  /\ At(c, "post")
  /\ \/ /\ posted' = [posted EXCEPT ![c] = Append(@, Head(outbox[c]))]
        /\ Go(c, IF Len(outbox[c]) = 1 THEN "done" ELSE "post")
     \/ Strike(c, "rejected", IF Len(outbox[c]) = 1 THEN "done" ELSE "post") /\ UNCHANGED posted
  /\ outbox' = [outbox EXCEPT ![c] = Tail(@)]
  /\ outcome' = [outcome EXCEPT ![c] = IF Len(outbox[c]) = 1 THEN "delivered" ELSE @]
  /\ UNCHANGED <<truth, items, found, unread>>

\* chat.postMessage: taken, rejected, or taken with the answer lost.
Post(c) ==
  /\ At(c, "post")
  /\ \/ /\ posted' = [posted EXCEPT ![c] = Append(@, Head(outbox[c]))]
        /\ outbox' = [outbox EXCEPT ![c] = Tail(@)]
        /\ IF Len(outbox[c]) = 1
           THEN outcome' = [outcome EXCEPT ![c] = "delivered"] /\ Go(c, "done")
           ELSE UNCHANGED outcome /\ Go(c, "post")
     \/ \E lost \in BOOLEAN :
          /\ posted' = IF lost THEN [posted EXCEPT ![c] = Append(@, Head(outbox[c]))] ELSE posted
          /\ outcome' = [outcome EXCEPT ![c] = "undelivered"]
          /\ Strike(c, IF lost THEN "lost" ELSE "rejected", "done")
          /\ UNCHANGED outbox
  /\ UNCHANGED <<truth, items, found, unread>>

DailyInit ==
  /\ truth \in [es : SUBSET {"backup", "log", "space"}, other : SUBSET {"backup", "log", "space"},
                refresh : RefreshCases]
  /\ items = [c \in Calls |-> <<>>]
  /\ found = [c \in Calls |-> <<>>]
  /\ outbox = [c \in Calls |-> <<>>]
  /\ posted = [c \in Calls |-> <<>>]
  /\ outcome = [c \in Calls |-> "none"]
  /\ unread = {}

DailyNext ==
  \E c \in Calls :
    \/ DailyStart(c) \/ \E check \in ToSet(Checks) : Check(c, check)
    \/ CheckFails(c) \/ Report(c) \/ OpenDm(c) \/ Format(c) \/ Post(c)

-----------------------------------------------------------------------------
\* A target that a check calls ok has no problem at all: no exception of a check and no cut of a
\* list turns a problem into silence.  The exception is the backlog of Spain, whose failing read
\* counts as no backlog.
OkMeansClean ==
  \A c \in Calls, n \in 1..Len(Targets) :
    n <= Len(items[c]) /\ items[c][n].status = "ok" =>
      /\ truth[Targets[n]] = {}
      /\ Targets[n] = "es" => RefreshAlerts(truth.refresh) = <<>> \/ c \in unread

\* A report said to be delivered is whole: its messages name every target with a problem and every
\* problem the check found, except that the compact form cuts the refresh alerts of Spain to two.
\* However many messages it takes, and whichever of them was refused.
DeliveredIsWhole ==
  \A c \in Calls : outcome[c] = "delivered" =>
    LET sent == UNION ToSet(posted[c]) IN
    \A n \in DOMAIN items[c] :
      /\ \A p \in ToSet(Of(items[c][n])) : p \in sent \/ IsRefresh(p)
      /\ Cardinality({p \in sent : IsRefresh(p) /\ p.target = items[c][n].target})
           >= Min({CompactRefresh, Cardinality({p \in ToSet(Of(items[c][n])) : IsRefresh(p)})})

\* What _daily_routine_notification_messages says: when the findings outgrow three messages the
\* compact form still carries every problem rather than being dropped.  A check that met no
\* failure and had a channel sent every kind of problem it found.
CarriesEveryProblem ==
  \A c \in Calls :
    At(c, "done") /\ struck[c] = "no" /\ req[c].channel # "none" =>
      \A n \in DOMAIN items[c] :
        ToSet(Of(items[c][n])) \subseteq UNION ToSet(posted[c])
=============================================================================
