-------------------------- MODULE PhilippinesViews --------------------------
(***************************************************************************)
(* The objects of TRANSFER_USER that the Philippines refresh reads through *)
(* PH_DB (philippines_refresh.py): three tables, an index, and three       *)
(* materialized views on the tables; the tool that retires one view        *)
(* (object_retire.py); and the tools of DatabaseLinks, which share the     *)
(* link, the account behind it and the procedure names with them.          *)
(***************************************************************************)
EXTENDS DatabaseLinks

CONSTANT
  ViewKinds  \* the tools of this module that are called

\* In the order of TABLE_SQL and MVIEW_QUERIES.
ViewNames == <<"PH_UUT_ATTRUBUTES", "PH_UUT_ATTRIBUTES_UPDATE", "PH_NKEYS_ALLOCATED">>
ViewSet == {ViewNames[i] : i \in 1..3}
ViewTools == {"objects", "describe", "dropView"}
ViewSteps == {"lookTable", "makeTable", "lookIndex", "makeIndex", "before", "makeProc", "makeView",
              "after", "dropProc", "dropProcRaise", "lookView", "dropView", "confirmGone"}

ASSUME ViewAssumption == ViewKinds \subseteq ViewTools

VARIABLES
  tables, index, mviews,  \* what exists in TRANSFER_USER
  nth,                    \* nth[c]: the table or view c works on
  found,                  \* found[c]: the views that existed before c ran its procedure
  created                 \* created[c]: the views c reports as created

objects == <<tables, index, mviews>>
viewLocals == <<nth, found, created>>
viewVars == <<linkVars, objects, viewLocals>>

CreateProc == "create_ph_refresh_mviews"

ViewStart(c) ==
  \E k \in ViewKinds, n \in 1..3 :
    /\ k # "dropView" => n = 1
    /\ Begin(c, [kind |-> k, public |-> PhDb, source |-> PhDb],
             CASE k = "objects" -> "lookTable" [] k = "dropView" -> "lookView"
               [] k = "describe" -> "makeProbe", Found)
    /\ nth' = [nth EXCEPT ![c] = n]
    /\ UNCHANGED <<database, locals, objects, found, created>>

-----------------------------------------------------------------------------
(* create_objects *)

\* The next table, or the index after the last.
NextTable(c) ==
  /\ Go(c, IF nth[c] < 3 THEN "lookTable" ELSE "lookIndex")
  /\ nth' = [nth EXCEPT ![c] = IF nth[c] < 3 THEN nth[c] + 1 ELSE 1]

LookTable(c) ==
  /\ At(c, "lookTable")
  /\ IF ViewNames[nth[c]] \in tables THEN NextTable(c)
     ELSE Go(c, "makeTable") /\ UNCHANGED nth
  /\ UNCHANGED <<database, locals, objects, found, created>>

MakeTable(c) ==
  /\ At(c, "makeTable")
  /\ IF ViewNames[nth[c]] \in tables THEN Go(c, "raised") /\ UNCHANGED <<tables, nth>>
     ELSE NextTable(c) /\ tables' = tables \cup {ViewNames[nth[c]]}
  /\ UNCHANGED <<database, locals, index, mviews, found, created>>

\* Mutant: the index is taken to exist with its table.
LookIndexOfTable(c) ==
  /\ At(c, "lookIndex")
  /\ Go(c, IF tables = ViewSet THEN "before" ELSE "makeIndex")
  /\ UNCHANGED <<database, locals, objects, viewLocals>>

LookIndex(c) ==
  /\ At(c, "lookIndex")
  /\ Go(c, IF index THEN "before" ELSE "makeIndex")
  /\ UNCHANGED <<database, locals, objects, viewLocals>>

MakeIndex(c) ==
  /\ At(c, "makeIndex")
  /\ Go(c, IF index THEN "raised" ELSE "before")
  /\ index' = TRUE
  /\ UNCHANGED <<database, locals, tables, mviews, viewLocals>>

Before(c) ==
  /\ At(c, "before")
  /\ found' = [found EXCEPT ![c] = mviews]
  /\ Go(c, "makeProc")
  /\ UNCHANGED <<database, locals, objects, nth, created>>

\* Oracle: DDL on a procedure waits until no one runs it.
Runs == {d \in Calls : pc[d] = "makeView"}

MakeProc(c) ==
  /\ At(c, "makeProc") /\ Runs = {}
  /\ proc' = [proc EXCEPT ![CreateProc] = [by |-> c, valid |-> TRUE]]
  /\ Go(c, "makeView")
  /\ UNCHANGED <<links, ate, dblink, flagProbe, locals, objects, viewLocals>>

NextView(c) ==
  /\ Go(c, IF nth[c] < 3 THEN "makeView" ELSE "after")
  /\ nth' = [nth EXCEPT ![c] = IF nth[c] < 3 THEN nth[c] + 1 ELSE 1]

\* The procedure creates each view that is missing; the view is parsed over the link of the owner.
MakeView(c) ==
  /\ At(c, "makeView")
  /\ IF ViewNames[nth[c]] \in mviews THEN NextView(c) /\ UNCHANGED <<ate, mviews>>
     ELSE \E result \in BOOLEAN :
            /\ Logon(TransferRows, result)
            /\ IF result THEN NextView(c) /\ mviews' = mviews \cup {ViewNames[nth[c]]}
               ELSE Go(c, "dropProcRaise") /\ UNCHANGED <<nth, mviews>>
  /\ UNCHANGED <<links, dblink, flagProbe, proc, locals, tables, index, found, created>>

After(c) ==
  /\ At(c, "after")
  /\ created' = [created EXCEPT ![c] = mviews \ found[c]]
  /\ Go(c, "dropProc")
  /\ UNCHANGED <<database, locals, objects, nth, found>>

\* In the finally; an error of the drop hides the answer.
DropProc(c) ==
  /\ pc[c] \in {"dropProc", "dropProcRaise"} /\ Runs = {}
  /\ proc' = Dropped(CreateProc)
  /\ Go(c, IF At(c, "dropProc") /\ proc[CreateProc].by # Absent THEN "done" ELSE "raised")
  /\ UNCHANGED <<links, ate, dblink, flagProbe, locals, objects, viewLocals>>

-----------------------------------------------------------------------------
(* drop_saved_materialized_view *)

\* A view that is missing, or that another object depends on, is refused.
LookView(c) ==
  /\ At(c, "lookView")
  /\ \/ ViewNames[nth[c]] \in mviews /\ Go(c, "dropView")
     \/ Go(c, "raised")
  /\ UNCHANGED <<database, locals, objects, viewLocals>>

\* The prebuilt table stays.
DropView(c) ==
  /\ At(c, "dropView")
  /\ Go(c, IF ViewNames[nth[c]] \in mviews THEN "confirmGone" ELSE "raised")
  /\ mviews' = mviews \ {ViewNames[nth[c]]}
  /\ UNCHANGED <<database, locals, tables, index, viewLocals>>

ConfirmGone(c) ==
  /\ At(c, "confirmGone")
  /\ Go(c, IF ViewNames[nth[c]] \in mviews THEN "raised" ELSE "done")
  /\ UNCHANGED <<database, locals, objects, viewLocals>>

-----------------------------------------------------------------------------
ViewFails(c) ==
  /\ pc[c] \in ViewSteps
  /\ Strike(c, "failed", IF pc[c] \in {"makeView", "after"} THEN "dropProcRaise" ELSE "raised")
  /\ UNCHANGED <<database, locals, objects, viewLocals>>

ViewStep(c) ==
  \/ LookTable(c) \/ MakeTable(c) \/ LookIndex(c) \/ MakeIndex(c) \/ Before(c) \/ MakeProc(c)
  \/ MakeView(c) \/ After(c) \/ DropProc(c) \/ LookView(c) \/ DropView(c) \/ ConfirmGone(c)
  \/ ViewFails(c)

Init ==
  /\ LinkInit
  /\ \E all \in BOOLEAN :
       /\ tables = IF all THEN ViewSet ELSE {}
       /\ index = all
       /\ mviews = tables
  /\ nth = [c \in Calls |-> 1]
  /\ found = [c \in Calls |-> {}]
  /\ created = [c \in Calls |-> {}]

Next ==
  \E c \in Calls :
    \/ ViewStart(c) \/ ViewStep(c)
    \/ (LinkStart(c) \/ LinkStep(c)) /\ UNCHANGED <<objects, viewLocals>>

Spec == Init /\ [][Next]_viewVars

-----------------------------------------------------------------------------

\* create_objects can be called again after any earlier failure: a call that runs alone and meets
\* no failing statement ends with every table, the index and every view, and names the views it
\* made; it raises only when PH_DB, as TRANSFER_USER sees it, does not open.
ObjectsCompleteOrLinkDown ==
  [][\A c \in Calls :
       Undisturbed(c) /\ req[c].kind = "objects" =>
         IF pc'[c] = "done" THEN tables = ViewSet /\ index /\ mviews = ViewSet
                                 /\ created[c] = ViewSet \ found[c]
         ELSE TransferRows = {} \/ \E l \in TransferRows : ~Opens(l)]_viewVars
=============================================================================
