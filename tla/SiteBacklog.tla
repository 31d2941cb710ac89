---------------------------- MODULE SiteBacklog -----------------------------
(***************************************************************************)
(* The backlog that the daily check reads for every site                   *)
(* (site_backlog.fetch_site_backlog): it classifies the staged rows        *)
(* against the committed global table while the tools of SiteTransfer run. *)
(* The thresholds by number and age are left out.                          *)
(***************************************************************************)
EXTENDS SiteTransfer

Staged(s) == {sn \in Serials : src[s][sn] # NoRow}

\* Fault: serial matches are not left out.
EligibleByRf(s) == {sn \in Staged(s) : ~HasRf(glob, src[s][sn].rf)}
Eligible(s) == {sn \in Staged(s) : ~HasSerial(glob, sn) /\ ~HasRf(glob, src[s][sn].rf)}

-----------------------------------------------------------------------------
\* A unit the transfer log names is never counted as backlog, whatever half of
\* a failed refresh was committed: the classes are read from the global table,
\* which the log never runs ahead of.
LoggedIsNotBacklog ==
  \A s \in Sites : \A sn \in Eligible(s) : ~Logged(tlog, sn)

=============================================================================
