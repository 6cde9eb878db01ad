----------------------------- MODULE SessionAbs -----------------------------
(***************************************************************************)
(* What one connection's task promises the rest of the process (spec      *)
(* section 5): it runs for a while and ends, and once the process-wide     *)
(* cancellation token has fired it does end.  The task holds a clone of   *)
(* the shutdown sender until it ends, so main's wait depends on exactly    *)
(* this promise.  Session is shown to implement it.                        *)
(***************************************************************************)
VARIABLES
    ended,      \* the task has returned (its sender clone is dropped)
    cancelled   \* the cancellation token has fired

absVars == <<ended, cancelled>>

AbsInit == ended = FALSE /\ cancelled = FALSE

\* The task returns: end of stream, an error, a framing error, or cancel.
AbsEnd == ~ended /\ ended' = TRUE /\ UNCHANGED cancelled

\* ctrl-c fires the token.
AbsCancel == ~cancelled /\ cancelled' = TRUE /\ UNCHANGED ended

AbsNext == AbsEnd \/ AbsCancel

\* A task that is still running once the token has fired ends.
AbsSpec == AbsInit /\ [][AbsNext]_absVars /\ WF_absVars(cancelled /\ AbsEnd)

=============================================================================
