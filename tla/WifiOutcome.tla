---------------------------- MODULE WifiOutcome -----------------------------
(***************************************************************************)
(* What hardware/wifi.py promises the app that polls it, and what SshApp   *)
(* relies on: a connect that was begun is answered once, ok or fail, until *)
(* then it is running, it may be cancelled, and from some moment on        *)
(* (settled, wifi_expired in SshApp) a poll no longer answers running.     *)
(***************************************************************************)
VARIABLES
    pending, settled, answer,
    beat        \* flips when a poll answers running

vars == <<pending, settled, answer, beat>>

Init == pending = FALSE /\ settled = FALSE /\ answer = "none" /\ beat = FALSE

Begin ==
    ~pending /\ pending' = TRUE /\ settled' \in BOOLEAN /\ answer' = "none" /\ UNCHANGED beat

Settle == pending /\ ~settled /\ settled' = TRUE /\ UNCHANGED <<pending, answer, beat>>

\* The retry a poll makes may be the last thing there is to wait for.
Running ==
    pending /\ ~settled /\ settled' \in BOOLEAN /\ beat' = ~beat /\ UNCHANGED <<pending, answer>>

Answer ==
    pending /\ pending' = FALSE /\ settled' = FALSE /\ answer' \in {"ok", "fail"} /\ UNCHANGED beat

Cancel == pending /\ pending' = FALSE /\ settled' = FALSE /\ UNCHANGED <<answer, beat>>

Next == Begin \/ Settle \/ Running \/ Answer \/ Cancel

Spec == Init /\ [][Next]_vars

=============================================================================
