----------------------------- MODULE HostTable ------------------------------
(***************************************************************************)
(* What badge/apps/ssh/known_hosts.py promises over crashes and failing    *)
(* writes: a table from host:port to the key that verifies.  trust sets    *)
(* one entry and keeps the others, or, when it cannot open the file,       *)
(* changes nothing.  A write that is cut short may lose any entry, or      *)
(* bring back one that was lost, but a key that verifies is always the     *)
(* last whose writing was begun for its host.  It may leave the table      *)
(* frayed (the file ends inside a line).  A trust on a frayed table may    *)
(* fail, and lose an entry, once: it then leaves the table whole.          *)
(***************************************************************************)
CONSTANTS Hosts, Fps, NoFp

VARIABLES
    table,
    frayed,
    whole,      \* the last trust wrote all it had to
    asked,      \* host and key of the last trust
    latest      \* the last key whose writing was begun for each host

vars == <<table, frayed, whole, asked, latest>>

Init ==
    /\ table = [k \in Hosts |-> NoFp] /\ frayed = FALSE /\ whole = TRUE
    /\ asked = <<>> /\ latest = [k \in Hosts |-> NoFp]

Ask(k, f) ==
    /\ table[k] # f
    /\ asked' = <<k, f>>

Begin(k, f) == latest' = [latest EXCEPT ![k] = f]

Trust(k, f) ==
    /\ ~frayed /\ UNCHANGED frayed /\ whole'
    /\ table' = [table EXCEPT ![k] = f]

\* Every host but k keeps its key or loses it.
TrustFrayed(k, f) ==
    /\ frayed /\ frayed' \in BOOLEAN /\ whole'
    /\ table' \in [Hosts -> Fps \cup {NoFp}]
    /\ table'[k] \in {f, NoFp}
    /\ table'[k] = NoFp => ~frayed'
    /\ \A j \in Hosts \ {k} : table'[j] \in {table[j], NoFp}

Cut ==
    /\ frayed' \in BOOLEAN /\ ~whole'
    /\ table' \in [Hosts -> Fps \cup {NoFp}]
    /\ \A j \in Hosts : table'[j] \in {latest'[j], NoFp}

Refuse == ~whole' /\ UNCHANGED <<table, frayed, latest>>

Next ==
    \E k \in Hosts, f \in Fps :
        /\ Ask(k, f)
        /\ \/ Begin(k, f) /\ (Trust(k, f) \/ TrustFrayed(k, f) \/ Cut)
           \/ Refuse

Spec == Init /\ [][Next]_vars

=============================================================================
