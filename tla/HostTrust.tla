----------------------------- MODULE HostTrust ------------------------------
(***************************************************************************)
(* What trust on first use promises (known_hosts.py line 1): a shell runs  *)
(* on an attempt only if its host key is the recorded one, or the user     *)
(* approved that very key for that very attempt; and only an approved key  *)
(* ever gets recorded.  A firmware without get_fingerprint presents no key *)
(* and is let through, as the code does (worker.py line 29).               *)
(***************************************************************************)
CONSTANTS Attempts, Fingerprints, NoFp

VARIABLES
    known,      \* the recorded key, or NoFp
    hostkey,    \* the key each attempt presented, or NoFp
    approved,   \* attempts whose key the user approved
    open        \* attempts that are past the check

trustVars == <<known, hostkey, approved, open>>

Init ==
    /\ known \in Fingerprints \cup {NoFp}
    /\ hostkey = [a \in Attempts |-> NoFp]
    /\ approved = {}
    /\ open = {}

Present(a) ==
    /\ a \notin open /\ a \notin approved
    /\ \E f \in Fingerprints : hostkey' = [hostkey EXCEPT ![a] = f]
    /\ UNCHANGED <<known, approved, open>>

Approve(a) ==
    /\ hostkey[a] # NoFp
    /\ approved' = approved \cup {a}
    /\ UNCHANGED <<known, hostkey, open>>

\* The recorded key, or no key to check.
AdmitKnown(a) ==
    /\ hostkey[a] \in {known, NoFp}
    /\ open' = open \cup {a}
    /\ UNCHANGED <<known, hostkey, approved>>

\* An approved key; recording it may fail and may lose the old record.
AdmitApproved(a) ==
    /\ a \in approved
    /\ known' \in {hostkey[a], known, NoFp}
    /\ open' = open \cup {a}
    /\ UNCHANGED <<hostkey, approved>>

Close(a) ==
    /\ open' = open \ {a}
    /\ UNCHANGED <<known, hostkey, approved>>

Next == \E a \in Attempts :
    Present(a) \/ Approve(a) \/ AdmitKnown(a) \/ AdmitApproved(a) \/ Close(a)

Spec == Init /\ [][Next]_trustVars

=============================================================================
