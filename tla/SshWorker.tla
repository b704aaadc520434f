----------------------------- MODULE SshWorker ------------------------------
(***************************************************************************)
(* badge/apps/ssh/worker.py: the thread that start_session creates for one *)
(* connection attempt.  It calls the ssh backend, reports through its      *)
(* event deque, and is controlled through the three flags of its           *)
(* SessionHandle.                                                          *)
(*                                                                         *)
(* One label per point where the thread can be overtaken by the UI in a    *)
(* way that matters: before a call that blocks, before a read of a flag,   *)
(* before a read or a write of known_hosts.  Consecutive appends are one   *)
(* step.  The app always passes skip_wifi=True, so lines 90-95 never run.  *)
(***************************************************************************)
EXTENDS BoundedDeque

CONSTANTS
    MaxAttempts,    \* bound: how often the user starts a connection
    Fingerprints,   \* host keys a server may present
    NoFp,           \* "", no fingerprint; also "no line for this host"
    EventCap        \* maxlen of event_queue (16 in the code)

ASSUME WorkerAssumption ==
    /\ MaxAttempts \in Nat \ {0}
    /\ NoFp \notin Fingerprints
    /\ EventCap \in Nat
    /\ EventCap >= 13

Attempts == 1..MaxAttempts
Queues   == 0..MaxAttempts
MaybeFp  == Fingerprints \cup {NoFp}

\* What the firmware offers: "pty" has ssh.open_shell, "exec" an ssh module
\* without it, "tcp" no ssh module, "nothread" no _thread module.
Firmwares == {"pty", "exec", "tcp", "nothread"}

Kinds  == {"progress", "fingerprint", "session", "banner", "exec", "error", "done"}
Events == [kind : Kinds, fp : MaybeFp]

Labels == {"idle", "wifi", "connect", "authed", "trust", "wait", "ask", "shell",
           "spawn", "loop", "close_done", "close_failed", "exec", "banner",
           "dead", "crashed"}

\* Labels in front of a call into libssh2 on a blocking socket without a
\* timeout: the thread may stay there for as long as the peer is silent.
NativeLabels == {"connect", "shell", "close_done", "close_failed", "exec"}

Shells == {"none", "refused", "started"}

VARIABLES
    firmware,       \* constant of a behaviour
    events,         \* contents of every event deque ever made
    known_hosts,    \* the line of the one host:port, or NoFp
    running, stop_flag, trusted,    \* SessionHandle of each attempt
    pc,             \* where the attempt's thread is
    worker_queue,   \* the event deque that was given to the thread
    fp,             \* local fp of _worker
    expired,        \* timeout_ms of _wait_trust has passed
    sess_open,      \* Session._open
    shell           \* what open_shell did: see OpenShell

handleVars == <<running, stop_flag, trusted>>
localVars  == <<worker_queue, fp, expired, sess_open, shell>>
threadVars == <<pc, localVars>>
workerVars == <<firmware, events, known_hosts, handleVars, threadVars>>

WorkerTypeOK ==
    /\ firmware \in Firmwares
    /\ events \in [Queues -> Seq(Events)]
    /\ known_hosts \in MaybeFp
    /\ running \in [Attempts -> BOOLEAN]
    /\ stop_flag \in [Attempts -> BOOLEAN]
    /\ trusted \in [Attempts -> BOOLEAN]
    /\ pc \in [Attempts -> Labels]
    /\ worker_queue \in [Attempts -> Queues]
    /\ fp \in [Attempts -> MaybeFp]
    /\ expired \in [Attempts -> BOOLEAN]
    /\ sess_open \in [Attempts -> BOOLEAN]
    /\ shell \in [Attempts -> Shells]

WorkerInit ==
    /\ firmware \in Firmwares
    /\ known_hosts \in MaybeFp
    /\ events = [q \in Queues |-> <<>>]
    /\ running = [w \in Attempts |-> FALSE]
    /\ stop_flag = [w \in Attempts |-> FALSE]
    /\ trusted = [w \in Attempts |-> FALSE]
    /\ pc = [w \in Attempts |-> "idle"]
    /\ worker_queue = [w \in Attempts |-> 0]
    /\ fp = [w \in Attempts |-> NoFp]
    /\ expired = [w \in Attempts |-> FALSE]
    /\ sess_open = [w \in Attempts |-> FALSE]
    /\ shell = [w \in Attempts |-> "none"]

Alive(w)   == pc[w] \notin {"idle", "dead", "crashed"}
Stopped(w) == ~running[w] \/ stop_flag[w]

Ev(k) == [kind |-> k, fp |-> NoFp]
Progress(n) == [i \in 1..n |-> Ev("progress")]

Post(w, es) ==
    events' = [events EXCEPT ![worker_queue[w]] = PushAll(@, es, EventCap)]

Goto(w, l) == pc' = [pc EXCEPT ![w] = l]

\* The finally clause of _worker; label "crashed" when an exception left the
\* session open.
Exit(w, l) == Goto(w, l) /\ running' = [running EXCEPT ![w] = FALSE]

-----------------------------------------------------------------------------
(* start_session and stop_session, called by the UI.                       *)

\* handle is the attempt, q the event deque passed in.
start_session(w, q) ==
    /\ pc' = [pc EXCEPT ![w] = "wifi"]
    /\ running' = [running EXCEPT ![w] = TRUE]
    /\ stop_flag' = [stop_flag EXCEPT ![w] = FALSE]
    /\ trusted' = [trusted EXCEPT ![w] = FALSE]
    /\ worker_queue' = [worker_queue EXCEPT ![w] = q]
    /\ UNCHANGED <<firmware, events, known_hosts, fp, expired, sess_open, shell>>

\* A handle that is None is in no one's domain, so nothing changes.
stop_session(h) ==
    /\ stop_flag' = [w \in Attempts |-> stop_flag[w] \/ w = h]
    /\ running' = [w \in Attempts |-> running[w] /\ w # h]

-----------------------------------------------------------------------------
(* The thread, one action per stretch of _worker.                          *)

\* The path for the firmware: PTY session, exec, or TCP probe.
BackendLabel == IF firmware = "pty" THEN "connect"
                ELSE IF firmware = "exec" THEN "exec" ELSE "banner"

\* Lines 96-108 and 139-143, 160: WiFi is gone, or the progress lines of the
\* chosen path; the fourth is posted when a private key is used.
CheckWifi(w) ==
    /\ pc[w] = "wifi"
    /\ \/ /\ Post(w, <<Ev("error")>>)
          /\ Exit(w, "dead")
       \/ /\ \E n \in IF firmware = "tcp" THEN {3} ELSE {3, 4} : Post(w, Progress(n))
          /\ Goto(w, BackendLabel)
          /\ UNCHANGED running
    /\ UNCHANGED <<firmware, known_hosts, stop_flag, trusted, localVars>>

\* session.connect: success, an error code, or an exception.
SessionConnect(w) ==
    /\ pc[w] = "connect"
    /\ \/ /\ sess_open' = [sess_open EXCEPT ![w] = TRUE]
          /\ Goto(w, "authed")
          /\ UNCHANGED <<events, running>>
       \/ /\ Post(w, <<Ev("error")>>)
          /\ Goto(w, "close_failed")
          /\ UNCHANGED <<running, sess_open>>
       \/ /\ Post(w, <<Ev("error")>>)
          /\ Exit(w, "dead")
          /\ UNCHANGED sess_open
    /\ UNCHANGED <<firmware, known_hosts, stop_flag, trusted,
                   worker_queue, fp, expired, shell>>

\* session.fingerprint: the native module's global hex string, "" if the
\* firmware has no get_fingerprint.
ReadFingerprint(w) ==
    /\ pc[w] = "authed"
    /\ \E f \in MaybeFp :
          /\ fp' = [fp EXCEPT ![w] = f]
          /\ Post(w, IF f = NoFp THEN Progress(1)
                     ELSE <<Ev("progress"), [kind |-> "fingerprint", fp |-> f],
                            Ev("progress")>>)
    /\ Goto(w, "trust")
    /\ UNCHANGED <<firmware, known_hosts, handleVars,
                   worker_queue, expired, sess_open, shell>>

\* Mutant: any stored line for the host will do.
Verified_AnyRecord(w) == fp[w] = NoFp \/ known_hosts # NoFp

\* known_hosts.verify: the stored line equals the presented key.
Verified(w) == fp[w] = NoFp \/ fp[w] = known_hosts

CheckKnown(w) ==
    /\ pc[w] = "trust"
    /\ \/ /\ Verified(w)
          /\ trusted' = [trusted EXCEPT ![w] = TRUE]
          /\ Goto(w, "shell")
          /\ UNCHANGED events
       \/ /\ ~Verified(w)
          /\ Post(w, Progress(1))
          /\ Goto(w, "wait")
          /\ UNCHANGED trusted
    /\ UNCHANGED <<firmware, known_hosts, running, stop_flag, localVars>>

\* Mutant: the denied path forgets to report.
Denied_Silent(w) == Goto(w, "close_failed") /\ UNCHANGED events

\* Mutant: the denied path forgets session.close.
Denied_NoClose(w) == Post(w, <<Ev("error")>>) /\ Goto(w, "dead")

\* _wait_trust returned False: lines 126-127, then the close of line 128.
Denied(w) ==
    /\ Post(w, <<Ev("error")>>)
    /\ Goto(w, "close_failed")

\* The loop condition of _wait_trust.
WaitTrust(w) ==
    /\ pc[w] = "wait"
    /\ \/ Stopped(w) /\ Denied(w)
       \/ ~Stopped(w) /\ Goto(w, "ask") /\ UNCHANGED events
    /\ UNCHANGED <<firmware, known_hosts, handleVars, localVars>>

\* Mutant: the timeout test is missing.
AskTrust_NoTimeout(w) ==
    /\ pc[w] = "ask"
    /\ \/ /\ trusted[w]
          /\ known_hosts' \in {fp[w], known_hosts, NoFp}
          /\ Goto(w, "shell")
       \/ /\ ~trusted[w]
          /\ Goto(w, "wait")
          /\ UNCHANGED known_hosts
    /\ UNCHANGED <<firmware, events, handleVars, localVars>>

\* The loop body of _wait_trust.  known_hosts.trust ignores an OSError: the
\* old line may be gone (open "w" truncates), still there, or replaced.
AskTrust(w) ==
    /\ pc[w] = "ask"
    /\ \/ /\ trusted[w]
          /\ known_hosts' \in {fp[w], known_hosts, NoFp}
          /\ Goto(w, "shell")
          /\ UNCHANGED events
       \/ /\ ~trusted[w] /\ expired[w]
          /\ Denied(w)
          /\ UNCHANGED known_hosts
       \/ /\ ~trusted[w] /\ ~expired[w]
          /\ Goto(w, "wait")
          /\ UNCHANGED <<events, known_hosts>>
    /\ UNCHANGED <<firmware, handleVars, localVars>>

\* ticks_diff exceeds timeout_ms.
TrustTimeout(w) ==
    /\ pc[w] \in {"wait", "ask"}
    /\ ~expired[w]
    /\ expired' = [expired EXCEPT ![w] = TRUE]
    /\ UNCHANGED <<firmware, events, known_hosts, handleVars, pc,
                   worker_queue, fp, sess_open, shell>>

\* Lines 130-133: the return code of open_shell is dropped.  0: the shell
\* started.  -4: refused, but the channel stays, on a session that still
\* blocks.  Else there is no channel.
OpenShell(w) ==
    /\ pc[w] = "shell"
    /\ \E r \in Shells : shell' = [shell EXCEPT ![w] = r]
    /\ Post(w, <<Ev("progress"), Ev("session"), Ev("progress")>>)
    /\ Goto(w, "spawn")
    /\ UNCHANGED <<firmware, known_hosts, handleVars,
                   worker_queue, fp, expired, sess_open>>

\* start_new_thread(read_loop): when it raises, the except clause reports the
\* error and no one closes the session.
SpawnReader(w) ==
    /\ pc[w] = "spawn"
    /\ \/ /\ Goto(w, "loop")
          /\ UNCHANGED <<events, running>>
       \/ /\ Post(w, <<Ev("error")>>)
          /\ Exit(w, "crashed")
    /\ UNCHANGED <<firmware, known_hosts, stop_flag, trusted, localVars>>

\* Mutant: the loop does not read the flags.
LeaveLoop_Never(w) == pc[w] = "loop" /\ FALSE /\ UNCHANGED workerVars

\* The loop of _pty_session_loop ends; its body drains tx_queue.
LeaveLoop(w) ==
    /\ pc[w] = "loop"
    /\ Stopped(w)
    /\ Goto(w, "close_done")
    /\ UNCHANGED <<firmware, events, known_hosts, handleVars, localVars>>

\* session.close, after the loop and after a failure.
CloseSession(w) ==
    /\ \/ pc[w] = "close_done" /\ Post(w, <<Ev("done")>>)
       \/ pc[w] = "close_failed" /\ UNCHANGED events
    /\ sess_open' = [sess_open EXCEPT ![w] = FALSE]
    /\ Exit(w, "dead")
    /\ UNCHANGED <<firmware, known_hosts, stop_flag, trusted,
                   worker_queue, fp, expired, shell>>

\* backend.exec_command or backend.tcp_banner: a result or an error.  Neither
\* path reads the stop flag.
RunProbe(w) ==
    /\ pc[w] \in {"exec", "banner"}
    /\ \/ Post(w, <<Ev("error")>>)
       \/ Post(w, <<Ev(pc[w]), Ev("progress")>>)
    /\ Exit(w, "dead")
    /\ UNCHANGED <<firmware, known_hosts, stop_flag, trusted, localVars>>

WorkerStep(w) ==
    \/ CheckWifi(w) \/ SessionConnect(w) \/ ReadFingerprint(w) \/ CheckKnown(w)
    \/ WaitTrust(w) \/ AskTrust(w) \/ OpenShell(w) \/ SpawnReader(w)
    \/ LeaveLoop(w) \/ CloseSession(w) \/ RunProbe(w)

\* The thread may be inside a call that waits for the server; after a refused
\* open_shell the write of the loop is one too.
InNative(w) == \/ pc[w] \in NativeLabels
               \/ pc[w] = "loop" /\ shell[w] = "refused"

\* The steps that need nothing from the peer: they happen as long as the
\* thread is scheduled.
PromptStep(w) == ~InNative(w) /\ WorkerStep(w)

=============================================================================
