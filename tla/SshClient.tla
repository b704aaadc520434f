----------------------------- MODULE SshClient ------------------------------
(***************************************************************************)
(* The connection life cycle: the app's UI loop (SshApp) together with the *)
(* worker threads (SshWorker) it has started, the one it still controls    *)
(* and the ones it has only told to stop.  They share the event deques,    *)
(* the flags of the session handles and the known_hosts file.              *)
(***************************************************************************)
EXTENDS SshApp

Init == WorkerInit /\ AppInit

Worker(w) == (WorkerStep(w) \/ TrustTimeout(w)) /\ UNCHANGED appVars

App == run_foreground \/ SwitchToForeground \/ WifiTimeout

Next == App \/ \E w \in Attempts : Worker(w)

\* The scheduler keeps calling run_foreground, threads keep running, clocks
\* advance.  Nothing is assumed of keys, of the launcher, or of calls that
\* wait for the SSH server (InNative).
Fairness ==
    /\ WF_vars(run_foreground)
    /\ WF_vars(WifiTimeout)
    /\ \A w \in Attempts : WF_vars(PromptStep(w) /\ UNCHANGED appVars)
    /\ \A w \in Attempts : WF_vars(TrustTimeout(w) /\ UNCHANGED appVars)

Spec     == Init /\ [][Next]_vars
FairSpec == Spec /\ Fairness

-----------------------------------------------------------------------------
(* Safety.                                                                 *)

\* Every variable stays in its type.
TypeOK == WorkerTypeOK /\ AppTypeOK

\* A thread that has not been told to stop is the one whose handle the app
\* holds: no path through _stop_worker, _show_error, _start_connect or "done"
\* loses a handle without setting its flags (app.py 103-108).
SoleWorker == \A w \in Attempts : Alive(w) /\ ~Stopped(w) => w = session_handle

\* No event deque ever gets full, so append never discards an event (app.py
\* 48, 264): one attempt posts fewer events than maxlen, on a deque of its own.
NoEventDropped == \A q \in Queues : Len(events[q]) < EventCap

\* What the screen says comes from the attempt the app controls: the key on
\* the VERIFY screen is the one that attempt's server presented, and a
\* SESSION or EXEC screen with a handle belongs to a thread that got that far
\* (app.py 211-237 sets the state from whatever event is in the deque).
ScreenMatchesAttempt ==
    /\ state = "VERIFY" => /\ session_handle # NoHandle
                           /\ pending_fp = fp[session_handle]
                           /\ pending_fp # NoFp
    /\ state \in {"SESSION", "EXEC"} /\ session_handle # NoHandle =>
           pc[session_handle] \in {"spawn", "loop", "close_done", "dead", "crashed"}

\* An app that shows CONNECTING or VERIFY waits for something that can still
\* answer: the WiFi poll, a live thread, or an event that ends the attempt
\* and is still in the deque (worker.py 93-174: every return posts one).
Answer(q) == \E i \in 1..Len(events[q]) :
                 events[q][i].kind \in {"session", "banner", "exec", "error"}
WaitingHasCause ==
    state \in {"CONNECTING", "VERIFY"} /\ phase # "raised" =>
        \/ wifi_pending
        \/ /\ session_handle # NoHandle
           /\ Alive(session_handle) \/ Answer(event_queue)

\* A thread that has ended has closed the ssh session it opened, except when
\* the reader thread could not be created (worker.py 117-136).
SessionsClosed ==
    \A w \in Attempts : sess_open[w] => Alive(w) \/ pc[w] = "crashed"

\* Trust on first use, for any interleaving of stale and current attempts.
TrustSpec == INSTANCE HostTrust WITH
    known    <- known_hosts,
    hostkey  <- fp,
    approved <- {w \in Attempts : approved[w] # NoFp /\ approved[w] = fp[w]},
    open     <- {w \in Attempts : pc[w] \in {"shell", "spawn", "loop", "close_done"}}

\* The shell of an attempt is only reached, and a key only recorded, as
\* HostTrust allows (worker.py 28-41, app.py 375-378).
HostKeysChecked == TrustSpec!Spec

-----------------------------------------------------------------------------
(* Liveness, under FairSpec.                                               *)

Blocked(h) == h # NoHandle /\ InNative(h)

\* The app does not stay in CONNECTING or VERIFY, even if the user presses
\* nothing, unless its thread is inside a call that waits for the server
\* (worker.py 38-39 and wifi.py 157-160 bound the two other waits).
AttemptSettles ==
    []<>(state \in {"CONNECTING", "VERIFY"} /\ phase # "raised" => Blocked(session_handle))

\* A thread that was told to stop ends, or is inside such a call
\* (worker.py 34, 66 read the flags).
StoppedThreadEnds ==
    \A w \in Attempts : []<>(Alive(w) /\ Stopped(w) => Blocked(w))

\* A PTY session screen that a cancelled thread put up goes away by itself,
\* through "done" or an error (app.py 240-244), unless that thread is blocked.
StaleSessionLeaves ==
    firmware = "pty" =>
        []<>(state = "SESSION" /\ session_handle = NoHandle /\ foreground
                => \E w \in Attempts : Blocked(w))

-----------------------------------------------------------------------------
(* What the repository says and the code does not do.                      *)

\* app.py 261: the deques are replaced "after worker stop".  At that moment
\* no thread of an earlier attempt is left.
DequesReplacedAfterStop ==
    [][gen' # gen => \A w \in Attempts : ~Alive(w)]_vars

\* app.py 172 and 315: F5 cancels.  Once the app is back in the menu, only a
\* key or the launcher takes it elsewhere.
CancelIsFinal == [][state = "MENU" /\ ProcessEvent => state' = "MENU"]_vars

\* worker.py 132-133 announces a session: a shell is open on it.
SessionHasShell ==
    firmware = "pty" /\ state = "SESSION" /\ session_handle # NoHandle
        => shell[session_handle] = "started"

=============================================================================
