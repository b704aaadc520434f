------------------------------- MODULE SshApp -------------------------------
(***************************************************************************)
(* badge/apps/ssh/app.py: SSHClientApp as the badge's scheduler runs it.   *)
(* run_foreground is split where a worker thread can overtake it: every    *)
(* popleft of _process_events is a step (phase "events"), finding the      *)
(* deque empty is a step, and the key branch that follows is a step (phase *)
(* "keys").  Keys are the user's choice.  Editing, the terminal and the    *)
(* tx/rx deques are other components and leave no trace here.              *)
(***************************************************************************)
EXTENDS SshWorker

NoHandle == 0

States == {"MENU", "WIFI", "EDIT", "CONNECTING", "VERIFY", "SESSION", "EXEC", "ERROR"}

\* "raised": an exception left run_foreground; what its caller does then is
\* not in the repository, so the app takes no further step.
Phases == {"events", "keys", "raised"}

VARIABLES
    state,
    phase,              \* position in run_foreground
    foreground,         \* whether the scheduler calls run_foreground
    session_handle,     \* the attempt whose handle the app holds, or NoHandle
    wifi_pending,       \* _wifi_pending
    ssh_worker_started, \* _ssh_worker_started
    pending_fp,         \* _pending_fp, the key on the VERIFY screen
    event_queue,        \* which deque self.event_queue is
    gen,                \* number of connections started so far
    wifi_expired,       \* no poll of the pending connect answers running any
                        \* more: its deadline has passed, its retry is used
                        \* (settled of WifiOutcome, which WiFiSta implements)
    approved            \* history: the key on the screen when F1 trusted the attempt

appVars == <<state, phase, foreground, session_handle, wifi_pending, ssh_worker_started,
             pending_fp, event_queue, gen, wifi_expired, approved>>

vars == <<workerVars, appVars>>

AppTypeOK ==
    /\ state \in States
    /\ phase \in Phases
    /\ foreground \in BOOLEAN
    /\ session_handle \in Attempts \cup {NoHandle}
    /\ wifi_pending \in BOOLEAN
    /\ ssh_worker_started \in BOOLEAN
    /\ pending_fp \in MaybeFp
    /\ event_queue \in Queues
    /\ gen \in 0..MaxAttempts
    /\ wifi_expired \in BOOLEAN
    /\ approved \in [Attempts -> MaybeFp]

AppInit ==
    /\ state = "MENU"
    /\ phase = "events"
    /\ foreground = TRUE
    /\ session_handle = NoHandle
    /\ wifi_pending = FALSE
    /\ ssh_worker_started = FALSE
    /\ pending_fp = NoFp
    /\ event_queue = 0
    /\ gen = 0
    /\ wifi_expired = FALSE
    /\ approved = [w \in Attempts |-> NoFp]

\* What a step of the app leaves alone unless it says otherwise.
appKeeps    == <<foreground, pending_fp, event_queue, gen, approved>>
threadKeeps == <<firmware, known_hosts, threadVars>>

-----------------------------------------------------------------------------
(* Helpers called by the handlers below.                                   *)

\* Mutant: the handle is cleared before it is used.
StopWorker_ClearFirst ==
    /\ stop_session(NoHandle)
    /\ session_handle' = NoHandle
    /\ wifi_pending' = FALSE
    /\ wifi_expired' = FALSE
    /\ ssh_worker_started' = FALSE
    /\ UNCHANGED trusted

StopWorker ==
    /\ stop_session(session_handle)
    /\ session_handle' = NoHandle
    /\ wifi_pending' = FALSE
    /\ wifi_expired' = FALSE
    /\ ssh_worker_started' = FALSE
    /\ UNCHANGED trusted

KeepWorker == UNCHANGED <<handleVars, session_handle, wifi_pending, wifi_expired,
                          ssh_worker_started>>

ShowError == state' = "ERROR" /\ StopWorker

ToMenu == state' = "MENU" /\ StopWorker

-----------------------------------------------------------------------------
(* _process_events, one popleft and its handler at a time.                 *)

Running(p) == foreground /\ phase = p

\* The next event is of one of the kinds ks; it is taken off the deque.
Take(ks) ==
    /\ Running("events")
    /\ events[event_queue] # <<>>
    /\ Head(events[event_queue]).kind \in ks
    /\ events' = [events EXCEPT ![event_queue] = Tail(@)]
    /\ UNCHANGED <<threadKeeps, phase>>

OnProgress == Take({"progress"}) /\ KeepWorker /\ UNCHANGED <<state, appKeeps>>

\* Mutant: kind and payload swapped.
OnFingerprint_Swapped ==
    /\ Take({"fingerprint"})
    /\ pending_fp' = Head(events[event_queue]).kind
    /\ state' = IF state = "CONNECTING" THEN "VERIFY" ELSE state
    /\ KeepWorker
    /\ UNCHANGED <<foreground, event_queue, gen, approved>>

OnFingerprint ==
    /\ Take({"fingerprint"})
    /\ pending_fp' = Head(events[event_queue]).fp
    /\ state' = IF state = "CONNECTING" THEN "VERIFY" ELSE state
    /\ KeepWorker
    /\ UNCHANGED <<foreground, event_queue, gen, approved>>

OnSession ==
    /\ Take({"session", "banner"})
    /\ state' = "SESSION"
    /\ KeepWorker
    /\ UNCHANGED appKeeps

OnExec == Take({"exec"}) /\ state' = "EXEC" /\ KeepWorker /\ UNCHANGED appKeeps

OnError == Take({"error"}) /\ ShowError /\ UNCHANGED appKeeps

\* Mutant: "done" only ends the session of a handle the app still holds.
OnDone_OwnOnly ==
    /\ Take({"done"})
    /\ StopWorker
    /\ state' = IF state = "SESSION" /\ session_handle # NoHandle THEN "MENU" ELSE state
    /\ UNCHANGED appKeeps

OnDone ==
    /\ Take({"done"})
    /\ StopWorker
    /\ state' = IF state = "SESSION" THEN "MENU" ELSE state
    /\ UNCHANGED appKeeps

\* while self.event_queue: no event is left, go on to the keys.
EventsDone ==
    /\ Running("events")
    /\ events[event_queue] = <<>>
    /\ phase' = "keys"
    /\ KeepWorker
    /\ UNCHANGED <<events, threadKeeps, state, appKeeps>>

-----------------------------------------------------------------------------
(* The key branches.  Each ends the frame.                                 *)

Frame == Running("keys") /\ phase' = "events" /\ UNCHANGED threadKeeps

\* The branch for F5 at the top of run_foreground.
KeyCancel ==
    /\ Frame
    /\ state \in {"SESSION", "EXEC", "VERIFY", "CONNECTING"}
    /\ ToMenu
    /\ UNCHANGED <<events, appKeeps>>

KeyBack ==
    /\ Frame
    /\ state = "ERROR"
    /\ state' = "MENU"
    /\ KeepWorker
    /\ UNCHANGED <<events, appKeeps>>

KeyHome ==
    /\ Frame
    /\ state \in {"MENU", "WIFI", "EDIT"}
    /\ StopWorker
    /\ foreground' = FALSE
    /\ UNCHANGED <<events, state, pending_fp, event_queue, gen, approved>>

\* The launcher calls switch_to_foreground.
SwitchToForeground ==
    /\ ~foreground
    /\ foreground' = TRUE
    /\ state' = "MENU"
    /\ KeepWorker
    /\ UNCHANGED <<events, threadKeeps, phase, pending_fp, event_queue, gen, approved>>

\* F1 in MENU with a configuration that _start_connect refuses.
ConnectRefused ==
    /\ Frame
    /\ state = "MENU"
    /\ ShowError
    /\ UNCHANGED <<events, appKeeps>>

\* Mutant: the deques of the last attempt are kept.
StartConnect_OldDeques ==
    /\ Running("keys")
    /\ phase' \in {"events", "raised"}
    /\ state = "MENU"
    /\ gen < MaxAttempts
    /\ gen' = gen + 1
    /\ stop_session(session_handle)
    /\ session_handle' = NoHandle
    /\ state' = "CONNECTING"
    /\ wifi_pending' = TRUE
    /\ wifi_expired' = FALSE
    /\ ssh_worker_started' = FALSE
    /\ UNCHANGED <<threadKeeps, trusted, events, event_queue, foreground, pending_fp, approved>>

\* F1 in MENU: fresh deques, and WiFi first.  The last call, begin_connect,
\* raises when the station cannot be activated.
StartConnect ==
    /\ Running("keys")
    /\ phase' \in {"events", "raised"}
    /\ state = "MENU"
    /\ gen < MaxAttempts
    /\ gen' = gen + 1
    /\ stop_session(session_handle)
    /\ session_handle' = NoHandle
    /\ event_queue' = gen + 1
    /\ state' = "CONNECTING"
    /\ wifi_pending' = TRUE
    /\ wifi_expired' = FALSE
    /\ ssh_worker_started' = FALSE
    /\ UNCHANGED <<threadKeeps, trusted, events, foreground, pending_fp, approved>>

\* F2 and F3.
KeyEdit ==
    /\ Frame
    /\ state = "MENU"
    /\ state' \in {"WIFI", "EDIT"}
    /\ KeepWorker
    /\ UNCHANGED <<events, appKeeps>>

\* _wifi_edit_run and _field_edit_run leave the editor.
EditDone ==
    /\ Frame
    /\ state \in {"WIFI", "EDIT"}
    /\ state' = "MENU"
    /\ KeepWorker
    /\ UNCHANGED <<events, appKeeps>>

\* F1 in VERIFY sets handle.trusted.
Trust ==
    /\ state = "VERIFY"
    /\ session_handle # NoHandle
    /\ trusted' = [trusted EXCEPT ![session_handle] = TRUE]
    /\ approved' = [approved EXCEPT ![session_handle] = pending_fp]

KeyTrust ==
    /\ Frame
    /\ Trust
    /\ state' = "CONNECTING"
    /\ UNCHANGED <<events, running, stop_flag, session_handle, wifi_pending,
                   ssh_worker_started, foreground, pending_fp, event_queue, gen,
                   wifi_expired>>

\* F1, then F5 seen by the second if of the VERIFY branch.
KeyTrustThenCancel ==
    /\ Frame
    /\ Trust
    /\ stop_session(session_handle)
    /\ session_handle' = NoHandle
    /\ wifi_pending' = FALSE
    /\ wifi_expired' = FALSE
    /\ ssh_worker_started' = FALSE
    /\ state' = "MENU"
    /\ UNCHANGED <<events, foreground, pending_fp, event_queue, gen>>

\* No key that this module knows: F4, typing, or none at all.
NoKey ==
    /\ Frame
    /\ ~(state = "CONNECTING" /\ wifi_pending)
    /\ KeepWorker
    /\ UNCHANGED <<events, state, appKeeps>>

-----------------------------------------------------------------------------
(* _poll_wifi in state CONNECTING, and _start_ssh_worker.                  *)

Polling == Running("keys") /\ state = "CONNECTING" /\ wifi_pending

WifiTimeout ==
    /\ wifi_pending /\ ~wifi_expired
    /\ wifi_expired' = TRUE
    /\ UNCHANGED <<workerVars, state, phase, foreground, session_handle, wifi_pending,
                   ssh_worker_started, pending_fp, event_queue, gen, approved>>

PollRunning ==
    /\ Polling
    /\ ~wifi_expired
    /\ phase' = "events"
    /\ KeepWorker
    /\ UNCHANGED <<events, threadKeeps, state, appKeeps>>

\* "fail", or "idle" after wlan.connect raised.
PollFail ==
    /\ Polling
    /\ phase' = "events"
    /\ ShowError
    /\ UNCHANGED <<events, threadKeeps, appKeeps>>

\* "ok" and the thread runs.
PollOk ==
    /\ Polling
    /\ ~ssh_worker_started
    /\ firmware # "nothread"
    /\ phase' = "events"
    /\ wifi_pending' = FALSE
    /\ wifi_expired' = FALSE
    /\ ssh_worker_started' = TRUE
    /\ session_handle' = gen
    /\ start_session(gen, event_queue)
    /\ UNCHANGED <<state, appKeeps>>

\* "ok" without _thread: start_session reports an error and returns None.
PollNoThread ==
    /\ Polling
    /\ ~ssh_worker_started
    /\ firmware = "nothread"
    /\ phase' = "events"
    /\ events' = [events EXCEPT ![event_queue] = PushAll(@, <<Ev("error")>>, EventCap)]
    /\ ShowError
    /\ UNCHANGED <<threadKeeps, appKeeps>>

\* "ok" and start_new_thread raises OSError out of run_foreground.
PollRaises ==
    /\ Polling
    /\ ~ssh_worker_started
    /\ firmware # "nothread"
    /\ phase' = "raised"
    /\ wifi_pending' = FALSE
    /\ wifi_expired' = FALSE
    /\ ssh_worker_started' = TRUE
    /\ UNCHANGED <<events, threadKeeps, handleVars, session_handle, state, appKeeps>>

\* poll_connect raises: a retry cannot activate the station.
PollConnectRaises ==
    /\ Polling
    /\ phase' = "raised"
    /\ KeepWorker
    /\ UNCHANGED <<events, threadKeeps, state, appKeeps>>

-----------------------------------------------------------------------------
ProcessEvent == \/ OnProgress \/ OnFingerprint \/ OnSession
                \/ OnExec \/ OnError \/ OnDone

UserKey == \/ KeyCancel \/ KeyBack \/ KeyHome \/ ConnectRefused \/ StartConnect
           \/ KeyEdit \/ EditDone \/ KeyTrust \/ KeyTrustThenCancel

PollWifi == \/ PollRunning \/ PollFail \/ PollOk \/ PollNoThread \/ PollRaises
            \/ PollConnectRaises

run_foreground == ProcessEvent \/ EventsDone \/ UserKey \/ NoKey \/ PollWifi

=============================================================================
