------------------------------ MODULE WiFiSta -------------------------------
(***************************************************************************)
(* hardware/wifi.py, the singleton that joins a WiFi network for the app,  *)
(* with the app as its only caller (app.py 104, 272, 295-307) and the      *)
(* radio behind network.WLAN as its environment.  A connect is begun, then *)
(* polled once a frame until it is answered or cancelled; a failure is     *)
(* retried once after a reset of the station.  The blocking connect() is   *)
(* not called by the app.                                                  *)
(***************************************************************************)
EXTENDS Naturals

CONSTANTS Ssids, NoSsid

ASSUME SsidAssumption == NoSsid \notin Ssids

MaybeSsid == Ssids \cup {NoSsid}

MaxAttempts == 2

\* What _last_error says: nothing, the failing status of the radio, the
\* deadline, or the OSError of wlan.connect.
Errors == {"none", "no_network", "status", "timeout", "internal", "other"}

Statuses == {"idle", "connecting", "fail", "got_ip"}

VARIABLES
    network,    \* whether the firmware has the network module
    connecting, \* _connecting
    attempt,    \* _attempt
    ssid,       \* _ssid
    last_error, \* _last_error
    expired,    \* the clock has passed _deadline
    link,       \* radio: the network it is on
    target,     \* radio: the network it was told to join
    status,     \* radio: WLAN.status()
    pending,    \* app: _wifi_pending
    raised,     \* an OSError left the helper, and the app with it
    answer,     \* history: the answer to the last connect that was begun
    reason,     \* history: the detail that came with it
    beat,       \* history: flips when a poll answers running
    stray,      \* history: another network was up or being joined at begin
    was_up      \* history: the right network was up at begin

helper  == <<connecting, attempt, ssid, last_error, expired>>
radio   == <<link, target, status>>
request == <<ssid, expired, stray, was_up>>
vars == <<network, helper, radio, pending, raised, answer, reason, beat, stray, was_up>>

HelperTypeOK ==
    /\ connecting \in BOOLEAN /\ expired \in BOOLEAN
    /\ attempt \in 0..MaxAttempts
    /\ ssid \in MaybeSsid
    /\ last_error \in Errors

RadioTypeOK ==
    /\ network \in BOOLEAN
    /\ link \in MaybeSsid /\ target \in MaybeSsid
    /\ status \in Statuses

AppTypeOK ==
    /\ pending \in BOOLEAN /\ raised \in BOOLEAN
    /\ answer \in {"none", "ok", "fail"} /\ reason \in Errors
    /\ beat \in BOOLEAN /\ stray \in BOOLEAN /\ was_up \in BOOLEAN

TypeOK == HelperTypeOK /\ RadioTypeOK /\ AppTypeOK

\* The radio may be on a network, or joining one, from before the app started.
Init ==
    /\ network \in BOOLEAN
    /\ connecting = FALSE /\ attempt = 0 /\ ssid = NoSsid /\ last_error = "none" /\ expired = FALSE
    /\ target \in IF network THEN MaybeSsid ELSE {NoSsid}
    /\ link \in {target, NoSsid}
    /\ status = IF link # NoSsid THEN "got_ip" ELSE "idle"
    /\ pending = FALSE /\ raised = FALSE
    /\ answer = "none" /\ reason = "none" /\ beat = FALSE /\ stray = FALSE /\ was_up = FALSE

-----------------------------------------------------------------------------
(* _issue_connect.  Its recursion is at most one call deep.                *)

\* Mutant: the second attempt does not reset the station first.
Joins_NoReset(s, n, err) ==
    /\ attempt' = n /\ connecting' = TRUE /\ last_error' = err
    /\ target' = s
    /\ link' \in {link, NoSsid}
    /\ status' \in {"connecting", status}
    /\ UNCHANGED raised

\* wlan.connect returns.  An earlier network stays up on a first attempt, or
\* is dropped; WLAN.status may still be the one from before.
Joins(s, n, err) ==
    /\ attempt' = n /\ connecting' = TRUE /\ last_error' = err
    /\ target' = s
    /\ link' \in IF n = 1 THEN {link, NoSsid} ELSE {NoSsid}
    /\ status' \in {"connecting", status}
    /\ UNCHANGED raised

\* Mutant: the status of the radio is kept instead of the message.
Refused_Status(n, err) ==
    /\ attempt' = n /\ connecting' = FALSE /\ last_error' = status
    /\ IF n = 1 THEN UNCHANGED radio
       ELSE link' = NoSsid /\ target' = NoSsid /\ status' \in {"idle", status}
    /\ UNCHANGED raised

\* Mutant: the message is not kept.
Refused_Silent(n, err) ==
    /\ attempt' = n /\ connecting' = FALSE /\ last_error' = "none"
    /\ IF n = 1 THEN UNCHANGED radio
       ELSE link' = NoSsid /\ target' = NoSsid /\ status' \in {"idle", status}
    /\ UNCHANGED raised

\* wlan.connect raises; the radio goes on with what it was told before, unless
\* it was reset.
Refused(n, err) ==
    /\ attempt' = n /\ connecting' = FALSE /\ last_error' = err
    /\ IF n = 1 THEN UNCHANGED radio
       ELSE link' = NoSsid /\ target' = NoSsid /\ status' \in {"idle", status}
    /\ UNCHANGED raised

\* _reset_sta cannot activate the station again: the error leaves the helper.
ResetRaises(err) ==
    /\ attempt' = 2 /\ connecting' = TRUE /\ last_error' = err
    /\ link' = NoSsid /\ target' = NoSsid /\ status' = "idle"
    /\ raised' = TRUE

\* The second attempt, on a station that was reset.
Second(s, err) ==
    \/ Joins(s, 2, err)
    \/ \E e \in {"internal", "other"} : Refused(2, e)
    \/ ResetRaises(err)

First(s) ==
    \/ Joins(s, 1, "none")
    \/ Refused(1, "other")
    \/ Second(s, "internal")

-----------------------------------------------------------------------------
(* begin_connect, from _start_connect; StopWorker has just cancelled.      *)

Begun(s) ==
    /\ ~pending /\ ~raised
    /\ pending' = TRUE /\ answer' = "none" /\ reason' = "none" /\ UNCHANGED beat

Request(s) ==
    /\ ssid' = s /\ expired' = FALSE
    /\ stray' = (link \notin {NoSsid, s} \/ target \notin {NoSsid, s})
    /\ was_up' = (link = s)

BeginNoNetwork(s) ==
    /\ ~network /\ Begun(s)
    /\ last_error' = "no_network" /\ connecting' = FALSE
    /\ UNCHANGED <<network, attempt, radio, raised, request>>

\* wlan.active(True) raises out of begin_connect.
BeginRaises(s) ==
    /\ network /\ Begun(s) /\ Request(s)
    /\ connecting' = TRUE /\ attempt' = 0 /\ last_error' = "none"
    /\ raised' = TRUE
    /\ UNCHANGED <<network, radio>>

BeginUp(s) ==
    /\ network /\ link = s /\ Begun(s) /\ Request(s)
    /\ connecting' = FALSE /\ attempt' = 0 /\ last_error' = "none"
    /\ UNCHANGED <<network, radio, raised>>

\* Also when the network is up but WLAN.config("ssid") raises.
BeginIssues(s) ==
    /\ network /\ Begun(s) /\ Request(s)
    /\ First(s)
    /\ UNCHANGED network

begin_connect ==
    \E s \in Ssids : BeginNoNetwork(s) \/ BeginRaises(s) \/ BeginUp(s) \/ BeginIssues(s)

-----------------------------------------------------------------------------
(* poll_connect, and _poll_wifi of the app, which waits no longer after an *)
(* answer; "idle" is a failure to it.                                      *)

Polling == pending /\ ~raised

Answered(a, why) ==
    /\ pending' = FALSE /\ answer' = a /\ reason' = why
    /\ UNCHANGED <<network, radio, raised, attempt, beat, request>>

PollNotConnecting ==
    /\ Polling /\ ~connecting
    /\ IF link # NoSsid THEN Answered("ok", "none") ELSE Answered("fail", last_error)
    /\ UNCHANGED <<connecting, last_error>>

PollOk ==
    /\ Polling /\ connecting /\ link # NoSsid
    /\ connecting' = FALSE /\ last_error' = "none"
    /\ Answered("ok", "none")

Waiting == Polling /\ connecting /\ link = NoSsid

\* Mutant: the number of attempts is not looked at.
PollRetry_NoLimit ==
    /\ Waiting /\ status = "fail"
    /\ Second(ssid, "status")
    /\ beat' = IF raised' THEN beat ELSE ~beat
    /\ UNCHANGED <<network, pending, answer, reason, request>>

PollRetry ==
    /\ Waiting /\ status = "fail" /\ attempt < MaxAttempts
    /\ Second(ssid, "status")
    /\ beat' = IF raised' THEN beat ELSE ~beat
    /\ UNCHANGED <<network, pending, answer, reason, request>>

PollStatusFail ==
    /\ Waiting /\ status = "fail" /\ attempt = MaxAttempts
    /\ connecting' = FALSE /\ last_error' = "status"
    /\ Answered("fail", "status")

\* Mutant: the deadline counts for the second attempt only.
PollTimeout_LastTry ==
    /\ Waiting /\ status # "fail" /\ expired /\ attempt = MaxAttempts
    /\ connecting' = FALSE /\ last_error' = "timeout"
    /\ Answered("fail", "timeout")

PollTimeout ==
    /\ Waiting /\ status # "fail" /\ expired
    /\ connecting' = FALSE /\ last_error' = "timeout"
    /\ Answered("fail", "timeout")

PollRunning ==
    /\ Waiting /\ status # "fail" /\ ~expired
    /\ beat' = ~beat
    /\ UNCHANGED <<network, helper, radio, pending, raised, answer, reason, stray, was_up>>

poll_connect == PollRunning \/ PollNotConnecting \/ PollOk \/ PollRetry \/ PollStatusFail \/ PollTimeout

\* F5: _stop_worker, which calls cancel_connect.
Cancel ==
    /\ Polling
    /\ pending' = FALSE /\ connecting' = FALSE
    /\ UNCHANGED <<network, attempt, last_error, radio, raised, answer, reason, beat, request>>

-----------------------------------------------------------------------------
(* The radio and the clock.                                                *)

RadioStep(l, t, s) ==
    /\ link' = l /\ target' = t /\ status' = s
    /\ UNCHANGED <<network, helper, pending, raised, answer, reason, beat, stray, was_up>>

Joined == target # NoSsid /\ link # target /\ RadioStep(target, target, "got_ip")

JoinFails ==
    /\ target # NoSsid /\ link = NoSsid
    /\ \E t \in {target, NoSsid} : RadioStep(NoSsid, t, "fail")

LinkLost ==
    /\ link # NoSsid
    /\ \E s \in {"idle", "connecting", "fail"} : RadioStep(NoSsid, target, s)

Deadline ==
    /\ connecting /\ ~expired
    /\ expired' = TRUE
    /\ UNCHANGED <<network, connecting, attempt, ssid, last_error, radio, pending, raised,
                   answer, reason, beat, stray, was_up>>

Radio == Joined \/ JoinFails \/ LinkLost

Next == begin_connect \/ poll_connect \/ Cancel \/ Radio \/ Deadline

Spec == Init /\ [][Next]_vars

\* The UI loop polls every frame and the clock runs.
FairSpec == Spec /\ WF_vars(poll_connect) /\ WF_vars(Deadline)

-----------------------------------------------------------------------------
(* What a connect promises.                                                *)

\* poll_connect says ok without comparing the network (wifi.py 134, 143).  It is
\* the one that was asked for all the same, unless another one was up or being
\* joined at begin; and always after a retry, which resets the station.
OkIsOwn ==
    [][answer' = "ok" /\ answer # "ok" => link = ssid \/ (stray /\ attempt < 2)]_vars

\* A connect that failed can tell why, through whichever of the four ways a
\* failure is noticed (wifi.py 124, 141, 150, 158), but for one case: the network
\* was up at begin and lost before the first poll.
FailHasReason == answer = "fail" /\ ~was_up => reason # "none"

\* The moment from which on no poll answers running: the deadline has passed
\* and there is no retry left.
Outcome == INSTANCE WifiOutcome
    WITH settled <- pending /\ expired /\ (attempt = MaxAttempts \/ ~connecting)

\* A connect is answered once, and after the deadline a poll answers running
\* at most once more, when it retries (wifi.py 148-162): what SshApp assumes.
AnswersOnce == Outcome!Spec

\* A connect comes to an end however the radio behaves (wifi.py 143-162), unless
\* an OSError takes the app down.
ConnectEnds == pending ~> (~pending \/ raised)

=============================================================================
