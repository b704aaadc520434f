--------------------------- MODULE WiFiStaProofs ----------------------------
(* Theorems about WiFiSta, for every set of networks.                      *)
EXTENDS WiFiSta, TLAPS

-----------------------------------------------------------------------------
(* The inductive invariant.                                                *)

\* Whatever stopped a connect before a poll saw it is kept for the poll.
ReasonKept ==
    /\ pending /\ ~connecting => last_error # "none" \/ was_up
    /\ answer = "fail" /\ ~was_up => reason # "none"

\* The radio has nothing to do with any network but the one asked for, unless
\* it had at begin and was not reset since.
OwnNetwork ==
    /\ ~network => ~connecting /\ link = NoSsid /\ target = NoSsid
    /\ pending /\ network => link \in {NoSsid, ssid} \/ (stray /\ attempt < 2)
    /\ pending /\ network => target \in {NoSsid, ssid} \/ (stray /\ attempt < 2)

IndInv == TypeOK /\ ReasonKept /\ OwnNetwork

USE SsidAssumption DEF MaxAttempts

LEMMA Members ==
    /\ NoSsid \in MaybeSsid /\ \A s \in Ssids : s \in MaybeSsid /\ s # NoSsid
    /\ "none" \in Errors /\ "no_network" \in Errors /\ "status" \in Errors
    /\ "timeout" \in Errors /\ "internal" \in Errors /\ "other" \in Errors
    /\ "idle" \in Statuses /\ "connecting" \in Statuses /\ "fail" \in Statuses
    /\ "got_ip" \in Statuses
  BY DEF MaybeSsid, Errors, Statuses

LEMMA InitInv == Init => IndInv
  <1> SUFFICES ASSUME Init PROVE IndInv
    OBVIOUS
  <1>1. HelperTypeOK
    <2>1. connecting \in BOOLEAN /\ expired \in BOOLEAN /\ attempt = 0
      BY DEF Init
    <2>2. ssid \in MaybeSsid /\ last_error \in Errors
      BY Members DEF Init
    <2> QED BY <2>1, <2>2 DEF HelperTypeOK
  <1>2. RadioTypeOK
    <2>1. target \in MaybeSsid
      BY Members DEF Init
    <2>2. link \in MaybeSsid
      BY <2>1, Members DEF Init
    <2>3. status \in Statuses
      BY Members DEF Init
    <2> QED BY <2>1, <2>2, <2>3 DEF Init, RadioTypeOK
  <1>3. AppTypeOK
    BY Members DEF Init, AppTypeOK
  <1>4. ReasonKept
    BY DEF Init, ReasonKept
  <1>5. OwnNetwork
    BY DEF Init, OwnNetwork
  <1> QED BY <1>1, <1>2, <1>3, <1>4, <1>5 DEF IndInv, TypeOK

-----------------------------------------------------------------------------
(* Every step preserves it.                                                *)

\* Where an attempt leaves the helper and the radio: a failure is noted, and
\* only a first attempt leaves the radio on another network than s.
Issued(s) ==
    /\ HelperTypeOK' /\ RadioTypeOK' /\ raised' \in BOOLEAN
    /\ connecting' \/ last_error' # "none"
    /\ link' \in {NoSsid, s} \/ (link' = link /\ attempt' < 2)
    /\ target' \in {NoSsid, s} \/ (target' = target /\ attempt' < 2)

LEMMA JoinsIssued ==
    ASSUME IndInv, NEW s \in MaybeSsid, NEW n \in 1..2, NEW err \in Errors, Joins(s, n, err),
           ssid' \in MaybeSsid, expired' \in BOOLEAN, UNCHANGED network
    PROVE  Issued(s)
  <1>1. HelperTypeOK'
    BY DEF Joins, HelperTypeOK
  <1>2. RadioTypeOK'
    BY Members DEF Joins, IndInv, TypeOK, RadioTypeOK
  <1>3. link' \in {NoSsid, s} \/ (link' = link /\ attempt' < 2)
    BY DEF Joins
  <1> QED BY <1>1, <1>2, <1>3 DEF Issued, Joins, IndInv, TypeOK, AppTypeOK

LEMMA RefusedIssued ==
    ASSUME IndInv, NEW s \in MaybeSsid, NEW n \in 1..2, NEW err \in Errors \ {"none"},
           Refused(n, err), ssid' \in MaybeSsid, expired' \in BOOLEAN, UNCHANGED network
    PROVE  Issued(s)
  <1>1. HelperTypeOK'
    <2>1. attempt' = n /\ connecting' \in BOOLEAN /\ last_error' = err
      BY DEF Refused
    <2> QED BY <2>1 DEF HelperTypeOK
  <1>2. RadioTypeOK'
    BY Members DEF Refused, radio, IndInv, TypeOK, RadioTypeOK
  <1>3. /\ link' = NoSsid \/ (link' = link /\ attempt' < 2)
        /\ target' = NoSsid \/ (target' = target /\ attempt' < 2)
    BY DEF Refused, radio
  <1>4. raised' \in BOOLEAN /\ last_error' # "none"
    BY DEF Refused, IndInv, TypeOK, AppTypeOK
  <1> QED BY <1>1, <1>2, <1>3, <1>4 DEF Issued

LEMMA SecondIssued ==
    ASSUME IndInv, NEW s \in MaybeSsid, NEW err \in Errors, Second(s, err),
           ssid' \in MaybeSsid, expired' \in BOOLEAN, UNCHANGED network
    PROVE  Issued(s) /\ attempt' = 2
  <1>1. CASE Joins(s, 2, err)
    BY <1>1, JoinsIssued DEF Joins
  <1>2. ASSUME NEW e \in {"internal", "other"}, Refused(2, e)
        PROVE  Issued(s) /\ attempt' = 2
    <2>1. e \in Errors \ {"none"}
      BY DEF Errors
    <2>2. attempt' = 2
      BY <1>2 DEF Refused
    <2> QED BY <1>2, <2>1, <2>2, RefusedIssued
  <1>3. CASE ResetRaises(err)
    <2>1. attempt' = 2 /\ connecting' /\ connecting' \in BOOLEAN /\ raised' \in BOOLEAN
      BY <1>3 DEF ResetRaises
    <2>2. last_error' \in Errors
      BY <1>3 DEF ResetRaises
    <2>3. HelperTypeOK'
      BY <2>1, <2>2 DEF HelperTypeOK
    <2>4. RadioTypeOK' /\ link' = NoSsid /\ target' = NoSsid
      BY <1>3, Members DEF ResetRaises, IndInv, TypeOK, RadioTypeOK
    <2> QED BY <2>1, <2>3, <2>4 DEF Issued
  <1> QED BY <1>1, <1>2, <1>3 DEF Second

LEMMA BegunInv ==
    ASSUME IndInv, NEW s \in Ssids, network, Begun(s), Request(s), UNCHANGED network,
           HelperTypeOK', RadioTypeOK', raised' \in BOOLEAN,
           connecting' \/ last_error' # "none" \/ link = s,
           link' \in {NoSsid, s} \/ (link' = link /\ attempt' < 2),
           target' \in {NoSsid, s} \/ (target' = target /\ attempt' < 2)
    PROVE  IndInv'
  <1>1. /\ ssid' = s /\ stray' \in BOOLEAN /\ was_up' \in BOOLEAN
        /\ link \notin {NoSsid, s} \/ target \notin {NoSsid, s} => stray'
        /\ link = s => was_up'
    BY DEF Request
  <1>2. AppTypeOK'
    BY <1>1, Members DEF Begun, IndInv, TypeOK, AppTypeOK
  <1>3. ReasonKept'
    BY <1>1 DEF Begun, ReasonKept
  <1>4. OwnNetwork'
    BY <1>1 DEF OwnNetwork
  <1> QED BY <1>2, <1>3, <1>4 DEF IndInv, TypeOK

LEMMA BeginInv == ASSUME IndInv, begin_connect PROVE IndInv'
  <1>1. PICK s \in Ssids : BeginNoNetwork(s) \/ BeginRaises(s) \/ BeginUp(s) \/ BeginIssues(s)
    BY DEF begin_connect
  <1>2. CASE BeginNoNetwork(s)
    <2>1. HelperTypeOK' /\ RadioTypeOK'
      BY <1>2, Members DEF BeginNoNetwork, request, radio, IndInv, TypeOK, HelperTypeOK, RadioTypeOK
    <2>2. AppTypeOK'
      BY <1>2, Members DEF BeginNoNetwork, Begun, request, IndInv, TypeOK, AppTypeOK
    <2>3. ReasonKept'
      BY <1>2 DEF BeginNoNetwork, Begun, ReasonKept
    <2>4. OwnNetwork'
      BY <1>2 DEF BeginNoNetwork, radio, IndInv, OwnNetwork
    <2> QED BY <2>1, <2>2, <2>3, <2>4 DEF IndInv, TypeOK
  <1>3. CASE BeginRaises(s)
    <2>1. ssid' = s /\ expired' = FALSE /\ expired' \in BOOLEAN
      BY <1>3 DEF BeginRaises, Request
    <2>2. HelperTypeOK'
      <3>1. connecting' \in BOOLEAN /\ attempt' = 0
        BY <1>3 DEF BeginRaises
      <3>2. ssid' \in MaybeSsid /\ last_error' \in Errors
        BY <1>3, <2>1, Members DEF BeginRaises
      <3> QED BY <2>1, <3>1, <3>2 DEF HelperTypeOK
    <2>3. RadioTypeOK' /\ link' = link /\ target' = target /\ attempt' < 2
      BY <1>3 DEF BeginRaises, radio, IndInv, TypeOK, RadioTypeOK
    <2> QED BY <1>3, <2>2, <2>3, BegunInv DEF BeginRaises
  <1>4. CASE BeginUp(s)
    <2>1. ssid' = s /\ expired' = FALSE /\ expired' \in BOOLEAN
      BY <1>4 DEF BeginUp, Request
    <2>2. HelperTypeOK'
      <3>1. connecting' \in BOOLEAN /\ attempt' = 0
        BY <1>4 DEF BeginUp
      <3>2. ssid' \in MaybeSsid /\ last_error' \in Errors
        BY <1>4, <2>1, Members DEF BeginUp
      <3> QED BY <2>1, <3>1, <3>2 DEF HelperTypeOK
    <2>3. RadioTypeOK' /\ link' = link /\ target' = target /\ attempt' < 2
      BY <1>4 DEF BeginUp, radio, IndInv, TypeOK, RadioTypeOK
    <2>4. raised' \in BOOLEAN
      BY <1>4 DEF BeginUp, IndInv, TypeOK, AppTypeOK
    <2> QED BY <1>4, <2>2, <2>3, <2>4, BegunInv DEF BeginUp
  <1>5. CASE BeginIssues(s)
    <2>1. ssid' = s /\ expired' = FALSE /\ expired' \in BOOLEAN
      BY <1>5 DEF BeginIssues, Request
    <2>2. ssid' \in MaybeSsid /\ expired' \in BOOLEAN /\ UNCHANGED network
      BY <1>5, <2>1, Members DEF BeginIssues
    <2>3. First(s)
      BY <1>5 DEF BeginIssues
    <2>4. Issued(s)
      <3>1. CASE Joins(s, 1, "none")
        BY <2>2, <3>1, JoinsIssued, Members
      <3>2. CASE Refused(1, "other")
        BY <2>2, <3>2, RefusedIssued, Members
      <3>3. CASE Second(s, "internal")
        BY <2>2, <3>3, SecondIssued, Members
      <3> QED BY <2>3, <3>1, <3>2, <3>3 DEF First
    <2> QED BY <1>5, <2>4, BegunInv DEF BeginIssues, Issued
  <1> QED BY <1>1, <1>2, <1>3, <1>4, <1>5

LEMMA AnsweredInv ==
    ASSUME IndInv, NEW a \in {"ok", "fail"}, NEW why \in Errors, Answered(a, why),
           last_error' \in Errors, ~connecting', connecting' \in BOOLEAN,
           a = "fail" /\ ~was_up => why # "none"
    PROVE  IndInv'
  <1>1. HelperTypeOK'
    BY DEF Answered, request, IndInv, TypeOK, HelperTypeOK
  <1>2. RadioTypeOK'
    BY DEF Answered, radio, IndInv, TypeOK, RadioTypeOK
  <1>3. AppTypeOK'
    BY DEF Answered, request, IndInv, TypeOK, AppTypeOK
  <1>4. ReasonKept'
    BY DEF Answered, request, ReasonKept
  <1>5. OwnNetwork'
    BY DEF Answered, radio, IndInv, OwnNetwork
  <1> QED BY <1>1, <1>2, <1>3, <1>4, <1>5 DEF IndInv, TypeOK

LEMMA RetryInv == ASSUME IndInv, PollRetry PROVE IndInv'
  <1>1. /\ UNCHANGED <<network, pending, answer, reason, ssid, expired, stray, was_up>>
        /\ Second(ssid, "status") /\ connecting /\ pending /\ status = "fail"
        /\ target # NoSsid \/ target = NoSsid
    BY DEF PollRetry, Waiting, Polling, request
  <1>2. beat' \in BOOLEAN
    BY DEF PollRetry, IndInv, TypeOK, AppTypeOK
  <1>3. Issued(ssid) /\ attempt' = 2
    BY <1>1, SecondIssued, Members DEF IndInv, TypeOK, HelperTypeOK, RadioTypeOK
  <1>4. AppTypeOK'
    BY <1>1, <1>2, <1>3 DEF Issued, IndInv, TypeOK, AppTypeOK
  <1>5. ReasonKept'
    BY <1>1, <1>3 DEF Issued, IndInv, ReasonKept
  <1>6. OwnNetwork'
    BY <1>1, <1>3 DEF Issued, IndInv, OwnNetwork
  <1> QED BY <1>3, <1>4, <1>5, <1>6 DEF Issued, IndInv, TypeOK

LEMMA PollInv == ASSUME IndInv, poll_connect PROVE IndInv'
  <1>0. last_error \in Errors
    BY DEF IndInv, TypeOK, HelperTypeOK
  <1>1. CASE PollRunning
    <2>1. TypeOK'
      BY <1>1 DEF PollRunning, helper, radio, IndInv, TypeOK, HelperTypeOK, RadioTypeOK, AppTypeOK
    <2>2. ReasonKept' /\ OwnNetwork'
      BY <1>1 DEF PollRunning, helper, radio, IndInv, ReasonKept, OwnNetwork
    <2> QED BY <2>1, <2>2 DEF IndInv
  <1>2. CASE PollNotConnecting
    <2>1. last_error' \in Errors /\ ~connecting' /\ connecting' \in BOOLEAN
      BY <1>0, <1>2 DEF PollNotConnecting, IndInv, TypeOK, HelperTypeOK
    <2>2. CASE link # NoSsid
      BY <1>2, <2>1, <2>2, AnsweredInv, Members DEF PollNotConnecting
    <2>3. CASE link = NoSsid
      BY <1>0, <1>2, <2>1, <2>3, AnsweredInv DEF PollNotConnecting, Polling, IndInv, ReasonKept
    <2> QED BY <2>2, <2>3
  <1>3. CASE PollOk
    BY <1>3, AnsweredInv, Members DEF PollOk
  <1>5. CASE PollStatusFail
    BY <1>5, AnsweredInv, Members DEF PollStatusFail
  <1>6. CASE PollTimeout
    BY <1>6, AnsweredInv, Members DEF PollTimeout
  <1> QED BY <1>1, <1>2, <1>3, <1>5, <1>6, RetryInv DEF poll_connect

LEMMA CancelInv == ASSUME IndInv, Cancel PROVE IndInv'
  <1>1. TypeOK'
    BY DEF Cancel, request, radio, IndInv, TypeOK, HelperTypeOK, RadioTypeOK, AppTypeOK
  <1>2. ReasonKept' /\ OwnNetwork'
    BY DEF Cancel, request, radio, IndInv, ReasonKept, OwnNetwork
  <1> QED BY <1>1, <1>2 DEF IndInv

LEMMA RadioStepInv ==
    ASSUME IndInv, NEW l \in {NoSsid, link, target}, NEW t \in {NoSsid, target},
           NEW s \in Statuses, RadioStep(l, t, s)
    PROVE  IndInv'
  <1>1. TypeOK'
    BY Members DEF RadioStep, helper, IndInv, TypeOK, HelperTypeOK, RadioTypeOK, AppTypeOK
  <1>2. ReasonKept'
    BY DEF RadioStep, helper, IndInv, ReasonKept
  <1>3. OwnNetwork'
    BY DEF RadioStep, helper, IndInv, OwnNetwork
  <1> QED BY <1>1, <1>2, <1>3 DEF IndInv

LEMMA RadioInv == ASSUME IndInv, Radio PROVE IndInv'
  BY RadioStepInv, Members DEF Radio, Joined, JoinFails, LinkLost

LEMMA DeadlineInv == ASSUME IndInv, Deadline PROVE IndInv'
  <1>1. TypeOK'
    BY DEF Deadline, radio, IndInv, TypeOK, HelperTypeOK, RadioTypeOK, AppTypeOK
  <1>2. ReasonKept' /\ OwnNetwork'
    BY DEF Deadline, radio, IndInv, ReasonKept, OwnNetwork
  <1> QED BY <1>1, <1>2 DEF IndInv

LEMMA StepInv == ASSUME IndInv, [Next]_vars PROVE IndInv'
  <1>1. CASE UNCHANGED vars
    <2>1. TypeOK'
      BY <1>1 DEF vars, helper, radio, IndInv, TypeOK, HelperTypeOK, RadioTypeOK, AppTypeOK
    <2>2. ReasonKept' /\ OwnNetwork'
      BY <1>1 DEF vars, helper, radio, IndInv, ReasonKept, OwnNetwork
    <2> QED BY <2>1, <2>2 DEF IndInv
  <1> QED BY <1>1, BeginInv, PollInv, CancelInv, RadioInv, DeadlineInv DEF Next

LEMMA Invariant == Spec => []IndInv
  BY InitInv, StepInv, PTL DEF Spec

-----------------------------------------------------------------------------
(* What follows.                                                           *)

\* Every variable has its type; the retry never goes past the second attempt.
THEOREM Typed == Spec => []TypeOK
  BY Invariant, PTL DEF IndInv

\* A failed connect has a reason to show (FailHasReason).
THEOREM FailuresExplained == Spec => []FailHasReason
  <1>1. IndInv => FailHasReason
    BY DEF IndInv, ReasonKept, FailHasReason
  <1> QED BY <1>1, Invariant, PTL

\* "ok" is the answer for the network that was asked for, unless another one
\* was up or being joined at begin and there was no retry (OkIsOwn).
THEOREM OkForOwnNetwork == Spec => OkIsOwn
  <1>1. ASSUME IndInv, [Next]_vars
        PROVE  [answer' = "ok" /\ answer # "ok" => link = ssid \/ (stray /\ attempt < 2)]_vars
    <2> SUFFICES ASSUME Next, answer' = "ok", answer # "ok"
                 PROVE  link = ssid \/ (stray /\ attempt < 2)
      BY <1>1
    <2>1. CASE begin_connect
      BY <2>1 DEF begin_connect, BeginNoNetwork, BeginRaises, BeginUp, BeginIssues, Begun
    <2>2. CASE poll_connect
      <3>1. pending /\ link # NoSsid
        BY <2>2 DEF poll_connect, PollRunning, PollNotConnecting, PollOk, PollRetry,
                    PollStatusFail, PollTimeout, Answered, Waiting, Polling
      <3> QED BY <1>1, <3>1 DEF IndInv, OwnNetwork, TypeOK
    <2>3. CASE Cancel \/ Radio \/ Deadline
      BY <2>3 DEF Cancel, Radio, Joined, JoinFails, LinkLost, RadioStep, Deadline
    <2> QED BY <2>1, <2>2, <2>3 DEF Next
  <1> QED BY <1>1, Invariant, PTL DEF Spec, OkIsOwn

-----------------------------------------------------------------------------
(* The helper implements WifiOutcome.                                      *)

settled == pending /\ expired /\ (attempt = MaxAttempts \/ ~connecting)

LEMMA Beginning == ASSUME IndInv', begin_connect PROVE Outcome!Begin
  BY DEF begin_connect, BeginNoNetwork, BeginRaises, BeginUp, BeginIssues, Begun, Outcome!Begin,
         IndInv, TypeOK

LEMMA Answering == ASSUME Polling, NEW a \in {"ok", "fail"}, NEW why, Answered(a, why)
                   PROVE  Outcome!Answer
  BY DEF Answered, Polling, Outcome!Answer

LEMMA Retrying == ASSUME IndInv, IndInv', PollRetry PROVE [Outcome!Next]_(Outcome!vars)
  <1>1. pending /\ ~settled /\ pending' /\ UNCHANGED answer
    BY DEF PollRetry, Waiting, Polling, settled, IndInv, TypeOK
  <1>2. CASE ~raised'
    <2>1. beat' = ~beat
      BY <1>2 DEF PollRetry
    <2> QED BY <1>1, <2>1 DEF settled, Outcome!Next, Outcome!Running, IndInv, TypeOK
  <1>3. CASE raised'
    <2>1. beat' = beat
      BY <1>3 DEF PollRetry
    <2>2. attempt' = MaxAttempts /\ UNCHANGED expired
      BY <1>3 DEF PollRetry, Second, Joins, Refused, ResetRaises, request
    <2>3. settled' = FALSE \/ settled' = TRUE
      BY DEF settled, IndInv, TypeOK, HelperTypeOK, AppTypeOK
    <2>4. settled = FALSE
      BY <1>1 DEF settled
    <2> QED BY <1>1, <2>1, <2>3, <2>4 DEF settled, Outcome!Next, Outcome!Settle, Outcome!vars
  <1> QED BY <1>2, <1>3

LEMMA Polled == ASSUME IndInv, IndInv', poll_connect PROVE [Outcome!Next]_(Outcome!vars)
  <1>1. CASE PollRunning
    BY <1>1 DEF PollRunning, Waiting, Polling, helper, Outcome!Next, Outcome!Running
  <1>2. CASE PollNotConnecting \/ PollOk \/ PollStatusFail \/ PollTimeout
    <2>1. Polling /\ \E a \in {"ok", "fail"} : \E why : Answered(a, why)
      <3>1. CASE PollNotConnecting
        BY <3>1 DEF PollNotConnecting
      <3>2. CASE PollOk
        BY <3>2 DEF PollOk
      <3>3. CASE PollStatusFail \/ PollTimeout
        BY <3>3 DEF PollStatusFail, PollTimeout, Waiting
      <3> QED BY <1>2, <3>1, <3>2, <3>3
    <2> QED BY <2>1, Answering DEF Outcome!Next
  <1> QED BY <1>1, <1>2, Retrying DEF poll_connect

\* A connect is answered once and, past the deadline, a poll answers running at
\* most once more (AnswersOnce): what SshApp assumes of the helper.
THEOREM ImplementsOutcome == Spec => AnswersOnce
  <1>1. Init => Outcome!Init
    BY DEF Init, Outcome!Init
  <1>2. ASSUME IndInv, IndInv', [Next]_vars PROVE [Outcome!Next]_(Outcome!vars)
    <2>1. CASE begin_connect
      BY <1>2, <2>1, Beginning DEF Outcome!Next
    <2>2. CASE poll_connect
      BY <1>2, <2>2, Polled
    <2>3. CASE Cancel
      BY <2>3 DEF Cancel, Polling, Outcome!Next, Outcome!Cancel
    <2>4. CASE Radio \/ UNCHANGED vars
      BY <2>4 DEF Radio, Joined, JoinFails, LinkLost, RadioStep, helper, vars, Outcome!vars
    <2>5. CASE Deadline
      BY <2>5 DEF Deadline, Outcome!Next, Outcome!Settle, Outcome!vars
    <2> QED BY <1>2, <2>1, <2>2, <2>3, <2>4, <2>5 DEF Next
  <1> QED BY <1>1, <1>2, Invariant, PTL DEF Spec, AnswersOnce, Outcome!Spec

=============================================================================
