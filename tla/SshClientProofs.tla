-------------------------- MODULE SshClientProofs ---------------------------
(***************************************************************************)
(* Proofs about SshClient, for any number of attempts and of host keys,    *)
(* and any maxlen of event_queue of at least 13.                           *)
(***************************************************************************)
EXTENDS SshClient, SequenceTheorems, TLAPS

-----------------------------------------------------------------------------
(* What the deques do.                                                     *)

\* As long as there is room, appending to a deque is concatenation.
LEMMA PushAllRoom ==
    ASSUME NEW S, NEW q \in Seq(S), NEW es \in Seq(S), NEW cap \in Nat,
           Len(q) + Len(es) <= cap
    PROVE  PushAll(q, es, cap) = q \o es
BY ConcatProperties DEF PushAll

\* Whatever the room, a deque of events stays one.
LEMMA PushAllType ==
    ASSUME NEW S, NEW q \in Seq(S), NEW es \in Seq(S), NEW cap \in Nat
    PROVE  PushAll(q, es, cap) \in Seq(S)
<1> DEFINE s == q \o es
           l == Len(s)
<1>1. s \in Seq(S) /\ l \in Nat
  BY ConcatProperties, LenProperties
<1>2. CASE l <= cap
  BY <1>1, <1>2 DEF PushAll
<1>3. CASE ~(l <= cap)
  <2>1. \A i \in (l - cap + 1)..l : s[i] \in S
    <3>1. SUFFICES ASSUME NEW i \in (l - cap + 1)..l PROVE s[i] \in S
      OBVIOUS
    <3>2. i \in 1..l
      BY <1>1, <1>3
    <3> QED BY <1>1, <3>2, ElementOfSeq
  <2>2. l - cap + 1 \in Int /\ l \in Int
    BY <1>1
  <2>3. SubSeq(s, l - cap + 1, l) \in Seq(S)
    BY <2>1, <2>2, SubSeqProperties
  <2> QED BY <1>3, <2>3 DEF PushAll
<1> QED BY <1>2, <1>3

\* The events of the worker and of the UI are events.
LEMMA EventTypes ==
    /\ \A k \in Kinds : Ev(k) \in Events
    /\ \A f \in MaybeFp : [kind |-> "fingerprint", fp |-> f] \in Events
    /\ \A n \in Nat : Progress(n) \in Seq(Events) /\ Len(Progress(n)) = n
<1>1. \A k \in Kinds : Ev(k) \in Events
  BY DEF Ev, Events, MaybeFp
<1>2. \A f \in MaybeFp : [kind |-> "fingerprint", fp |-> f] \in Events
  BY DEF Events, Kinds
<1>3. ASSUME NEW n \in Nat PROVE Progress(n) \in Seq(Events) /\ Len(Progress(n)) = n
  <2>1. Ev("progress") \in Events
    BY <1>1 DEF Kinds
  <2>2. Progress(n) \in [1..n -> Events]
    BY <2>1 DEF Progress
  <2> QED BY <2>2, SeqDef
<1> QED BY <1>1, <1>2, <1>3

\* A thread that posts leaves every deque a deque of events.
LEMMA PostType ==
    ASSUME events \in [Queues -> Seq(Events)], NEW w, NEW es \in Seq(Events), Post(w, es)
    PROVE  events' \in [Queues -> Seq(Events)]
BY PushAllType, WorkerAssumption DEF Post

-----------------------------------------------------------------------------
(* What a step of a thread posts.  Everything that the invariants below    *)
(* need to know of the events is in Posts.                                 *)

\* Labels before the host key was read, labels after the session, the banner
\* or the result was reported, and labels after an event that ends the wait.
Early    == {"idle", "wifi", "connect", "authed"}
Late     == {"spawn", "loop", "close_done", "dead", "crashed"}
Answered == Late \cup {"close_failed"}

ScreenKinds == {"session", "banner", "exec"}
AnswerKinds == ScreenKinds \cup {"error"}

\* The most events that the thread can have posted when it is at label l.
Budget(l) ==
    IF l = "wifi" THEN 0
    ELSE IF l = "idle" THEN 1
    ELSE IF l \in {"connect", "authed", "exec", "banner"} THEN 4
    ELSE IF l = "trust" THEN 7
    ELSE IF l \in {"wait", "ask", "shell"} THEN 8
    ELSE IF l = "close_failed" THEN 9
    ELSE IF l \in {"spawn", "loop", "close_done"} THEN 11
    ELSE 12

Posts(w, es) ==
    /\ es \in Seq(Events)
    /\ Budget(pc[w]) + Len(es) <= Budget(pc'[w])
    /\ \A i \in 1..Len(es) :
          /\ es[i].kind = "fingerprint" =>
                es[i].fp = fp'[w] /\ fp'[w] # NoFp /\ pc'[w] \notin Early
          /\ es[i].kind \in ScreenKinds => pc'[w] \in Late
          /\ es[i].kind = "done" => pc[w] = "close_done" /\ pc'[w] = "dead"
    /\ pc'[w] \in Answered /\ pc[w] \notin Answered =>
          \E i \in 1..Len(es) : es[i].kind \in AnswerKinds
    /\ IF es = <<>> THEN UNCHANGED events ELSE Post(w, es)

\* A single event is a sequence of events.
LEMMA Single == \A k \in Kinds : /\ <<Ev(k)>> \in Seq(Events)
                                 /\ Len(<<Ev(k)>>) = 1
                                 /\ <<Ev(k)>>[1].kind = k
BY EventTypes DEF Ev

\* Progress lines are progress lines.
LEMMA ProgressKind == \A n \in Nat : \A i \in 1..n : Progress(n)[i].kind = "progress"
BY DEF Progress, Ev

\* Every step of a thread posts what Posts says.
LEMMA StepPosts ==
    ASSUME TypeOK, NEW w \in Attempts, WorkerStep(w) \/ TrustTimeout(w)
    PROVE  \E es : Posts(w, es)
<1> USE DEF TypeOK, WorkerTypeOK, Goto, Exit, Budget, Early, Late, Answered,
            ScreenKinds, AnswerKinds
<1> DEFINE Quiet == UNCHANGED events /\ Budget(pc[w]) <= Budget(pc'[w])
                    /\ (pc'[w] \in Answered => pc[w] \in Answered)
<1>a. ASSUME Quiet PROVE \E es : Posts(w, es)
  <2>1. Posts(w, <<>>)
    BY <1>a, EmptySeq DEF Posts, Labels
  <2> QED BY <2>1
<1>b. ASSUME NEW k \in Kinds, Post(w, <<Ev(k)>>), Budget(pc[w]) + 1 <= Budget(pc'[w]),
             k # "fingerprint",
             k \in ScreenKinds => pc'[w] \in Late,
             k = "done" => pc[w] = "close_done" /\ pc'[w] = "dead",
             pc'[w] \in Answered /\ pc[w] \notin Answered => k \in AnswerKinds
      PROVE \E es : Posts(w, es)
  <2>1. Posts(w, <<Ev(k)>>)
    BY <1>b, Single DEF Posts
  <2> QED BY <2>1
<1>c. ASSUME NEW n \in Nat, Post(w, Progress(n)), Budget(pc[w]) + n <= Budget(pc'[w]),
             n > 0, pc'[w] \notin Answered
      PROVE \E es : Posts(w, es)
  <2>1. Progress(n) \in Seq(Events) /\ Len(Progress(n)) = n /\ Progress(n) # <<>>
    BY <1>c, EventTypes
  <2>2. Posts(w, Progress(n))
    BY <1>c, <2>1, ProgressKind DEF Posts
  <2> QED BY <2>2
<1>3. CASE CheckWifi(w)
  <2>1. CASE Post(w, <<Ev("error")>>) /\ Exit(w, "dead")
    BY <1>3, <2>1, <1>b DEF CheckWifi, Kinds
  <2>2. CASE /\ \E n \in IF firmware = "tcp" THEN {3} ELSE {3, 4} : Post(w, Progress(n))
             /\ Goto(w, BackendLabel)
    <3>1. PICK n \in {3, 4} : Post(w, Progress(n))
      BY <2>2
    <3>2. pc[w] = "wifi" /\ pc'[w] \in {"connect", "exec", "banner"}
      BY <1>3, <2>2 DEF CheckWifi, BackendLabel
    <3>3. n \in Nat /\ n > 0 /\ Budget(pc[w]) + n <= Budget(pc'[w]) /\ pc'[w] \notin Answered
      BY <3>2
    <3> HIDE DEF Budget, Answered
    <3> QED BY <3>1, <3>3, <1>c
  <2> QED BY <1>3, <2>1, <2>2 DEF CheckWifi
<1>4. CASE SessionConnect(w)
  BY <1>4, <1>a, <1>b DEF SessionConnect, Kinds
<1>5. CASE ReadFingerprint(w)
  <2>1. PICK f \in MaybeFp :
             /\ fp' = [fp EXCEPT ![w] = f]
             /\ Post(w, IF f = NoFp THEN Progress(1)
                        ELSE <<Ev("progress"), [kind |-> "fingerprint", fp |-> f],
                               Ev("progress")>>)
    BY <1>5 DEF ReadFingerprint
  <2>2. pc[w] = "authed" /\ pc'[w] = "trust" /\ fp'[w] = f
    BY <1>5, <2>1 DEF ReadFingerprint
  <2>3. CASE f = NoFp
    <3>1. Post(w, Progress(1))
      BY <2>1, <2>3
    <3>2. Budget(pc[w]) + 1 <= Budget(pc'[w]) /\ pc'[w] \notin Answered
      BY <2>2
    <3> HIDE DEF Budget, Answered
    <3> QED BY <3>1, <3>2, <1>c
  <2>4. CASE f # NoFp
    <3> DEFINE e == [kind |-> "fingerprint", fp |-> f]
               es == <<Ev("progress"), e, Ev("progress")>>
    <3>1. es \in Seq(Events) /\ Len(es) = 3 /\ es # <<>>
      BY EventTypes DEF Kinds
    <3>2. /\ es[1].kind = "progress" /\ es[3].kind = "progress"
          /\ es[2].kind = "fingerprint" /\ es[2].fp = f
      BY DEF Ev
    <3>3. Post(w, es)
      BY <2>1, <2>4
    <3>4. Posts(w, es)
      <4> HIDE DEF es
      <4> QED BY <2>2, <2>4, <3>1, <3>2, <3>3 DEF Posts
    <3> QED BY <3>4
  <2> QED BY <2>3, <2>4
<1>6. CASE CheckKnown(w)
  <2>1. CASE Verified(w)
    BY <1>6, <2>1, <1>a DEF CheckKnown
  <2>2. CASE ~Verified(w)
    <3>1. Post(w, Progress(1)) /\ pc[w] = "trust" /\ pc'[w] = "wait"
      BY <1>6, <2>2 DEF CheckKnown
    <3>2. Budget(pc[w]) + 1 <= Budget(pc'[w]) /\ pc'[w] \notin Answered
      BY <3>1
    <3> HIDE DEF Budget, Answered
    <3> QED BY <3>1, <3>2, <1>c
  <2> QED BY <2>1, <2>2
<1>7. CASE WaitTrust(w)
  BY <1>7, <1>a, <1>b DEF WaitTrust, Denied, Kinds
<1>8. CASE AskTrust(w)
  BY <1>8, <1>a, <1>b DEF AskTrust, Denied, Kinds
<1>9. CASE OpenShell(w)
  <2> DEFINE es == <<Ev("progress"), Ev("session"), Ev("progress")>>
  <2>1. es \in Seq(Events) /\ Len(es) = 3 /\ es # <<>>
    BY EventTypes DEF Kinds
  <2>2. es[1].kind = "progress" /\ es[2].kind = "session" /\ es[3].kind = "progress"
    BY DEF Ev
  <2>3. Post(w, es) /\ pc[w] = "shell" /\ pc'[w] = "spawn"
    BY <1>9 DEF OpenShell
  <2>4. Posts(w, es)
    <3> HIDE DEF es
    <3> QED BY <2>1, <2>2, <2>3 DEF Posts
  <2> QED BY <2>4
<1>10. CASE SpawnReader(w)
  BY <1>10, <1>a, <1>b DEF SpawnReader, Kinds
<1>11. CASE LeaveLoop(w)
  BY <1>11, <1>a DEF LeaveLoop
<1>12. CASE CloseSession(w)
  BY <1>12, <1>a, <1>b DEF CloseSession, Kinds
<1>13. CASE RunProbe(w)
  <2>1. CASE Post(w, <<Ev("error")>>)
    BY <1>13, <2>1, <1>b DEF RunProbe, Kinds
  <2>2. CASE Post(w, <<Ev(pc[w]), Ev("progress")>>)
    <3> DEFINE es == <<Ev(pc[w]), Ev("progress")>>
    <3>1. pc[w] \in {"exec", "banner"} /\ pc'[w] = "dead"
      BY <1>13 DEF RunProbe
    <3>2. es \in Seq(Events) /\ Len(es) = 2 /\ es # <<>>
      BY <3>1, EventTypes DEF Kinds
    <3>3. es[1].kind = pc[w] /\ es[2].kind = "progress"
      BY DEF Ev
    <3>4. Posts(w, es)
      <4>1. Post(w, es)
        BY <2>2
      <4> HIDE DEF es
      <4> QED BY <3>1, <3>2, <3>3, <4>1 DEF Posts
    <3> QED BY <3>4
  <2> QED BY <1>13, <2>1, <2>2 DEF RunProbe
<1>14. CASE TrustTimeout(w)
  BY <1>14, <1>a DEF TrustTimeout
<1> QED BY <1>3, <1>4, <1>5, <1>6, <1>7, <1>8, <1>9, <1>10, <1>11, <1>12, <1>13,
           <1>14 DEF WorkerStep

-----------------------------------------------------------------------------
(* Type correctness.                                                       *)

\* The initial state is well typed.
LEMMA InitType == Init => TypeOK
<1>1. <<>> \in Seq(Events)
  BY EmptySeq
<1>2. 0 \in Queues /\ 0 \in 0..MaxAttempts
  BY WorkerAssumption DEF Queues
<1>3. Init => WorkerTypeOK
  <2>1. "idle" \in Labels /\ "none" \in Shells /\ NoFp \in MaybeFp
    BY DEF Labels, Shells, MaybeFp
  <2> QED BY <1>1, <1>2, <2>1 DEF Init, WorkerInit, WorkerTypeOK
<1>4. Init => AppTypeOK
  BY ZenonT(60), <1>2 DEF Init, AppInit, AppTypeOK, States, Phases, NoHandle, MaybeFp
<1> QED BY <1>3, <1>4 DEF TypeOK

\* A step of a thread keeps the types.
LEMMA WorkerType ==
    ASSUME TypeOK, NEW w \in Attempts, Worker(w)
    PROVE  TypeOK'
<1> USE DEF TypeOK, WorkerTypeOK, AppTypeOK
<1>1. UNCHANGED appVars /\ (WorkerStep(w) \/ TrustTimeout(w))
  BY DEF Worker
<1>2. AppTypeOK'
  BY <1>1 DEF appVars
<1>3. events' \in [Queues -> Seq(Events)]
  BY <1>1, StepPosts, PostType DEF Posts
<1> USE DEF workerVars, handleVars, threadVars, localVars, Goto, Exit, Labels
<1>4. CASE CheckWifi(w)
  BY <1>2, <1>3, <1>4 DEF CheckWifi, BackendLabel
<1>5. CASE SessionConnect(w)
  BY <1>2, <1>3, <1>5 DEF SessionConnect
<1>6. CASE ReadFingerprint(w)
  BY <1>2, <1>3, <1>6 DEF ReadFingerprint
<1>7. CASE CheckKnown(w)
  BY <1>2, <1>3, <1>7 DEF CheckKnown
<1>8. CASE WaitTrust(w)
  BY <1>2, <1>3, <1>8 DEF WaitTrust, Denied
<1>9. CASE AskTrust(w)
  BY ZenonT(60), <1>2, <1>3, <1>9 DEF AskTrust, Denied, MaybeFp
<1>10. CASE OpenShell(w)
  BY <1>2, <1>3, <1>10 DEF OpenShell
<1>11. CASE SpawnReader(w)
  BY <1>2, <1>3, <1>11 DEF SpawnReader
<1>12. CASE LeaveLoop(w)
  BY <1>2, <1>3, <1>12 DEF LeaveLoop
<1>13. CASE CloseSession(w)
  BY <1>2, <1>3, <1>13 DEF CloseSession
<1>14. CASE RunProbe(w)
  BY <1>2, <1>3, <1>14 DEF RunProbe
<1>15. CASE TrustTimeout(w)
  BY <1>2, <1>3, <1>15 DEF TrustTimeout
<1> QED BY <1>1, <1>4, <1>5, <1>6, <1>7, <1>8, <1>9, <1>10, <1>11, <1>12, <1>13,
           <1>14, <1>15 DEF WorkerStep

\* Taking an event leaves every deque a deque of events.
LEMMA TakeType ==
    ASSUME TypeOK, NEW ks, Take(ks)
    PROVE  /\ events' \in [Queues -> Seq(Events)]
           /\ Head(events[event_queue]) \in Events
<1>1. events[event_queue] \in Seq(Events) /\ events[event_queue] # <<>>
  BY DEF TypeOK, WorkerTypeOK, AppTypeOK, Take
<1>2. /\ Head(events[event_queue]) \in Events
      /\ Tail(events[event_queue]) \in Seq(Events)
  BY <1>1, HeadTailProperties
<1> QED BY <1>2 DEF Take, TypeOK, WorkerTypeOK, AppTypeOK

\* A step of the app keeps the types, as long as WiFi is only pending for an
\* attempt that was started.
LEMMA AppType ==
    ASSUME TypeOK, App, wifi_pending => gen \in Attempts
    PROVE  TypeOK'
<1> USE DEF TypeOK, WorkerTypeOK, AppTypeOK, States, Phases
<1> USE DEF workerVars, handleVars, threadVars, localVars, threadKeeps, appKeeps
<1> USE DEF StopWorker, ShowError, ToMenu, KeepWorker, stop_session, Frame
<1>1. CASE OnProgress
  BY <1>1, TakeType DEF OnProgress, Take
<1>2. CASE OnFingerprint
  BY <1>2, TakeType DEF OnFingerprint, Take, Events
<1>3. CASE OnSession
  BY <1>3, TakeType DEF OnSession, Take
<1>4. CASE OnExec
  BY <1>4, TakeType DEF OnExec, Take
<1>5. CASE OnError
  BY <1>5, TakeType DEF OnError, Take
<1>6. CASE OnDone
  BY <1>6, TakeType DEF OnDone, Take
<1>7. CASE EventsDone
  BY <1>7 DEF EventsDone
<1>8. CASE KeyCancel
  BY <1>8 DEF KeyCancel
<1>9. CASE KeyBack
  BY <1>9 DEF KeyBack
<1>10. CASE KeyHome
  BY <1>10 DEF KeyHome
<1>11. CASE ConnectRefused
  BY <1>11 DEF ConnectRefused
<1>12. CASE StartConnect
  <2>1. gen + 1 \in 0..MaxAttempts /\ gen + 1 \in Queues
    BY <1>12, WorkerAssumption DEF StartConnect, Queues
  <2> QED BY <1>12, <2>1 DEF StartConnect
<1>13. CASE KeyEdit
  BY <1>13 DEF KeyEdit
<1>14. CASE EditDone
  BY <1>14 DEF EditDone
<1>15. CASE KeyTrust
  BY <1>15 DEF KeyTrust, Trust
<1>16. CASE KeyTrustThenCancel
  BY <1>16 DEF KeyTrustThenCancel, Trust
<1>17. CASE NoKey
  BY <1>17 DEF NoKey
<1>18. CASE PollRunning
  BY <1>18 DEF PollRunning
<1>19. CASE PollFail
  BY <1>19 DEF PollFail
<1>20. CASE PollOk
  BY <1>20 DEF PollOk, Polling, start_session, Labels
<1>21. CASE PollNoThread
  BY <1>21, PushAllType, Single, WorkerAssumption DEF PollNoThread, Kinds
<1>22. CASE PollRaises
  BY <1>22 DEF PollRaises
<1>23. CASE PollConnectRaises
  BY <1>23 DEF PollConnectRaises
<1>24. CASE SwitchToForeground
  BY <1>24 DEF SwitchToForeground
<1>25. CASE WifiTimeout
  BY <1>25 DEF WifiTimeout
<1> QED BY <1>1, <1>2, <1>3, <1>4, <1>5, <1>6, <1>7, <1>8, <1>9, <1>10, <1>11, <1>12,
           <1>13, <1>14, <1>15, <1>16, <1>17, <1>18, <1>19, <1>20, <1>21, <1>22, <1>23,
           <1>24, <1>25
        DEF App, run_foreground, ProcessEvent, UserKey, PollWifi

-----------------------------------------------------------------------------
(* The inductive invariant.                                                *)

\* Who uses what: the app reads the deque of the last attempt and controls at
\* most that attempt; a thread posts to the deque of its own attempt; while
\* WiFi is pending the attempt has posted nothing and has no thread.
Owners ==
    /\ event_queue = gen
    /\ session_handle # NoHandle => session_handle = gen /\ pc[session_handle] # "idle"
    /\ \A w \in Attempts :
          pc[w] # "idle" => worker_queue[w] = w /\ w <= gen /\ firmware # "nothread"
    /\ wifi_pending => /\ foreground
                       /\ state = "CONNECTING"
                       /\ session_handle = NoHandle
                       /\ gen \in Attempts
                       /\ pc[gen] = "idle"
                       /\ events[gen] = <<>>
    /\ events[0] = <<>>
    /\ \A w \in Attempts : w > gen => events[w] = <<>>

\* A deque holds no more than its thread can have posted.
Budgets == \A w \in Attempts : Len(events[w]) <= Budget(pc[w])

\* What an event in a deque says of the thread that posted it.
EventsTrue ==
    \A w \in Attempts : \A i \in 1..Len(events[w]) :
        /\ events[w][i].kind = "fingerprint" =>
              events[w][i].fp = fp[w] /\ fp[w] # NoFp /\ pc[w] \notin Early
        /\ events[w][i].kind \in ScreenKinds => pc[w] \in Late
        /\ events[w][i].kind = "done" => pc[w] = "dead"

Waiting == state \in {"CONNECTING", "VERIFY"}

\* An event that ends the wait is among the first n of deque q.
AnswerIn(q, n) == \E i \in 1..n : events[q][i].kind \in AnswerKinds

\* A waiting app waits for its own attempt, and once that has answered, the
\* answer is in the deque, in front of "done".
Answers ==
    Waiting /\ phase # "raised" =>
        /\ wifi_pending \/ session_handle # NoHandle
        /\ session_handle # NoHandle =>
              /\ pc[gen] \in Answered => AnswerIn(gen, Len(events[gen]))
              /\ \A i \in 1..Len(events[gen]) :
                    events[gen][i].kind = "done" => AnswerIn(gen, i - 1)

\* What the screen shows is true of the attempt the app controls.
Screens ==
    /\ ScreenMatchesAttempt
    /\ state = "VERIFY" => pc[session_handle] \notin Early

\* A trusted flag that will be read was set with the right key on the screen;
\* before the key is read there is none.
Approvals ==
    \A w \in Attempts :
        /\ trusted[w] /\ pc[w] \in {"wifi", "connect", "authed", "trust", "wait", "ask"} =>
              approved[w] # NoFp /\ approved[w] = fp[w]
        /\ approved[w] # NoFp => pc[w] \notin Early
        /\ pc[w] \in Early => fp[w] = NoFp

\* Where a thread may have an open session.
Sessions ==
    \A w \in Attempts :
        sess_open[w] => pc[w] \notin {"idle", "wifi", "connect", "exec", "banner", "dead"}

IndInv == /\ TypeOK /\ Owners /\ SoleWorker /\ Budgets /\ EventsTrue
          /\ Answers /\ Screens /\ Approvals /\ Sessions

\* Initially the invariant holds.
LEMMA InitInv == Init => IndInv
<1> SUFFICES ASSUME Init PROVE IndInv
  OBVIOUS
<1>1. TypeOK
  BY InitType
<1>2. \A q \in Queues : events[q] = <<>> /\ Len(events[q]) = 0
  BY EmptySeq DEF Init, WorkerInit
<1>3. Attempts \subseteq Queues /\ 0 \in Queues
  BY WorkerAssumption DEF Attempts, Queues
<1> USE DEF Init, WorkerInit, AppInit
<1>4. Owners
  BY <1>2, <1>3 DEF Owners, NoHandle
<1>5. SoleWorker
  BY DEF SoleWorker, Alive
<1>6. Budgets
  BY <1>2, <1>3 DEF Budgets, Budget
<1>7. EventsTrue
  BY <1>2, <1>3 DEF EventsTrue
<1>8. Answers /\ Screens /\ Approvals /\ Sessions
  BY DEF Answers, Waiting, Screens, ScreenMatchesAttempt, Approvals, Sessions
<1> QED BY <1>1, <1>4, <1>5, <1>6, <1>7, <1>8 DEF IndInv

-----------------------------------------------------------------------------
(* The invariant under a step of a thread.                                 *)

\* What a step of thread w changes, and how far it gets.
WorkerMoves(w) ==
    /\ UNCHANGED <<firmware, worker_queue, stop_flag, appVars>>
    /\ \A v \in Attempts : v # w =>
          /\ pc'[v] = pc[v] /\ fp'[v] = fp[v] /\ trusted'[v] = trusted[v]
          /\ running'[v] = running[v] /\ sess_open'[v] = sess_open[v]
    /\ Alive(w)
    /\ pc'[w] # "idle"
    /\ running'[w] => running[w]
    /\ pc[w] \notin Early => pc'[w] \notin Early /\ fp'[w] = fp[w]
    /\ pc[w] \in Late => pc'[w] \in Late
    /\ pc[w] \in Answered => pc'[w] \in Answered
    /\ pc'[w] \in Early => pc[w] \in Early /\ fp'[w] = fp[w]
    /\ trusted'[w] => trusted[w] \/ pc'[w] = "shell"
    /\ pc'[w] \in {"wifi", "connect", "authed", "trust", "wait", "ask"} =>
          pc[w] \in {"wifi", "connect", "authed", "trust", "wait", "ask"}
    /\ sess_open'[w] =>
          pc'[w] \notin {"idle", "wifi", "connect", "exec", "banner", "dead"}

\* Every step of a thread is such a move.
LEMMA StepMoves ==
    ASSUME TypeOK, Sessions, NEW w \in Attempts, Worker(w)
    PROVE  WorkerMoves(w)
<1> USE DEF TypeOK, WorkerTypeOK, AppTypeOK, Sessions, WorkerMoves
<1> USE DEF handleVars, threadVars, localVars, Goto, Exit, Labels, Early, Late, Answered, Alive
<1>1. UNCHANGED appVars /\ (WorkerStep(w) \/ TrustTimeout(w))
  BY DEF Worker
<1>2. CASE CheckWifi(w)
  BY <1>1, <1>2 DEF CheckWifi, BackendLabel
<1>3. CASE SessionConnect(w)
  BY <1>1, <1>3 DEF SessionConnect
<1>4. CASE ReadFingerprint(w)
  BY <1>1, <1>4 DEF ReadFingerprint
<1>5. CASE CheckKnown(w)
  BY <1>1, <1>5 DEF CheckKnown
<1>6. CASE WaitTrust(w)
  BY <1>1, <1>6 DEF WaitTrust, Denied
<1>7. CASE AskTrust(w)
  BY <1>1, <1>7 DEF AskTrust, Denied
<1>8. CASE OpenShell(w)
  BY <1>1, <1>8 DEF OpenShell
<1>9. CASE SpawnReader(w)
  BY <1>1, <1>9 DEF SpawnReader
<1>10. CASE LeaveLoop(w)
  BY <1>1, <1>10 DEF LeaveLoop
<1>11. CASE CloseSession(w)
  BY <1>1, <1>11 DEF CloseSession
<1>12. CASE RunProbe(w)
  BY <1>1, <1>12 DEF RunProbe
<1>13. CASE TrustTimeout(w)
  BY <1>1, <1>13 DEF TrustTimeout
<1> QED BY <1>1, <1>2, <1>3, <1>4, <1>5, <1>6, <1>7, <1>8, <1>9, <1>10, <1>11, <1>12,
           <1>13 DEF WorkerStep

\* What posting does to the deques: only the thread's own changes, and there
\* the new events follow the old ones.
LEMMA PostEffect ==
    ASSUME TypeOK, Budgets, NEW w \in Attempts, worker_queue[w] = w,
           NEW es, Posts(w, es)
    PROVE  /\ \A q \in Queues : q # w => events'[q] = events[q]
           /\ Len(es) \in Nat
           /\ Len(events'[w]) = Len(events[w]) + Len(es)
           /\ Len(events'[w]) <= Budget(pc'[w])
           /\ \A i \in 1..Len(events[w]) : events'[w][i] = events[w][i]
           /\ \A i \in 1..Len(es) : events'[w][Len(events[w]) + i] = es[i]
           /\ \A i \in (Len(events[w]) + 1)..Len(events'[w]) :
                 i - Len(events[w]) \in 1..Len(es)
<1>1. events \in [Queues -> Seq(Events)] /\ w \in Queues
  BY WorkerAssumption DEF TypeOK, WorkerTypeOK, Attempts, Queues
<1>2. es \in Seq(Events) /\ Len(es) \in Nat /\ Len(events[w]) \in Nat
  BY <1>1, LenProperties DEF Posts
<1>3. Budget(pc[w]) \in Nat /\ Budget(pc'[w]) \in Nat /\ Budget(pc'[w]) <= 12
  BY DEF Budget
<1>4. Len(events[w]) + Len(es) <= Budget(pc'[w])
  BY <1>2, <1>3 DEF Posts, Budgets
<1>5. events' = [events EXCEPT ![w] = events[w] \o es]
  <2>1. CASE es = <<>>
    <3>1. events[w] \o es = events[w]
      BY <1>1, <2>1, ConcatEmptySeq
    <3> QED BY <1>1, <2>1, <3>1 DEF Posts
  <2>2. CASE es # <<>>
    <3>1. PushAll(events[w], es, EventCap) = events[w] \o es
      BY <1>1, <1>2, <1>3, <1>4, PushAllRoom, WorkerAssumption
    <3> QED BY <2>2, <3>1 DEF Posts, Post
  <2> QED BY <2>1, <2>2
<1>6. /\ Len(events[w] \o es) = Len(events[w]) + Len(es)
      /\ \A i \in 1..(Len(events[w]) + Len(es)) : (events[w] \o es)[i] =
            IF i <= Len(events[w]) THEN events[w][i] ELSE es[i - Len(events[w])]
  BY <1>1, <1>2, ConcatProperties
<1>7. events'[w] = events[w] \o es /\ \A q \in Queues : q # w => events'[q] = events[q]
  BY <1>1, <1>5
<1>8. \A i \in 1..Len(events[w]) : events'[w][i] = events[w][i]
  BY <1>2, <1>6, <1>7
<1>9. ASSUME NEW i \in 1..Len(es) PROVE events'[w][Len(events[w]) + i] = es[i]
  <2>1. Len(events[w]) + i \in 1..(Len(events[w]) + Len(es))
    BY <1>2
  <2>2. ~(Len(events[w]) + i <= Len(events[w])) /\ Len(events[w]) + i - Len(events[w]) = i
    BY <1>2
  <2> QED BY <1>6, <1>7, <2>1, <2>2
<1> QED BY <1>2, <1>4, <1>6, <1>7, <1>8, <1>9

\* A step of a thread keeps the invariant.
LEMMA WorkerInv ==
    ASSUME IndInv, NEW w \in Attempts, Worker(w)
    PROVE  IndInv'
<1> USE DEF IndInv
<1>1. TypeOK'
  BY WorkerType
<1>2. WorkerMoves(w)
  BY StepMoves
<1>3. PICK es : Posts(w, es)
  BY StepPosts DEF Worker
<1>4. worker_queue[w] = w /\ w <= gen /\ firmware # "nothread" /\ pc[w] # "idle"
  BY <1>2 DEF WorkerMoves, Alive, Owners
<1>5. /\ \A q \in Queues : q # w => events'[q] = events[q]
      /\ Len(es) \in Nat
      /\ Len(events'[w]) = Len(events[w]) + Len(es)
      /\ Len(events'[w]) <= Budget(pc'[w])
      /\ \A i \in 1..Len(events[w]) : events'[w][i] = events[w][i]
      /\ \A i \in 1..Len(es) : events'[w][Len(events[w]) + i] = es[i]
      /\ \A i \in (Len(events[w]) + 1)..Len(events'[w]) :
            i - Len(events[w]) \in 1..Len(es)
  BY <1>3, <1>4, PostEffect
<1>6. Attempts \subseteq Queues /\ 0 \in Queues /\ 0 \notin Attempts
  BY WorkerAssumption DEF Attempts, Queues
<1>7. \A q \in Attempts : Len(events[q]) \in Nat
  BY <1>6, LenProperties DEF TypeOK, WorkerTypeOK
<1>8. UNCHANGED <<state, phase, foreground, session_handle, wifi_pending,
                  ssh_worker_started, pending_fp, event_queue, gen, approved>>
  BY <1>2 DEF WorkerMoves, appVars
<1>9. Owners'
  <2>1. gen \in Nat /\ w \in Nat
    BY WorkerAssumption DEF TypeOK, AppTypeOK, Attempts
  <2>2. wifi_pending => w # gen
    BY <1>4 DEF Owners
  <2>3. \A v \in Attempts : pc'[v] # "idle" => pc[v] # "idle"
    BY <1>2, <1>4 DEF WorkerMoves
  <2>4. \A v \in Attempts : v > gen => v # w
    BY <1>4, <2>1 DEF Attempts
  <2>5. session_handle # NoHandle => pc'[session_handle] # "idle"
    BY <1>2, <1>8 DEF WorkerMoves, Owners, TypeOK, AppTypeOK
  <2>6. wifi_pending => pc'[gen] = "idle" /\ events'[gen] = <<>>
    BY <1>2, <1>5, <1>6, <2>2 DEF WorkerMoves, Owners
  <2>7. events'[0] = <<>>
    BY <1>5, <1>6 DEF Owners
  <2>8. \A v \in Attempts : v > gen => events'[v] = <<>>
    BY <1>5, <1>6, <2>4 DEF Owners
  <2>9. UNCHANGED <<worker_queue, firmware>>
    BY <1>2 DEF WorkerMoves
  <2> QED BY <1>8, <2>3, <2>5, <2>6, <2>7, <2>8, <2>9 DEF Owners
<1>10. SoleWorker'
  BY <1>2, <1>8 DEF SoleWorker, WorkerMoves, Alive, Stopped
<1>11. Budgets'
  BY <1>2, <1>5, <1>6 DEF Budgets, WorkerMoves
<1>12. EventsTrue'
  <2>1. ASSUME NEW v \in Attempts, v # w, NEW i \in 1..Len(events'[v])
        PROVE  /\ events'[v][i].kind = "fingerprint" =>
                    events'[v][i].fp = fp'[v] /\ fp'[v] # NoFp /\ pc'[v] \notin Early
               /\ events'[v][i].kind \in ScreenKinds => pc'[v] \in Late
               /\ events'[v][i].kind = "done" => pc'[v] = "dead"
    <3>1. events'[v] = events[v] /\ pc'[v] = pc[v] /\ fp'[v] = fp[v]
      BY <1>2, <1>5, <1>6, <2>1 DEF WorkerMoves
    <3> QED BY <2>1, <3>1 DEF EventsTrue
  <2>2. ASSUME NEW i \in 1..Len(events'[w])
        PROVE  /\ events'[w][i].kind = "fingerprint" =>
                    events'[w][i].fp = fp'[w] /\ fp'[w] # NoFp /\ pc'[w] \notin Early
               /\ events'[w][i].kind \in ScreenKinds => pc'[w] \in Late
               /\ events'[w][i].kind = "done" => pc'[w] = "dead"
    <3>1. CASE i \in 1..Len(events[w])
      <4>1. events'[w][i] = events[w][i]
        BY <1>5, <3>1
      <4>2. pc[w] # "dead"
        BY <1>2 DEF WorkerMoves, Alive
      <4> QED BY <1>2, <3>1, <4>1, <4>2 DEF EventsTrue, WorkerMoves
    <3>2. CASE i \in (Len(events[w]) + 1)..Len(events'[w])
      <4> DEFINE j == i - Len(events[w])
      <4>1. j \in 1..Len(es)
        BY <1>5, <3>2
      <4>2. events'[w][i] = es[j]
        <5>1. Len(events[w]) + j = i
          BY <1>7, <3>2
        <5> QED BY <1>5, <4>1, <5>1
      <4> QED BY <1>3, <4>1, <4>2 DEF Posts
    <3> QED BY <1>5, <1>7, <3>1, <3>2
  <2> QED BY <2>1, <2>2 DEF EventsTrue
<1>13. Answers'
  <2> SUFFICES ASSUME Waiting, phase # "raised"
               PROVE  /\ wifi_pending \/ session_handle # NoHandle
                      /\ session_handle # NoHandle =>
                            /\ pc'[gen] \in Answered => AnswerIn(gen, Len(events[gen]))'
                            /\ \A i \in 1..Len(events'[gen]) :
                                  events'[gen][i].kind = "done" => AnswerIn(gen, i - 1)'
    BY <1>8 DEF Answers, Waiting, AnswerIn
  <2>1. wifi_pending \/ session_handle # NoHandle
    BY DEF Answers
  <2> SUFFICES ASSUME session_handle # NoHandle
               PROVE  /\ pc'[gen] \in Answered => AnswerIn(gen, Len(events[gen]))'
                      /\ \A i \in 1..Len(events'[gen]) :
                            events'[gen][i].kind = "done" => AnswerIn(gen, i - 1)'
    BY <2>1
  <2>2. gen \in Attempts
    BY DEF TypeOK, AppTypeOK, Owners
  <2>3. /\ pc[gen] \in Answered => AnswerIn(gen, Len(events[gen]))
        /\ \A i \in 1..Len(events[gen]) :
              events[gen][i].kind = "done" => AnswerIn(gen, i - 1)
    BY DEF Answers
  <2>4. CASE w # gen
    <3>1. events'[gen] = events[gen] /\ pc'[gen] = pc[gen]
      BY <1>2, <1>5, <1>6, <2>2, <2>4 DEF WorkerMoves
    <3> QED BY <1>8, <2>3, <3>1 DEF AnswerIn
  <2>5. CASE w = gen
    <3>1. ASSUME NEW n \in Nat, n <= Len(events[w]), AnswerIn(w, n)
          PROVE  AnswerIn(w, n)'
      <4>1. PICK k \in 1..n : events[w][k].kind \in AnswerKinds
        BY <3>1 DEF AnswerIn
      <4>2. events'[w][k].kind \in AnswerKinds
        <5>1. k \in 1..Len(events[w])
          BY <1>7, <3>1, <4>1
        <5> QED BY <1>5, <4>1, <5>1
      <4> QED BY <4>1, <4>2 DEF AnswerIn
    <3>2. ASSUME pc[w] \in Answered, NEW n \in Nat, Len(events[w]) <= n
          PROVE  AnswerIn(w, n)'
      <4>1. PICK k \in 1..Len(events[w]) : events[w][k].kind \in AnswerKinds
        BY <2>3, <2>5, <3>2 DEF AnswerIn
      <4>2. events'[w][k].kind \in AnswerKinds /\ k \in 1..n
        BY SMTT(20), <1>5, <1>7, <3>2, <4>1
      <4> QED BY <4>2 DEF AnswerIn
    <3>3. ASSUME pc'[w] \in Answered PROVE AnswerIn(w, Len(events[w]))'
      <4>1. Len(events[w]) <= Len(events'[w]) /\ Len(events'[w]) \in Nat
        BY <1>5, <1>7
      <4>2. CASE pc[w] \in Answered
        <5>1. PICK k \in 1..Len(events[w]) : events[w][k].kind \in AnswerKinds
          BY <2>3, <2>5, <4>2 DEF AnswerIn
        <5>2. events'[w][k].kind \in AnswerKinds /\ k \in 1..Len(events'[w])
          BY <1>5, <1>7, <4>1, <5>1
        <5> QED BY <5>2 DEF AnswerIn
      <4>3. CASE pc[w] \notin Answered
        <5>1. PICK k \in 1..Len(es) : es[k].kind \in AnswerKinds
          BY <1>3, <3>3, <4>3 DEF Posts
        <5>2. Len(events[w]) + k \in 1..Len(events'[w])
          BY <1>5, <1>7, <5>1
        <5>3. events'[w][Len(events[w]) + k].kind \in AnswerKinds
          BY <1>5, <5>1
        <5> QED BY <5>2, <5>3 DEF AnswerIn
      <4> QED BY <4>2, <4>3
    <3>4. ASSUME NEW i \in 1..Len(events'[w]), events'[w][i].kind = "done"
          PROVE  AnswerIn(w, i - 1)'
      <4>1. CASE i \in 1..Len(events[w])
        <5>1. events[w][i].kind = "done"
          BY <1>5, <3>4, <4>1
        <5>2. AnswerIn(w, i - 1)
          BY <2>3, <2>5, <4>1, <5>1
        <5> QED BY <1>7, <3>1, <4>1, <5>2
      <4>2. CASE i \in (Len(events[w]) + 1)..Len(events'[w])
        <5> DEFINE j == i - Len(events[w])
        <5>1. j \in 1..Len(es)
          BY <1>5, <4>2
        <5>2. events'[w][i] = es[j]
          <6>1. Len(events[w]) + j = i
            BY <1>7, <4>2
          <6> QED BY <1>5, <5>1, <6>1
        <5>3. pc[w] \in Answered
          BY <1>3, <3>4, <5>1, <5>2 DEF Posts, Answered, Late
        <5>4. i - 1 \in Nat /\ Len(events[w]) <= i - 1
          BY <1>7, <4>2
        <5> QED BY <3>2, <5>3, <5>4
      <4> QED BY <1>5, <1>7, <4>1, <4>2
    <3> QED BY <1>8, <2>5, <3>3, <3>4 DEF AnswerIn
  <2> QED BY <2>4, <2>5
<1>14. Screens'
  <2>1. CASE session_handle = NoHandle
    BY <1>8, <2>1 DEF Screens, ScreenMatchesAttempt
  <2>2. CASE session_handle # NoHandle
    <3>1. session_handle \in Attempts
      BY <2>2 DEF TypeOK, AppTypeOK
    <3>2. pc[session_handle] \in Late => pc'[session_handle] \in Late
      BY <1>2, <3>1 DEF WorkerMoves
    <3>3. pc[session_handle] \notin Early =>
             pc'[session_handle] \notin Early /\ fp'[session_handle] = fp[session_handle]
      BY <1>2, <3>1 DEF WorkerMoves
    <3> QED BY <1>8, <3>2, <3>3 DEF Screens, ScreenMatchesAttempt, Late
  <2> QED BY <2>1, <2>2
<1>15. Approvals'
  BY <1>2, <1>8 DEF Approvals, WorkerMoves
<1>16. Sessions'
  BY <1>2 DEF Sessions, WorkerMoves
<1> QED BY <1>1, <1>9, <1>10, <1>11, <1>12, <1>13, <1>14, <1>15, <1>16

-----------------------------------------------------------------------------
(* The invariant under a step of the app.                                  *)

\* What every step of the app but PollOk leaves alone.
ThreadsKept == UNCHANGED <<firmware, known_hosts, pc, worker_queue, fp, sess_open>>

\* The handle is kept, or its thread is told to stop and it is dropped.
HandleKeptOrStopped ==
    \/ UNCHANGED <<running, stop_flag, session_handle, wifi_pending>>
    \/ StopWorker

\* Both together keep the rule that only the held thread is not stopped.
LEMMA SoleWorkerKept ==
    ASSUME TypeOK, SoleWorker, ThreadsKept, HandleKeptOrStopped
    PROVE  SoleWorker'
BY DEF SoleWorker, ThreadsKept, HandleKeptOrStopped, StopWorker, stop_session, Alive,
       Stopped, TypeOK, WorkerTypeOK

\* Steps that neither start an attempt nor a thread keep the owners.
LEMMA OwnersKept ==
    ASSUME TypeOK, Owners, ThreadsKept, HandleKeptOrStopped,
           UNCHANGED <<gen, event_queue>>,
           wifi_pending' => UNCHANGED <<foreground, state, events>>,
           events'[0] = events[0],
           \A w \in Attempts : w > gen => events'[w] = events[w]
    PROVE  Owners'
BY DEF Owners, ThreadsKept, HandleKeptOrStopped, StopWorker, TypeOK, AppTypeOK

\* Steps that keep threads and deques keep what is said of both.
LEMMA EventsKept ==
    ASSUME ThreadsKept, UNCHANGED events, Budgets, EventsTrue, Sessions
    PROVE  Budgets' /\ EventsTrue' /\ Sessions'
BY DEF ThreadsKept, Budgets, EventsTrue, Sessions

\* A step that shows neither a waiting screen nor one of a held attempt.
LEMMA ScreensIdle ==
    ASSUME ~Waiting', state' \in {"SESSION", "EXEC"} => session_handle' = NoHandle
    PROVE  Answers' /\ Screens'
BY DEF Answers, Screens, ScreenMatchesAttempt, Waiting

\* A step that changes nothing a screen depends on.
LEMMA ScreensKept ==
    ASSUME ThreadsKept, Answers, Screens,
           UNCHANGED <<state, session_handle, wifi_pending, pending_fp, events, gen>>,
           phase = "raised" => phase' = "raised"
    PROVE  Answers' /\ Screens'
BY DEF ThreadsKept, Answers, Screens, ScreenMatchesAttempt, Waiting, AnswerIn

\* Taking the oldest event of the deque the app reads.
LEMMA TakeEffect ==
    ASSUME TypeOK, Owners, NEW ks, Take(ks)
    PROVE  /\ gen \in Attempts
           /\ events[gen] # <<>>
           /\ Head(events[gen]) = events[gen][1]
           /\ events[gen][1].kind \in ks
           /\ \A q \in Queues : q # gen => events'[q] = events[q]
           /\ Len(events[gen]) \in Nat \ {0}
           /\ Len(events'[gen]) = Len(events[gen]) - 1
           /\ \A i \in 1..Len(events'[gen]) : events'[gen][i] = events[gen][i + 1]
           /\ ~wifi_pending
           /\ phase = "events" /\ phase' = "events"
<1>1. event_queue = gen /\ gen \in Queues
  BY DEF Owners, TypeOK, AppTypeOK
<1>2. events[gen] \in Seq(Events) /\ events[gen] # <<>>
  BY <1>1 DEF Take, TypeOK, WorkerTypeOK
<1>3. gen \in Attempts
  <2>1. gen # 0
    BY <1>2 DEF Owners
  <2> QED BY <1>1, <2>1, WorkerAssumption DEF Queues, Attempts
<1>4. /\ Len(Tail(events[gen])) = Len(events[gen]) - 1
      /\ \A i \in 1..Len(Tail(events[gen])) : Tail(events[gen])[i] = events[gen][i + 1]
  BY <1>2, HeadTailProperties
<1>5. Head(events[gen]) = events[gen][1] /\ Len(events[gen]) \in Nat \ {0}
  BY <1>2, EmptySeq
<1>6. events' = [events EXCEPT ![gen] = Tail(events[gen])]
  BY <1>1 DEF Take
<1>7. events'[gen] = Tail(events[gen]) /\ \A q \in Queues : q # gen => events'[q] = events[q]
  BY <1>1, <1>6 DEF TypeOK, WorkerTypeOK
<1>8. ~wifi_pending
  BY <1>2 DEF Owners
<1> QED BY <1>1, <1>2, <1>3, <1>4, <1>5, <1>7, <1>8 DEF Take, Running, threadKeeps

\* Taking an event keeps the owners and what is said of the deques.
LEMMA TakeKept ==
    ASSUME TypeOK, Owners, Budgets, EventsTrue, Sessions, NEW ks, Take(ks),
           HandleKeptOrStopped, UNCHANGED <<gen, event_queue>>
    PROVE  ThreadsKept /\ Owners' /\ Budgets' /\ EventsTrue' /\ Sessions'
<1>1. ThreadsKept
  BY DEF Take, ThreadsKept, threadKeeps, threadVars, localVars
<1>2. Attempts \subseteq Queues /\ 0 \in Queues /\ 0 \notin Attempts
  BY WorkerAssumption DEF Attempts, Queues
<1>3. ~wifi_pending'
  BY TakeEffect DEF HandleKeptOrStopped, StopWorker
<1>4. Owners'
  <2>1. events'[0] = events[0]
    BY <1>2, TakeEffect
  <2>2. \A w \in Attempts : w > gen => events'[w] = events[w]
    <3>1. \A w \in Attempts : w > gen => w # gen
      BY DEF Attempts
    <3> QED BY <1>2, <3>1, TakeEffect
  <2> QED BY <1>1, <1>3, <2>1, <2>2, OwnersKept
<1>5. ASSUME NEW w \in Attempts
      PROVE  /\ Len(events'[w]) <= Len(events[w])
             /\ \A i \in 1..Len(events'[w]) :
                   \E j \in 1..Len(events[w]) : events'[w][i] = events[w][j]
             /\ Len(events[w]) \in Nat /\ Len(events'[w]) \in Nat
  <2>0. Len(events[w]) \in Nat
    BY <1>2, LenProperties DEF TypeOK, WorkerTypeOK
  <2>1. CASE w # gen
    BY <1>2, <2>0, <2>1, TakeEffect
  <2>2. CASE w = gen
    <3>1. /\ Len(events[gen]) \in Nat \ {0}
          /\ Len(events'[gen]) = Len(events[gen]) - 1
          /\ \A i \in 1..Len(events'[gen]) : events'[gen][i] = events[gen][i + 1]
      BY TakeEffect
    <3>2. \A i \in 1..Len(events'[gen]) : i + 1 \in 1..Len(events[gen])
      BY <3>1
    <3> QED BY <2>2, <3>1, <3>2
  <2> QED BY <2>1, <2>2
<1>6. Budgets'
  <2>1. ASSUME NEW w \in Attempts PROVE Len(events'[w]) <= Budget(pc'[w])
    <3>1. pc'[w] = pc[w] /\ Len(events[w]) <= Budget(pc[w]) /\ Budget(pc[w]) \in Nat
      BY <1>1 DEF ThreadsKept, Budgets, Budget
    <3> QED BY <1>5, <3>1
  <2> QED BY <2>1 DEF Budgets
<1>7. EventsTrue'
  BY <1>1, <1>5 DEF EventsTrue, ThreadsKept
<1> QED BY <1>1, <1>4, <1>6, <1>7 DEF Sessions, ThreadsKept

\* Taking an event that does not end the wait keeps Answers.
LEMMA TakeAnswers ==
    ASSUME TypeOK, Owners, Answers, NEW ks, Take(ks), ks \cap AnswerKinds = {},
           Waiting' => Waiting, UNCHANGED <<session_handle, wifi_pending, gen, pc>>
    PROVE  Answers'
<1> SUFFICES ASSUME Waiting, session_handle # NoHandle
             PROVE  /\ pc'[gen] \in Answered => AnswerIn(gen, Len(events[gen]))'
                    /\ \A i \in 1..Len(events'[gen]) :
                          events'[gen][i].kind = "done" => AnswerIn(gen, i - 1)'
  BY TakeEffect DEF Answers, AnswerIn
<1>1. /\ pc[gen] \in Answered => AnswerIn(gen, Len(events[gen]))
      /\ \A i \in 1..Len(events[gen]) :
            events[gen][i].kind = "done" => AnswerIn(gen, i - 1)
  BY TakeEffect DEF Answers
<1>2. /\ Len(events[gen]) \in Nat \ {0}
      /\ Len(events'[gen]) = Len(events[gen]) - 1
      /\ \A i \in 1..Len(events'[gen]) : events'[gen][i] = events[gen][i + 1]
      /\ events[gen][1].kind \notin AnswerKinds
  BY TakeEffect
<1>3. ASSUME NEW n \in Nat, n <= Len(events[gen]), AnswerIn(gen, n)
      PROVE  \E k \in 1..(n - 1) : events'[gen][k].kind \in AnswerKinds
  <2>1. PICK k \in 1..n : events[gen][k].kind \in AnswerKinds
    BY <1>3 DEF AnswerIn
  <2>2. k # 1
    BY <1>2, <2>1
  <2>3. k - 1 \in 1..(n - 1) /\ k - 1 \in 1..Len(events'[gen]) /\ (k - 1) + 1 = k
    BY <1>2, <1>3, <2>1, <2>2
  <2>4. events'[gen][k - 1] = events[gen][k]
    BY <1>2, <2>3
  <2> QED BY <2>1, <2>3, <2>4
<1>4. pc'[gen] \in Answered => AnswerIn(gen, Len(events[gen]))'
  BY <1>1, <1>2, <1>3 DEF AnswerIn
<1>5. ASSUME NEW i \in 1..Len(events'[gen]), events'[gen][i].kind = "done"
      PROVE  AnswerIn(gen, i - 1)'
  <2>1. i + 1 \in 1..Len(events[gen]) /\ events[gen][i + 1].kind = "done"
    BY <1>2, <1>5
  <2>2. AnswerIn(gen, i)
    <3>1. AnswerIn(gen, (i + 1) - 1)
      BY <1>1, <2>1
    <3>2. (i + 1) - 1 = i
      BY <1>2
    <3> QED BY <3>1, <3>2
  <2>3. i \in Nat /\ i <= Len(events[gen])
    BY <1>2, <2>1
  <2> QED BY <1>3, <2>2, <2>3 DEF AnswerIn
<1> QED BY <1>4, <1>5

\* A step of the app keeps the invariant.
LEMMA AppInv ==
    ASSUME IndInv, App
    PROVE  IndInv'
<1> USE DEF IndInv
<1>0. TypeOK'
  BY AppType DEF Owners
<1>a. SUFFICES Owners' /\ SoleWorker' /\ Budgets' /\ EventsTrue' /\ Answers' /\ Screens'
               /\ Approvals' /\ Sessions'
  BY <1>0
<1> USE DEF workerVars, handleVars, threadVars, localVars, threadKeeps, appKeeps
<1> USE DEF ThreadsKept, HandleKeptOrStopped, KeepWorker, Frame, Approvals
<1>1. CASE OnProgress
  <2>1. PICK ks : Take(ks) /\ ks = {"progress"}
    BY <1>1 DEF OnProgress
  <2>2. HandleKeptOrStopped /\ UNCHANGED <<gen, event_queue>>
    BY <1>1 DEF OnProgress, ShowError
  <2>3. ThreadsKept /\ Owners' /\ Budgets' /\ EventsTrue' /\ Sessions'
    BY <2>1, <2>2, TakeKept
  <2>4. SoleWorker'
    BY <2>2, <2>3, SoleWorkerKept
  <2>5. Approvals'
    BY <1>1, <2>3 DEF OnProgress, ShowError, StopWorker
  <2>6. Answers'
    BY <1>1, <2>1, <2>3, TakeAnswers DEF OnProgress, ScreenKinds, AnswerKinds, Waiting
  <2>7. Screens'
    BY <1>1, <2>3 DEF OnProgress, Screens, ScreenMatchesAttempt
  <2> QED BY <2>3, <2>4, <2>5, <2>6, <2>7
<1>2. CASE OnFingerprint
  <2>1. PICK ks : Take(ks) /\ ks = {"fingerprint"}
    BY <1>2 DEF OnFingerprint
  <2>2. HandleKeptOrStopped /\ UNCHANGED <<gen, event_queue>>
    BY <1>2 DEF OnFingerprint, ShowError
  <2>3. ThreadsKept /\ Owners' /\ Budgets' /\ EventsTrue' /\ Sessions'
    BY <2>1, <2>2, TakeKept
  <2>4. SoleWorker'
    BY <2>2, <2>3, SoleWorkerKept
  <2>5. Approvals'
    BY <1>2, <2>3 DEF OnFingerprint, ShowError, StopWorker
  <2>6. Answers'
    BY <1>2, <2>1, <2>3, TakeAnswers DEF OnFingerprint, ScreenKinds, AnswerKinds, Waiting
  <2>7. Screens'
    <3>1. /\ pending_fp' = fp[gen]
          /\ fp[gen] # NoFp
          /\ pc[gen] \notin Early
      BY <1>2, <2>1, TakeEffect DEF OnFingerprint, EventsTrue, Owners
    <3>2. state' = "VERIFY" => session_handle # NoHandle /\ session_handle = gen
      BY <1>2, <2>1, TakeEffect DEF OnFingerprint, Answers, Waiting, Screens,
         ScreenMatchesAttempt, Owners
    <3> QED BY <1>2, <2>3, <3>1, <3>2 DEF OnFingerprint, Screens, ScreenMatchesAttempt
  <2> QED BY <2>3, <2>4, <2>5, <2>6, <2>7
<1>3. CASE OnSession
  <2>1. PICK ks : Take(ks) /\ ks = {"session", "banner"}
    BY <1>3 DEF OnSession
  <2>2. HandleKeptOrStopped /\ UNCHANGED <<gen, event_queue>>
    BY <1>3 DEF OnSession, ShowError
  <2>3. ThreadsKept /\ Owners' /\ Budgets' /\ EventsTrue' /\ Sessions'
    BY <2>1, <2>2, TakeKept
  <2>4. SoleWorker'
    BY <2>2, <2>3, SoleWorkerKept
  <2>5. Approvals'
    BY <1>3, <2>3 DEF OnSession, ShowError, StopWorker
  <2>6. session_handle # NoHandle => session_handle = gen /\ pc[gen] \in Late
    BY <2>1, TakeEffect DEF Owners, EventsTrue, ScreenKinds
  <2>7. Answers' /\ Screens'
    BY <1>3, <2>3, <2>6 DEF OnSession, Answers, Waiting, Screens, ScreenMatchesAttempt, Late
  <2> QED BY <2>3, <2>4, <2>5, <2>7
<1>4. CASE OnExec
  <2>1. PICK ks : Take(ks) /\ ks = {"exec"}
    BY <1>4 DEF OnExec
  <2>2. HandleKeptOrStopped /\ UNCHANGED <<gen, event_queue>>
    BY <1>4 DEF OnExec, ShowError
  <2>3. ThreadsKept /\ Owners' /\ Budgets' /\ EventsTrue' /\ Sessions'
    BY <2>1, <2>2, TakeKept
  <2>4. SoleWorker'
    BY <2>2, <2>3, SoleWorkerKept
  <2>5. Approvals'
    BY <1>4, <2>3 DEF OnExec, ShowError, StopWorker
  <2>6. session_handle # NoHandle => session_handle = gen /\ pc[gen] \in Late
    BY <2>1, TakeEffect DEF Owners, EventsTrue, ScreenKinds
  <2>7. Answers' /\ Screens'
    BY <1>4, <2>3, <2>6 DEF OnExec, Answers, Waiting, Screens, ScreenMatchesAttempt, Late
  <2> QED BY <2>3, <2>4, <2>5, <2>7
<1>5. CASE OnError
  <2>1. PICK ks : Take(ks) /\ ks = {"error"}
    BY <1>5 DEF OnError
  <2>2. HandleKeptOrStopped /\ UNCHANGED <<gen, event_queue>>
    BY <1>5 DEF OnError, ShowError
  <2>3. ThreadsKept /\ Owners' /\ Budgets' /\ EventsTrue' /\ Sessions'
    BY <2>1, <2>2, TakeKept
  <2>4. SoleWorker'
    BY <2>2, <2>3, SoleWorkerKept
  <2>5. Approvals'
    BY <1>5, <2>3 DEF OnError, ShowError, StopWorker
  <2>6. Answers' /\ Screens'
    BY <1>5, ScreensIdle DEF OnError, ShowError, Waiting
  <2> QED BY <2>3, <2>4, <2>5, <2>6
<1>6. CASE OnDone
  <2>1. PICK ks : Take(ks) /\ ks = {"done"}
    BY <1>6 DEF OnDone
  <2>2. HandleKeptOrStopped /\ UNCHANGED <<gen, event_queue>>
    BY <1>6 DEF OnDone, ShowError
  <2>3. ThreadsKept /\ Owners' /\ Budgets' /\ EventsTrue' /\ Sessions'
    BY <2>1, <2>2, TakeKept
  <2>4. SoleWorker'
    BY <2>2, <2>3, SoleWorkerKept
  <2>5. Approvals'
    BY <1>6, <2>3 DEF OnDone, ShowError, StopWorker
  <2>6. ~Waiting
    <3> SUFFICES ASSUME Waiting PROVE FALSE
      OBVIOUS
    <3>1. phase # "raised" /\ ~wifi_pending /\ events[gen][1].kind = "done"
          /\ 1 \in 1..Len(events[gen])
      BY <2>1, TakeEffect
    <3>2. AnswerIn(gen, 1 - 1)
      BY <3>1 DEF Answers
    <3> QED BY <3>2 DEF AnswerIn
  <2>7. Answers' /\ Screens'
    BY <1>6, <2>6, ScreensIdle DEF OnDone, StopWorker, Waiting
  <2> QED BY <2>3, <2>4, <2>5, <2>7
<1>7. CASE EventsDone
  <2>1. ThreadsKept /\ HandleKeptOrStopped
    BY <1>7 DEF EventsDone, Running
  <2>a. Approvals'
    BY <1>7, <2>1 DEF EventsDone, Running, StopWorker
  <2>2. Owners' /\ SoleWorker' /\ Budgets' /\ EventsTrue' /\ Sessions'
    BY <1>7, <2>1, OwnersKept, SoleWorkerKept, EventsKept DEF EventsDone, Running, StopWorker, Owners
  <2>3. Answers' /\ Screens'
    BY <1>7, <2>1, ScreensKept DEF EventsDone, Running, StopWorker, Waiting
  <2> QED BY <2>a, <2>2, <2>3
<1>8. CASE KeyCancel
  <2>1. ThreadsKept /\ HandleKeptOrStopped
    BY <1>8 DEF KeyCancel, ToMenu
  <2>a. Approvals'
    BY <1>8, <2>1 DEF KeyCancel, ToMenu, StopWorker
  <2>2. Owners' /\ SoleWorker' /\ Budgets' /\ EventsTrue' /\ Sessions'
    BY <1>8, <2>1, OwnersKept, SoleWorkerKept, EventsKept DEF KeyCancel, ToMenu, StopWorker, Owners
  <2>3. Answers' /\ Screens'
    BY <1>8, <2>1, ScreensIdle DEF KeyCancel, ToMenu, StopWorker, Waiting
  <2> QED BY <2>a, <2>2, <2>3
<1>9. CASE KeyBack
  <2>1. ThreadsKept /\ HandleKeptOrStopped
    BY <1>9 DEF KeyBack
  <2>a. Approvals'
    BY <1>9, <2>1 DEF KeyBack, StopWorker
  <2>2. Owners' /\ SoleWorker' /\ Budgets' /\ EventsTrue' /\ Sessions'
    BY <1>9, <2>1, OwnersKept, SoleWorkerKept, EventsKept DEF KeyBack, StopWorker, Owners
  <2>3. Answers' /\ Screens'
    BY <1>9, <2>1, ScreensIdle DEF KeyBack, StopWorker, Waiting
  <2> QED BY <2>a, <2>2, <2>3
<1>10. CASE KeyHome
  <2>1. ThreadsKept /\ HandleKeptOrStopped
    BY <1>10 DEF KeyHome
  <2>a. Approvals'
    BY <1>10, <2>1 DEF KeyHome, StopWorker
  <2>2. Owners' /\ SoleWorker' /\ Budgets' /\ EventsTrue' /\ Sessions'
    BY <1>10, <2>1, OwnersKept, SoleWorkerKept, EventsKept DEF KeyHome, StopWorker, Owners
  <2>3. Answers' /\ Screens'
    BY <1>10, <2>1, ScreensIdle DEF KeyHome, StopWorker, Waiting
  <2> QED BY <2>a, <2>2, <2>3
<1>11. CASE ConnectRefused
  <2>1. ThreadsKept /\ HandleKeptOrStopped
    BY <1>11 DEF ConnectRefused, ShowError
  <2>a. Approvals'
    BY <1>11, <2>1 DEF ConnectRefused, ShowError, StopWorker
  <2>2. Owners' /\ SoleWorker' /\ Budgets' /\ EventsTrue' /\ Sessions'
    BY <1>11, <2>1, OwnersKept, SoleWorkerKept, EventsKept DEF ConnectRefused, ShowError, StopWorker, Owners
  <2>3. Answers' /\ Screens'
    BY <1>11, <2>1, ScreensIdle DEF ConnectRefused, ShowError, StopWorker, Waiting
  <2> QED BY <2>a, <2>2, <2>3
<1>12. CASE StartConnect
  <2>1. ThreadsKept /\ UNCHANGED events /\ session_handle' = NoHandle /\ state' = "CONNECTING"
    BY <1>12 DEF StartConnect
  <2>2. gen' = gen + 1 /\ gen' \in Attempts /\ gen \in Nat
    BY <1>12, WorkerAssumption DEF StartConnect, Attempts, TypeOK, AppTypeOK
  <2>3. pc[gen'] = "idle" /\ events[gen'] = <<>>
    BY <2>2 DEF Owners, Attempts
  <2>4. Owners'
    <3>1. \A w \in Attempts : w <= gen => w <= gen'
      BY <2>2 DEF Attempts
    <3>2. \A w \in Attempts : w > gen' => w > gen
      BY <2>2 DEF Attempts
    <3>3. event_queue' = gen' /\ foreground'
      BY <1>12 DEF StartConnect, Running
    <3> QED BY <2>1, <2>2, <2>3, <3>1, <3>2, <3>3 DEF Owners
  <2>5. SoleWorker'
    BY <1>12, <2>1 DEF StartConnect, SoleWorker, stop_session, Alive, Stopped, TypeOK,
       WorkerTypeOK
  <2>6. Budgets' /\ EventsTrue' /\ Sessions'
    BY <2>1, EventsKept
  <2>7. Answers' /\ Screens'
    BY <1>12 DEF StartConnect, Answers, Screens, ScreenMatchesAttempt
  <2>8. Approvals'
    BY <1>12, <2>1 DEF StartConnect
  <2> QED BY <2>4, <2>5, <2>6, <2>7, <2>8
<1>13. CASE KeyEdit
  <2>1. ThreadsKept /\ HandleKeptOrStopped
    BY <1>13 DEF KeyEdit
  <2>a. Approvals'
    BY <1>13, <2>1 DEF KeyEdit, StopWorker
  <2>2. Owners' /\ SoleWorker' /\ Budgets' /\ EventsTrue' /\ Sessions'
    BY <1>13, <2>1, OwnersKept, SoleWorkerKept, EventsKept DEF KeyEdit, StopWorker, Owners
  <2>3. Answers' /\ Screens'
    BY <1>13, <2>1, ScreensIdle DEF KeyEdit, StopWorker, Waiting
  <2> QED BY <2>a, <2>2, <2>3
<1>14. CASE EditDone
  <2>1. ThreadsKept /\ HandleKeptOrStopped
    BY <1>14 DEF EditDone
  <2>a. Approvals'
    BY <1>14, <2>1 DEF EditDone, StopWorker
  <2>2. Owners' /\ SoleWorker' /\ Budgets' /\ EventsTrue' /\ Sessions'
    BY <1>14, <2>1, OwnersKept, SoleWorkerKept, EventsKept DEF EditDone, StopWorker, Owners
  <2>3. Answers' /\ Screens'
    BY <1>14, <2>1, ScreensIdle DEF EditDone, StopWorker, Waiting
  <2> QED BY <2>a, <2>2, <2>3
<1>15. CASE KeyTrust
  <2>1. ThreadsKept /\ UNCHANGED <<running, stop_flag, session_handle, wifi_pending, events>>
    BY <1>15 DEF KeyTrust
  <2>2. Owners' /\ SoleWorker' /\ Budgets' /\ EventsTrue' /\ Sessions'
    <3>1. ~wifi_pending /\ UNCHANGED <<gen, event_queue>>
      BY <1>15 DEF KeyTrust, Trust, Owners
    <3> QED BY <2>1, <3>1, OwnersKept, SoleWorkerKept, EventsKept
  <2>3. Answers' /\ Screens'
    BY <1>15, <2>1 DEF KeyTrust, Trust, Running, Answers, Waiting, AnswerIn, Screens,
       ScreenMatchesAttempt
  <2>4. Approvals'
    <3>1. pending_fp # NoFp /\ pending_fp = fp[session_handle] /\ pc[session_handle] \notin Early
      BY <1>15 DEF KeyTrust, Trust, Screens, ScreenMatchesAttempt
    <3> QED BY <1>15, <2>1, <3>1 DEF KeyTrust, Trust, TypeOK, WorkerTypeOK, AppTypeOK
  <2> QED BY <2>2, <2>3, <2>4
<1>16. CASE KeyTrustThenCancel
  <2>1. ThreadsKept /\ UNCHANGED <<events, gen, event_queue>> /\ ~wifi_pending'
    BY <1>16 DEF KeyTrustThenCancel
  <2>2. Owners' /\ Budgets' /\ EventsTrue' /\ Sessions'
    <3>1. session_handle' = NoHandle
      BY <1>16 DEF KeyTrustThenCancel
    <3> QED BY <2>1, <3>1, EventsKept DEF Owners
  <2>3. SoleWorker'
    BY <1>16, <2>1 DEF KeyTrustThenCancel, SoleWorker, stop_session, Alive, Stopped,
       TypeOK, WorkerTypeOK
  <2>4. Answers' /\ Screens'
    BY <1>16, ScreensIdle DEF KeyTrustThenCancel, Waiting
  <2>5. Approvals'
    <3>1. pending_fp # NoFp /\ pending_fp = fp[session_handle] /\ pc[session_handle] \notin Early
      BY <1>16 DEF KeyTrustThenCancel, Trust, Screens, ScreenMatchesAttempt
    <3> QED BY <1>16, <2>1, <3>1 DEF KeyTrustThenCancel, Trust, TypeOK, WorkerTypeOK, AppTypeOK
  <2> QED BY <2>2, <2>3, <2>4, <2>5
<1>17. CASE NoKey
  <2>1. ThreadsKept /\ HandleKeptOrStopped
    BY <1>17 DEF NoKey, Running
  <2>a. Approvals'
    BY <1>17, <2>1 DEF NoKey, Running, StopWorker
  <2>2. Owners' /\ SoleWorker' /\ Budgets' /\ EventsTrue' /\ Sessions'
    BY <1>17, <2>1, OwnersKept, SoleWorkerKept, EventsKept DEF NoKey, Running, StopWorker, Owners
  <2>3. Answers' /\ Screens'
    BY <1>17, <2>1, ScreensKept DEF NoKey, Running, StopWorker, Waiting
  <2> QED BY <2>a, <2>2, <2>3
<1>18. CASE PollRunning
  <2>1. ThreadsKept /\ HandleKeptOrStopped
    BY <1>18 DEF PollRunning, Polling, Running
  <2>a. Approvals'
    BY <1>18, <2>1 DEF PollRunning, Polling, Running, StopWorker
  <2>2. Owners' /\ SoleWorker' /\ Budgets' /\ EventsTrue' /\ Sessions'
    BY <1>18, <2>1, OwnersKept, SoleWorkerKept, EventsKept DEF PollRunning, Polling, Running, StopWorker, Owners
  <2>3. Answers' /\ Screens'
    BY <1>18, <2>1, ScreensKept DEF PollRunning, Polling, Running, StopWorker, Waiting
  <2> QED BY <2>a, <2>2, <2>3
<1>19. CASE PollFail
  <2>1. ThreadsKept /\ HandleKeptOrStopped
    BY <1>19 DEF PollFail, ShowError, Polling, Running
  <2>a. Approvals'
    BY <1>19, <2>1 DEF PollFail, ShowError, Polling, Running, StopWorker
  <2>2. Owners' /\ SoleWorker' /\ Budgets' /\ EventsTrue' /\ Sessions'
    BY <1>19, <2>1, OwnersKept, SoleWorkerKept, EventsKept DEF PollFail, ShowError, Polling, Running, StopWorker, Owners
  <2>3. Answers' /\ Screens'
    BY <1>19, <2>1, ScreensIdle DEF PollFail, ShowError, Polling, Running, StopWorker, Waiting
  <2> QED BY <2>a, <2>2, <2>3
<1>20. CASE PollOk
  <2>1. /\ gen \in Attempts /\ pc[gen] = "idle" /\ events[gen] = <<>> /\ event_queue = gen
        /\ session_handle = NoHandle /\ firmware # "nothread" /\ state = "CONNECTING"
    BY <1>20 DEF PollOk, Polling, Owners
  <2>2. /\ pc' = [pc EXCEPT ![gen] = "wifi"]
        /\ worker_queue' = [worker_queue EXCEPT ![gen] = gen]
        /\ session_handle' = gen /\ ~wifi_pending'
        /\ UNCHANGED <<firmware, events, fp, sess_open, state, gen, event_queue, approved>>
    BY <1>20, <2>1 DEF PollOk, start_session
  <2>3. Owners'
    BY <2>1, <2>2 DEF Owners, TypeOK, WorkerTypeOK, Attempts
  <2>4. SoleWorker'
    <3>2. running' = [running EXCEPT ![gen] = TRUE]
          /\ stop_flag' = [stop_flag EXCEPT ![gen] = FALSE]
      BY <1>20 DEF PollOk, start_session
    <3>3. NoHandle \notin Attempts
      BY DEF NoHandle, Attempts
    <3>4. \A w \in Attempts : w # gen => ~(Alive(w) /\ ~Stopped(w))
      BY <2>1, <3>3 DEF SoleWorker
    <3> QED BY <2>2, <3>2, <3>4 DEF SoleWorker, Alive, Stopped, TypeOK, WorkerTypeOK
  <2>5. Budgets'
    BY <2>1, <2>2, EmptySeq DEF Budgets, Budget, TypeOK, WorkerTypeOK
  <2>6. EventsTrue'
    BY <2>1, <2>2, EmptySeq DEF EventsTrue, TypeOK, WorkerTypeOK
  <2>7. Answers'
    BY <2>1, <2>2, EmptySeq DEF Answers, AnswerIn, Answered, Late, TypeOK, WorkerTypeOK,
       Attempts, NoHandle
  <2>8. Screens'
    BY <2>1, <2>2 DEF Screens, ScreenMatchesAttempt
  <2>9. Approvals'
    BY <1>20, <2>1, <2>2 DEF PollOk, start_session, Early, TypeOK, WorkerTypeOK
  <2>10. Sessions'
    BY <2>1, <2>2 DEF Sessions, TypeOK, WorkerTypeOK
  <2> QED BY <2>3, <2>4, <2>5, <2>6, <2>7, <2>8, <2>9, <2>10
<1>21. CASE PollNoThread
  <2>1. ThreadsKept /\ HandleKeptOrStopped /\ session_handle' = NoHandle /\ ~wifi_pending'
        /\ state' = "ERROR" /\ UNCHANGED <<gen, event_queue>>
    BY <1>21 DEF PollNoThread, ShowError, StopWorker
  <2>2. gen \in Attempts /\ events[gen] = <<>> /\ event_queue = gen /\ pc[gen] = "idle"
    BY <1>21 DEF PollNoThread, Polling, Owners
  <2>3. events' = [events EXCEPT ![gen] = <<Ev("error")>>]
    <3>1. <<>> \in Seq(Events) /\ <<Ev("error")>> \in Seq(Events) /\ Len(<<>>) = 0
          /\ Len(<<Ev("error")>>) = 1
      BY Single, EmptySeq DEF Kinds
    <3>2. <<>> \o <<Ev("error")>> = <<Ev("error")>>
      BY <3>1, ConcatEmptySeq
    <3>3. PushAll(<<>>, <<Ev("error")>>, EventCap) = <<Ev("error")>>
      <4>1. EventCap \in Nat /\ Len(<<>>) + Len(<<Ev("error")>>) <= EventCap
        BY <3>1, WorkerAssumption
      <4> QED BY <3>1, <3>2, <4>1 DEF PushAll
    <3> QED BY <1>21, <2>2, <3>3 DEF PollNoThread
  <2>4. Attempts \subseteq Queues /\ 0 \in Queues /\ 0 \notin Attempts
    BY WorkerAssumption DEF Attempts, Queues
  <2>5. Owners'
    <3>1. events'[0] = events[0] /\ \A w \in Attempts : w > gen => events'[w] = events[w]
      BY <2>2, <2>3, <2>4 DEF TypeOK, WorkerTypeOK, Attempts
    <3> QED BY <2>1, <3>1 DEF Owners
  <2>6. SoleWorker'
    BY <2>1, SoleWorkerKept
  <2>7. Len(events'[gen]) = 1 /\ events'[gen][1].kind = "error"
        /\ \A w \in Attempts : w # gen => events'[w] = events[w]
    BY <2>2, <2>3, <2>4, Single DEF TypeOK, WorkerTypeOK, Kinds
  <2>8. Budgets'
    <3>1. ASSUME NEW w \in Attempts PROVE Len(events'[w]) <= Budget(pc'[w])
      <4>1. pc'[w] = pc[w]
        BY <2>1
      <4>2. CASE w = gen
        <5>1. Len(events'[w]) = 1 /\ pc'[w] = "idle"
          BY <2>2, <2>7, <4>1, <4>2
        <5> QED BY <5>1 DEF Budget
      <4>3. CASE w # gen
        <5>1. Len(events[w]) <= Budget(pc[w]) /\ events'[w] = events[w]
          BY <2>7, <4>3 DEF Budgets
        <5> QED BY <4>1, <5>1 DEF Budget
      <4> QED BY <4>2, <4>3
    <3> QED BY <3>1 DEF Budgets
  <2>9. EventsTrue'
    BY <2>1, <2>7 DEF EventsTrue, ScreenKinds
  <2>10. Answers' /\ Screens'
    BY <2>1, ScreensIdle DEF Waiting
  <2>11. Approvals' /\ Sessions'
    BY <1>21, <2>1 DEF Sessions, PollNoThread, ShowError, StopWorker
  <2> QED BY <2>5, <2>6, <2>8, <2>9, <2>10, <2>11
<1>22. CASE PollRaises
  <2>1. ThreadsKept /\ UNCHANGED <<running, stop_flag, trusted, session_handle, events, state,
                                   gen, event_queue, pending_fp, approved>>
        /\ ~wifi_pending' /\ phase' = "raised"
    BY <1>22 DEF PollRaises
  <2>2. Owners' /\ Budgets' /\ EventsTrue' /\ Sessions' /\ Approvals'
    BY <2>1, EventsKept DEF Owners
  <2>3. SoleWorker'
    BY <2>1 DEF SoleWorker, Alive, Stopped
  <2>4. Answers' /\ Screens'
    BY <2>1 DEF Answers, Screens, ScreenMatchesAttempt
  <2> QED BY <2>2, <2>3, <2>4
<1>23. CASE PollConnectRaises
  <2>1. ThreadsKept /\ HandleKeptOrStopped
    BY <1>23 DEF PollConnectRaises, Polling, Running
  <2>a. Approvals'
    BY <1>23, <2>1 DEF PollConnectRaises, Polling, Running, StopWorker
  <2>2. Owners' /\ SoleWorker' /\ Budgets' /\ EventsTrue' /\ Sessions'
    BY <1>23, <2>1, OwnersKept, SoleWorkerKept, EventsKept DEF PollConnectRaises, Polling, Running, StopWorker, Owners
  <2>3. Answers' /\ Screens'
    BY <1>23, <2>1, ScreensKept DEF PollConnectRaises, Polling, Running, StopWorker, Waiting
  <2> QED BY <2>a, <2>2, <2>3
<1>24. CASE SwitchToForeground
  <2>1. ThreadsKept /\ HandleKeptOrStopped
    BY <1>24 DEF SwitchToForeground
  <2>a. Approvals'
    BY <1>24, <2>1 DEF SwitchToForeground, StopWorker
  <2>2. Owners' /\ SoleWorker' /\ Budgets' /\ EventsTrue' /\ Sessions'
    BY <1>24, <2>1, OwnersKept, SoleWorkerKept, EventsKept DEF SwitchToForeground, StopWorker, Owners
  <2>3. Answers' /\ Screens'
    BY <1>24, <2>1, ScreensIdle DEF SwitchToForeground, StopWorker, Waiting
  <2> QED BY <2>a, <2>2, <2>3
<1>25. CASE WifiTimeout
  <2>1. ThreadsKept /\ HandleKeptOrStopped
    BY <1>25 DEF WifiTimeout
  <2>a. Approvals'
    BY <1>25, <2>1 DEF WifiTimeout, StopWorker
  <2>2. Owners' /\ SoleWorker' /\ Budgets' /\ EventsTrue' /\ Sessions'
    BY <1>25, <2>1, OwnersKept, SoleWorkerKept, EventsKept DEF WifiTimeout
  <2>3. Answers' /\ Screens'
    BY <1>25, <2>1, ScreensKept DEF WifiTimeout
  <2> QED BY <2>a, <2>2, <2>3
<1> QED BY <1>1, <1>2, <1>3, <1>4, <1>5, <1>6, <1>7, <1>8, <1>9, <1>10, <1>11, <1>12,
           <1>13, <1>14, <1>15, <1>16, <1>17, <1>18, <1>19, <1>20, <1>21, <1>22, <1>23,
           <1>24, <1>25
        DEF App, run_foreground, ProcessEvent, UserKey, PollWifi

-----------------------------------------------------------------------------
(* The theorems.                                                           *)

\* A step that changes nothing keeps the invariant.
LEMMA StutterInv == IndInv /\ UNCHANGED vars => IndInv'
<1> SUFFICES ASSUME IndInv, UNCHANGED vars PROVE IndInv'
  OBVIOUS
<1> USE DEF IndInv, vars, workerVars, appVars, handleVars, threadVars, localVars
<1>1. TypeOK'
  BY DEF TypeOK, WorkerTypeOK, AppTypeOK
<1>2. Owners' /\ SoleWorker'
  BY DEF Owners, SoleWorker, Alive, Stopped
<1>3. Budgets' /\ EventsTrue'
  BY DEF Budgets, EventsTrue
<1>4. Answers'
  BY DEF Answers, AnswerIn, Waiting
<1>5. Screens'
  BY DEF Screens, ScreenMatchesAttempt
<1>6. Approvals' /\ Sessions'
  BY DEF Approvals, Sessions
<1> QED BY <1>1, <1>2, <1>3, <1>4, <1>5, <1>6

\* The invariant is inductive, hence true in every behaviour.
THEOREM Invariance == Spec => []IndInv
<1>1. IndInv /\ [Next]_vars => IndInv'
  BY AppInv, WorkerInv, StutterInv DEF Next
<1> QED BY <1>1, InitInv, PTL DEF Spec

\* Every variable keeps its type, whatever the number of attempts.
THEOREM TypeCorrect == Spec => []TypeOK
BY Invariance, PTL DEF IndInv

\* A thread that nobody told to stop is the one whose handle the app holds.
THEOREM NoOrphanThread == Spec => []SoleWorker
BY Invariance, PTL DEF IndInv

\* With a maxlen of at least 13 no event deque ever drops an event.
THEOREM EventsFit == Spec => []NoEventDropped
<1>1. IndInv => NoEventDropped
  <2> SUFFICES ASSUME IndInv, NEW q \in Queues PROVE Len(events[q]) < EventCap
    BY DEF NoEventDropped
  <2>1. EventCap \in Nat /\ EventCap >= 13
    BY WorkerAssumption
  <2>2. CASE q = 0
    BY <2>1, <2>2, EmptySeq DEF IndInv, Owners
  <2>3. CASE q # 0
    <3>1. q \in Attempts
      BY <2>3, WorkerAssumption DEF Queues, Attempts
    <3>2. Len(events[q]) \in Nat
      BY LenProperties DEF IndInv, TypeOK, WorkerTypeOK
    <3>3. Len(events[q]) <= Budget(pc[q]) /\ Budget(pc[q]) \in 0..12
      BY <3>1 DEF IndInv, Budgets, Budget
    <3> QED BY <2>1, <3>2, <3>3
  <2> QED BY <2>2, <2>3
<1> QED BY <1>1, Invariance, PTL

\* The screen tells the truth about the attempt the app controls.
THEOREM ScreensTrue == Spec => []ScreenMatchesAttempt
BY Invariance, PTL DEF IndInv, Screens

\* A waiting app has something left to wait for.
THEOREM WaitingAnswered == Spec => []WaitingHasCause
<1>1. IndInv => WaitingHasCause
  <2> SUFFICES ASSUME IndInv, Waiting, phase # "raised", ~wifi_pending
               PROVE  session_handle # NoHandle
                      /\ (Alive(session_handle) \/ Answer(event_queue))
    BY DEF WaitingHasCause, Waiting
  <2>1. session_handle # NoHandle /\ session_handle = gen /\ event_queue = gen
        /\ pc[gen] # "idle"
    BY DEF IndInv, Answers, Owners
  <2>2. CASE pc[gen] \in Answered
    BY <2>1, <2>2 DEF IndInv, Answers, AnswerIn, Answer, AnswerKinds, ScreenKinds
  <2>3. CASE pc[gen] \notin Answered
    BY <2>1, <2>3 DEF Alive, Answered, Late
  <2> QED BY <2>1, <2>2, <2>3
<1> QED BY <1>1, Invariance, PTL

\* A thread that ended closed its session, or failed to start its reader.
THEOREM SessionsEnd == Spec => []SessionsClosed
<1>1. IndInv => SessionsClosed
  BY DEF IndInv, Sessions, SessionsClosed, Alive
<1> QED BY <1>1, Invariance, PTL

-----------------------------------------------------------------------------
(* SshClient implements HostTrust.                                         *)

Approved == {w \in Attempts : approved[w] # NoFp /\ approved[w] = fp[w]}
Open     == {w \in Attempts : pc[w] \in {"shell", "spawn", "loop", "close_done"}}

\* Initially nothing is approved and nothing is open.
LEMMA TrustInit == Init => TrustSpec!Init
BY DEF Init, WorkerInit, AppInit, TrustSpec!Init, MaybeFp

\* A step of a thread is a step of HostTrust or invisible there.
LEMMA TrustWorker ==
    ASSUME IndInv, NEW w \in Attempts, Worker(w)
    PROVE  TrustSpec!Next \/ UNCHANGED TrustSpec!trustVars
<1> USE DEF IndInv, TypeOK, WorkerTypeOK, handleVars, threadVars, localVars, Goto, Exit
<1>1. UNCHANGED <<approved>> /\ (WorkerStep(w) \/ TrustTimeout(w))
  BY DEF Worker, appVars
<1>a. ASSUME UNCHANGED <<known_hosts, fp>>, Open' = Open
      PROVE  UNCHANGED TrustSpec!trustVars
  BY <1>1, <1>a DEF TrustSpec!trustVars, Open
<1>b. ASSUME UNCHANGED <<known_hosts, fp>>, Open' = Open \ {w}
      PROVE  TrustSpec!Next
  BY <1>1, <1>b DEF TrustSpec!Next, TrustSpec!Close, Open
<1>2. CASE CheckWifi(w)
  BY <1>a, <1>2 DEF CheckWifi, BackendLabel, Open
<1>3. CASE SessionConnect(w)
  BY <1>a, <1>3 DEF SessionConnect, Open
<1>4. CASE ReadFingerprint(w)
  <2>1. PICK f \in MaybeFp : fp' = [fp EXCEPT ![w] = f]
    BY <1>4 DEF ReadFingerprint
  <2>2. /\ UNCHANGED known_hosts /\ pc[w] = "authed"
        /\ fp[w] = NoFp /\ approved[w] = NoFp
        /\ w \notin Open /\ w \notin Approved /\ Open' = Open /\ Approved' = Approved
    BY <1>1, <1>4, <2>1 DEF ReadFingerprint, Approvals, Early, Open, Approved
  <2>3. CASE f = NoFp
    <3>1. fp' = fp
      BY <2>1, <2>2, <2>3
    <3> QED BY <2>2, <3>1, <1>a
  <2>4. CASE f \in Fingerprints
    <3>1. TrustSpec!Present(w)
      BY <2>1, <2>2, <2>4 DEF TrustSpec!Present, Open, Approved
    <3> QED BY <3>1 DEF TrustSpec!Next
  <2> QED BY <2>3, <2>4 DEF MaybeFp
<1>5. CASE CheckKnown(w)
  <2>1. CASE Verified(w)
    <3>1. Open' = Open \cup {w} /\ UNCHANGED <<known_hosts, fp>>
      BY <1>5, <2>1 DEF CheckKnown, Open
    <3>2. TrustSpec!AdmitKnown(w)
      BY <1>1, <2>1, <3>1 DEF TrustSpec!AdmitKnown, Verified, Open
    <3> QED BY <3>2 DEF TrustSpec!Next
  <2>2. CASE ~Verified(w)
    BY <1>a, <1>5, <2>2 DEF CheckKnown, Open
  <2> QED BY <2>1, <2>2
<1>6. CASE WaitTrust(w)
  BY <1>a, <1>6 DEF WaitTrust, Denied, Open
<1>7. CASE AskTrust(w)
  <2>1. CASE trusted[w]
    <3>1. Open' = Open \cup {w} /\ UNCHANGED fp /\ known_hosts' \in {fp[w], known_hosts, NoFp}
      BY <1>7, <2>1 DEF AskTrust, Open
    <3>2. w \in Approved
      BY <1>7, <2>1 DEF AskTrust, Approvals, Approved
    <3>3. TrustSpec!AdmitApproved(w)
      BY <1>1, <3>1, <3>2 DEF TrustSpec!AdmitApproved, Open, Approved
    <3> QED BY <3>3 DEF TrustSpec!Next
  <2>2. CASE ~trusted[w]
    BY <1>a, <1>7, <2>2 DEF AskTrust, Denied, Open
  <2> QED BY <2>1, <2>2
<1>8. CASE OpenShell(w)
  BY <1>a, <1>8 DEF OpenShell, Open
<1>9. CASE SpawnReader(w)
  <2>1. UNCHANGED <<known_hosts, fp>> /\ (Open' = Open \/ Open' = Open \ {w})
    BY <1>9 DEF SpawnReader, Open
  <2> QED BY <2>1, <1>a, <1>b
<1>10. CASE LeaveLoop(w)
  BY <1>a, <1>10 DEF LeaveLoop, Open
<1>11. CASE CloseSession(w)
  <2>1. UNCHANGED <<known_hosts, fp>> /\ Open' = Open \ {w}
    BY <1>11 DEF CloseSession, Open
  <2> QED BY <2>1, <1>b
<1>12. CASE RunProbe(w)
  BY <1>a, <1>12 DEF RunProbe, Open
<1>13. CASE TrustTimeout(w)
  BY <1>a, <1>13 DEF TrustTimeout, Open
<1> QED BY <1>1, <1>2, <1>3, <1>4, <1>5, <1>6, <1>7, <1>8, <1>9, <1>10, <1>11, <1>12,
           <1>13 DEF WorkerStep

\* A step of the app is an approval or invisible there.
LEMMA TrustApp ==
    ASSUME IndInv, App
    PROVE  TrustSpec!Next \/ UNCHANGED TrustSpec!trustVars
<1> USE DEF IndInv, TypeOK, WorkerTypeOK, AppTypeOK, workerVars, handleVars, threadVars,
            localVars, threadKeeps, appKeeps, Frame, Take
<1>1. CASE Trust /\ UNCHANGED <<known_hosts, fp, pc>>
  <2>1. PICK h \in Attempts : h = session_handle
    BY <1>1, WorkerAssumption DEF Trust, NoHandle
  <2>2. /\ fp[h] # NoFp
        /\ approved' = [approved EXCEPT ![h] = fp[h]]
    BY <1>1, <2>1 DEF Trust, Screens, ScreenMatchesAttempt
  <2>3. Approved' = Approved \cup {h} /\ Open' = Open
    BY <1>1, <2>2 DEF Approved, Open
  <2>4. TrustSpec!Approve(h)
    BY <1>1, <2>2, <2>3 DEF TrustSpec!Approve, Approved, Open
  <2> QED BY <2>4 DEF TrustSpec!Next
<1>2. CASE PollOk
  <2>1. gen \in Attempts /\ pc[gen] = "idle" /\ pc' = [pc EXCEPT ![gen] = "wifi"]
        /\ UNCHANGED <<known_hosts, fp, approved>>
    BY <1>2 DEF PollOk, Polling, Owners, start_session
  <2>2. Open' = Open
    BY <2>1 DEF Open
  <2> QED BY <2>1, <2>2 DEF TrustSpec!trustVars, Open
<1>3. CASE UNCHANGED <<known_hosts, fp, pc, approved>>
  BY <1>3 DEF TrustSpec!trustVars
<1>4. CASE ProcessEvent
  BY <1>3, <1>4 DEF ProcessEvent, OnProgress, OnFingerprint, OnSession, OnExec, OnError, OnDone
<1>5. CASE UserKey
  BY <1>1, <1>3, <1>5
     DEF UserKey, KeyCancel, KeyBack, KeyHome, ConnectRefused, StartConnect, KeyEdit,
         EditDone, KeyTrust, KeyTrustThenCancel
<1>6. CASE PollRunning
  BY <1>3, <1>6 DEF PollRunning
<1>8. CASE PollFail
  BY <1>3, <1>8 DEF PollFail
<1>9. CASE PollNoThread
  BY <1>3, <1>9 DEF PollNoThread
<1>10. CASE PollRaises
  BY <1>3, <1>10 DEF PollRaises
<1>11. CASE PollConnectRaises
  BY <1>3, <1>11 DEF PollConnectRaises
<1>7. CASE EventsDone \/ NoKey \/ SwitchToForeground \/ WifiTimeout
  BY <1>3, <1>7 DEF EventsDone, NoKey, SwitchToForeground, WifiTimeout
<1> QED BY <1>2, <1>4, <1>5, <1>6, <1>7, <1>8, <1>9, <1>10, <1>11
        DEF App, run_foreground, PollWifi

\* The connection life cycle implements trust on first use.
THEOREM TrustRefinement == Spec => HostKeysChecked
<1>1. IndInv /\ [Next]_vars => [TrustSpec!Next]_TrustSpec!trustVars
  <2>1. UNCHANGED vars => UNCHANGED TrustSpec!trustVars
    BY DEF vars, workerVars, appVars, threadVars, localVars, TrustSpec!trustVars
  <2> QED BY <2>1, TrustWorker, TrustApp DEF Next
<1> QED BY <1>1, TrustInit, Invariance, PTL DEF Spec, HostKeysChecked, TrustSpec!Spec

=============================================================================
