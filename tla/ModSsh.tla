------------------------------- MODULE ModSsh -------------------------------
(***************************************************************************)
(* micropython-ssh/modssh.c under the threads that call it.  One socket,   *)
(* one session and one channel are C globals; the calls run without the    *)
(* interpreter's lock between MP_THREAD_GIL_EXIT and _ENTER, so what two   *)
(* threads do in there interleaves at every libssh2 call.  An object is    *)
(* named by the attempt whose call created it, 0 is NULL (and no socket).  *)
(* The callers are the worker and the reader thread of each attempt        *)
(* (badge/apps/ssh/worker.py), reduced to the order of their native calls. *)
(* A libssh2 call that talks to the server is two steps, entered and left, *)
(* and may never be left.  What happens after a misuse of a freed object   *)
(* is undefined: the model stops there.                                    *)
(***************************************************************************)
EXTENDS Naturals, FiniteSets

CONSTANT MaxAttempts

ASSUME MaxAttemptsAssumption == MaxAttempts \in Nat \ {0}

Attempts == 1..MaxAttempts
Ids      == 0..MaxAttempts
Kinds    == {"channel", "session", "sock"}
Threads  == Attempts \X {"worker", "reader"}

Worker(a) == <<a, "worker">>
Reader(a) == <<a, "reader">>

VARIABLES
    pc,       \* where each thread is
    at,       \* the resource and the statement ssh_cleanup is at
    held,     \* the objects the libssh2 call a thread is in works on
    life,     \* every object ever made: "none", "live" or "freed"
    g,        \* g_channel, g_session, g_sock
    fp,       \* the session whose key g_fp_hex shows, 0 when empty
    on,       \* the session a channel was opened on
    unblocked, \* the sessions set non-blocking: calls on them may return EAGAIN
    mode,     \* whether an attempt opens a shell or calls ssh.exec
    stopped,  \* stop_session was called for the attempt
    misuse,   \* a call was given, or lost under its feet, a freed object
    overlap,  \* history: two calls that must exclude each other overlapped
    mixed,    \* history: two attempts were under way at once
    sent,     \* history: <<a, s>>, a write of attempt a went to session s
    seen      \* history: the session whose key the attempt was shown

natives == <<life, g, fp, on, unblocked, misuse>>
history == <<sent, seen>>
vars == <<pc, at, held, natives, mode, stopped, overlap, mixed, history>>

Locations ==
    {"off", "start", "up", "trust", "spawn", "loop", "check", "call", "failed",
     "ended", "crashed",
     "c.clean", "c.tcp", "c.init", "c.hs0", "c.hs", "c.hash", "c.auth", "c.fail",
     "s.open0", "s.open", "s.pty0", "s.pty", "s.shell", "w.in0", "w.in", "r.in0", "r.in",
     "k.clean", "x.open0", "x.open", "x.run0", "x.run", "x.clean"}

Cleaning == {"c.clean", "c.fail", "k.clean", "x.clean"}
Shared   == {"w.in0", "w.in", "r.in0", "r.in"}
Over     == {"ended", "crashed"}
Outside  == {"off", "start", "up", "trust", "spawn", "loop", "check", "call", "failed"} \cup Over
Sole     == Locations \ (Outside \cup Shared)

Parts   == {"test", "free", "null"}
FirstAt == [k |-> "channel", part |-> "test"]

\* A connect, open_shell, exec or close next to any other call.
OverlapNow == \E t, u \in Threads : t # u /\ pc[t] \in Sole /\ pc[u] \notin Outside

Underway(a) == \E t \in {Worker(a), Reader(a)} : pc[t] \notin {"off"} \cup Over
MixedNow == \E a, b \in Attempts : a # b /\ Underway(a) /\ Underway(b)

Objects == Kinds \X Ids

ThreadsTypeOK ==
    /\ pc \in [Threads -> Locations]
    /\ at \in [Threads -> [k : Kinds \cup {"fp"}, part : Parts]]
    /\ held \in [Threads -> SUBSET Objects]

NativesTypeOK ==
    /\ life \in [Kinds -> [Ids -> {"none", "live", "freed"}]]
    /\ g \in [Kinds -> Ids]
    /\ fp \in Ids
    /\ on \in [Ids -> Ids]
    /\ unblocked \subseteq Ids
    /\ misuse \in BOOLEAN

HistoryTypeOK == sent \subseteq Attempts \X Ids /\ seen \in [Attempts -> Ids]

TypeOK ==
    /\ ThreadsTypeOK /\ NativesTypeOK /\ HistoryTypeOK
    /\ mode \in [Attempts -> {"shell", "exec"}]
    /\ stopped \in [Attempts -> BOOLEAN]
    /\ overlap \in BOOLEAN /\ mixed \in BOOLEAN

Init ==
    /\ pc = [t \in Threads |-> "off"]
    /\ at = [t \in Threads |-> FirstAt]
    /\ held = [t \in Threads |-> {}]
    /\ life = [k \in Kinds |-> [i \in Ids |-> "none"]]
    /\ g = [k \in Kinds |-> 0]
    /\ fp = 0
    /\ on = [i \in Ids |-> 0]
    /\ unblocked = {}
    /\ mode \in [Attempts -> {"shell", "exec"}]
    /\ stopped = [a \in Attempts |-> FALSE]
    /\ misuse = FALSE /\ overlap = FALSE /\ mixed = FALSE
    /\ sent = {}
    /\ seen = [a \in Attempts |-> 0]

-----------------------------------------------------------------------------
(* Objects: made, used by a call, freed.                                   *)

Live(o) == o[2] # 0 /\ life[o[1]][o[2]] = "live"

\* A call on a channel also works on the session it was opened on.
Using(k, i) == {<<k, i>>} \cup (IF k = "channel" THEN {<<"session", on[i]>>} ELSE {})

Goto(t, l) == pc' = [pc EXCEPT ![t] = l]

\* Thread t is at l and goes on to m.
Step(t, l, m) == pc[t] = l /\ Goto(t, m)

Enter(t, objs) ==
    /\ held' = [held EXCEPT ![t] = objs]
    /\ misuse' = (misuse \/ \E o \in objs : ~Live(o))

Leave(t) == held' = [held EXCEPT ![t] = {}]

SessionOf(k, i) == IF k = "channel" THEN on[i] ELSE i

\* The object, and with a session the channels that are left on it.
Tree(k, i) == {<<k, i>>} \cup
    (IF k = "session" THEN {o \in {"channel"} \X Ids : Live(o) /\ on[o[2]] = i} ELSE {})

FreeAll(objs) ==
    life' = [k \in Kinds |-> [i \in Ids |-> IF <<k, i>> \in objs THEN "freed" ELSE life[k][i]]]

\* libssh2_channel_free and libssh2_session_free can answer EAGAIN.
CanRefuse(k, i) == k # "sock" /\ SessionOf(k, i) \in unblocked

\* libssh2_channel_free, libssh2_session_free and close.  On a session set
\* non-blocking the first two may return EAGAIN and free nothing; nobody looks
\* at what they return.
Free(t, k, i) ==
    /\ misuse' = (misuse \/ ~Live(<<k, i>>) \/ \E u \in Threads \ {t} : <<k, i>> \in held[u])
    /\ \/ FreeAll(Tree(k, i))
       \/ CanRefuse(k, i) /\ UNCHANGED life

Create(k, i) == life' = [life EXCEPT ![k][i] = "live"]

-----------------------------------------------------------------------------
(* ssh_cleanup, one resource and one statement at a time: test and begin   *)
(* to close it, free what the global names by now, set the global to NULL. *)

\* Mutant: the socket is left open.
After_SockLeft == [channel |-> "session", session |-> "fp", sock |-> "fp"]

After == [channel |-> "session", session |-> "sock", sock |-> "fp"]

ToNext(t) == at' = [at EXCEPT ![t] = [k |-> After[at[t].k], part |-> "test"]]
ToPart(t, p) == at' = [at EXCEPT ![t].part = p]

CleanTest(t) ==
    LET k == at[t].k IN
    /\ pc[t] \in Cleaning /\ k # "fp" /\ at[t].part = "test"
    /\ IF g[k] = 0 THEN ToNext(t) /\ UNCHANGED <<held, misuse>>
       ELSE ToPart(t, "free") /\ Enter(t, IF k = "sock" THEN {} ELSE Using(k, g[k]))
    /\ UNCHANGED <<pc, life, g, fp, on, unblocked, history>>

CleanFree(t) ==
    LET k == at[t].k IN
    /\ pc[t] \in Cleaning /\ at[t].part = "free"
    /\ Free(t, k, g[k])
    /\ Leave(t)
    /\ ToPart(t, "null")
    /\ UNCHANGED <<pc, g, fp, on, unblocked, history>>

\* Mutant: the global keeps the freed object.
CleanNull_Dangling(t) ==
    /\ pc[t] \in Cleaning /\ at[t].part = "null"
    /\ ToNext(t)
    /\ UNCHANGED <<pc, held, life, g, fp, on, unblocked, misuse, history>>

CleanNull(t) ==
    /\ pc[t] \in Cleaning /\ at[t].part = "null"
    /\ g' = [g EXCEPT ![at[t].k] = 0]
    /\ ToNext(t)
    /\ UNCHANGED <<pc, held, life, fp, on, unblocked, misuse, history>>

AfterClean == [l \in Cleaning |-> CASE l = "c.clean" -> "c.tcp"
                                    [] l = "c.fail" -> "failed"
                                    [] OTHER -> "ended"]

\* g_fp_hex[0] = 0, and the call that cleaned up goes on.  A failed connect
\* inside exec cleans up once more.
CleanFp(t) ==
    /\ pc[t] \in Cleaning /\ at[t].k = "fp"
    /\ fp' = 0
    /\ at' = [at EXCEPT ![t] = FirstAt]
    /\ Goto(t, IF pc[t] = "c.fail" /\ mode[t[1]] = "exec" THEN "x.clean" ELSE AfterClean[pc[t]])
    /\ UNCHANGED <<held, life, g, on, unblocked, misuse, history>>

Cleanup(t) == CleanTest(t) \/ CleanFree(t) \/ CleanNull(t) \/ CleanFp(t)

-----------------------------------------------------------------------------
(* ssh_do_connect                                                          *)

\* Mutant: what an earlier attempt left is not cleaned up.
Connect_NoCleanup(a) ==
    /\ Step(Worker(a), "start", "c.tcp")
    /\ UNCHANGED <<at, held, natives, history>>

Connect(a) ==
    /\ Step(Worker(a), "start", "c.clean")
    /\ UNCHANGED <<at, held, natives, history>>

\* g_sock = tcp_connect(host, port), a blocking call; -2 when it fails.  The -1
\* of libssh2_init before it is the same: the cleanup left g_sock at -1.
TcpConnected(a) ==
    /\ Step(Worker(a), "c.tcp", "c.init")
    /\ Create("sock", a)
    /\ g' = [g EXCEPT !["sock"] = a]
    /\ UNCHANGED <<at, held, fp, on, unblocked, misuse, history>>

TcpFailed(a) ==
    /\ Step(Worker(a), "c.tcp", IF mode[a] = "exec" THEN "x.clean" ELSE "failed")
    /\ g' = [g EXCEPT !["sock"] = 0]
    /\ UNCHANGED <<at, held, life, fp, on, unblocked, misuse, history>>

SessionInit(a) ==
    /\ Step(Worker(a), "c.init", "c.hs0")
    /\ Create("session", a)
    /\ g' = [g EXCEPT !["session"] = a]
    /\ UNCHANGED <<at, held, fp, on, unblocked, misuse, history>>

\* libssh2_session_init returned NULL: -3.
SessionInitFailed(a) ==
    /\ Step(Worker(a), "c.init", "c.fail")
    /\ g' = [g EXCEPT !["session"] = 0]
    /\ UNCHANGED <<at, held, life, fp, on, unblocked, misuse, history>>

Handshake(a) ==
    /\ Step(Worker(a), "c.hs0", "c.hs")
    /\ Enter(Worker(a), {<<"session", g["session"]>>, <<"sock", g["sock"]>>})
    /\ UNCHANGED <<at, life, g, fp, on, unblocked, history>>

\* The handshake, or the authentication, answers; on an error: -4, -5 or -6.
HandshakeDone(a) ==
    /\ \E l \in {"c.hash", "c.fail"} : Step(Worker(a), "c.hs", l)
    /\ Leave(Worker(a))
    /\ UNCHANGED <<at, natives, history>>

\* The key of the session the global names by now, then ssh_userauth on it.
HashAndAuth(a) ==
    /\ Step(Worker(a), "c.hash", "c.auth")
    /\ Enter(Worker(a), {<<"session", g["session"]>>})
    /\ fp' \in {fp, g["session"]}
    /\ UNCHANGED <<at, life, g, on, unblocked, history>>

AuthDone(a) ==
    /\ \E l \in {IF mode[a] = "exec" THEN "x.open0" ELSE "up", "c.fail"} :
          Step(Worker(a), "c.auth", l)
    /\ Leave(Worker(a))
    /\ UNCHANGED <<at, natives, history>>

-----------------------------------------------------------------------------
(* ssh_get_fingerprint and ssh_open_shell_mp                               *)

GetFingerprint(a) ==
    /\ Step(Worker(a), "up", "trust")
    /\ seen' = [seen EXCEPT ![a] = fp]
    /\ UNCHANGED <<at, held, natives, sent>>

\* With the lock held: without a session the answer is -1, which the worker
\* ignores; a channel that is left is closed and freed.
OpenShell(a) ==
    /\ Step(Worker(a), "trust", IF g["session"] = 0 THEN "spawn" ELSE "s.open0")
    /\ IF g["session"] # 0 /\ g["channel"] # 0
       THEN Free(Worker(a), "channel", g["channel"]) /\ g' = [g EXCEPT !["channel"] = 0]
       ELSE UNCHANGED <<g, life, misuse>>
    /\ UNCHANGED <<at, held, fp, on, unblocked, history>>

\* libssh2_channel_open_session, of open_shell and of exec.
ChannelOpen(a) ==
    /\ Step(Worker(a), "s.open0", "s.open") \/ Step(Worker(a), "x.open0", "x.open")
    /\ Enter(Worker(a), Using("session", g["session"]))
    /\ UNCHANGED <<at, life, g, fp, on, unblocked, history>>

\* exec keeps its channel in a local variable.
ChannelOpened(a) ==
    /\ \/ Step(Worker(a), "s.open", "s.pty0") /\ g' = [g EXCEPT !["channel"] = a]
       \/ Step(Worker(a), "x.open", "x.run0") /\ UNCHANGED g
    /\ Create("channel", a)
    /\ \E s \in Ids : <<"session", s>> \in held[Worker(a)] /\ on' = [on EXCEPT ![a] = s]
    /\ Leave(Worker(a))
    /\ UNCHANGED <<at, fp, unblocked, misuse, history>>

\* NULL: -2, and -6 of exec.
ChannelRefused(a) ==
    /\ \/ Step(Worker(a), "s.open", "spawn") /\ g' = [g EXCEPT !["channel"] = 0]
       \/ Step(Worker(a), "x.open", "x.clean") /\ UNCHANGED g
    /\ Leave(Worker(a))
    /\ UNCHANGED <<at, life, fp, on, unblocked, misuse, history>>

RequestPty(a) ==
    /\ Step(Worker(a), "s.pty0", "s.pty")
    /\ Enter(Worker(a), Using("channel", g["channel"]))
    /\ UNCHANGED <<at, life, g, fp, on, unblocked, history>>

\* Mutant: the channel is forgotten, not freed.
PtyFailed_NoFree(a) ==
    /\ Step(Worker(a), "s.pty", "spawn")
    /\ g' = [g EXCEPT !["channel"] = 0]
    /\ Leave(Worker(a))
    /\ UNCHANGED <<at, life, fp, on, unblocked, misuse, history>>

PtyFailed(a) ==
    /\ Step(Worker(a), "s.pty", "spawn")
    /\ Free(Worker(a), "channel", g["channel"])
    /\ g' = [g EXCEPT !["channel"] = 0]
    /\ Leave(Worker(a))
    /\ UNCHANGED <<at, fp, on, unblocked, history>>

RequestShell(a) ==
    /\ Step(Worker(a), "s.pty", "s.shell")
    /\ Enter(Worker(a), Using("channel", g["channel"]))
    /\ UNCHANGED <<at, life, g, fp, on, unblocked, history>>

\* 0: the session is set non-blocking.
ShellStarted(a) ==
    /\ Step(Worker(a), "s.shell", "spawn")
    /\ misuse' = (misuse \/ ~Live(<<"session", g["session"]>>))
    /\ unblocked' = unblocked \cup {g["session"]}
    /\ Leave(Worker(a))
    /\ UNCHANGED <<at, life, g, fp, on, history>>

\* -4, which the worker ignores too: the channel stays, on a blocking session.
ShellRefused(a) ==
    /\ Step(Worker(a), "s.shell", "spawn")
    /\ Leave(Worker(a))
    /\ UNCHANGED <<at, natives, history>>

-----------------------------------------------------------------------------
(* ssh_exec_mp after the connect: the command runs on the local channel,   *)
(* which is closed and freed; then ssh_cleanup, after a failure too.       *)

ExecRun(a) ==
    /\ Step(Worker(a), "x.run0", "x.run")
    /\ Enter(Worker(a), Using("channel", a))
    /\ UNCHANGED <<at, life, g, fp, on, unblocked, history>>

ExecDone(a) ==
    /\ Step(Worker(a), "x.run", "x.clean")
    /\ Free(Worker(a), "channel", a)
    /\ Leave(Worker(a))
    /\ UNCHANGED <<at, g, fp, on, unblocked, history>>

-----------------------------------------------------------------------------
(* ssh_write_mp and ssh_read_mp: g_channel is tested with the lock held    *)
(* and read again without it.                                              *)

\* A write starts; without a channel it returns 0 and nothing changes.
Write(a) ==
    /\ g["channel"] # 0
    /\ Step(Worker(a), "loop", "w.in0")
    /\ UNCHANGED <<at, held, natives, history>>

\* Without a channel a read returns no bytes.
Read(a) ==
    /\ Step(Reader(a), "call", IF g["channel"] = 0 THEN "check" ELSE "r.in0")
    /\ UNCHANGED <<at, held, natives, history>>

ChannelIo(t) ==
    /\ Step(t, "w.in0", "w.in") \/ Step(t, "r.in0", "r.in")
    /\ Enter(t, Using("channel", g["channel"]))
    /\ UNCHANGED <<at, life, g, fp, on, unblocked, history>>

WriteDone(a) ==
    /\ Step(Worker(a), "w.in", "loop")
    /\ sent' = sent \cup {<<a, o[2]>> : o \in {p \in held[Worker(a)] : p[1] = "session"}}
    /\ Leave(Worker(a))
    /\ UNCHANGED <<at, natives, seen>>

ReadDone(a) ==
    /\ Step(Reader(a), "r.in", "check")
    /\ Leave(Reader(a))
    /\ UNCHANGED <<at, natives, history>>

-----------------------------------------------------------------------------
(* The callers: _worker and _pty_session_loop.  The worker reads its flags *)
(* only between bursts of writes; waiting for trust ends in either way.    *)

Start(a) ==
    /\ \A b \in Attempts : b < a => stopped[b]
    /\ Step(Worker(a), "off", "start")
    /\ UNCHANGED <<at, held, natives, history, stopped>>

\* stop_session
Stop(a) ==
    /\ pc[Worker(a)] # "off" /\ ~stopped[a]
    /\ stopped' = [stopped EXCEPT ![a] = TRUE]
    /\ UNCHANGED <<pc, at, held, natives, history>>

\* The reader thread starts, or start_new_thread raises and nobody closes.
Spawn(a) ==
    /\ pc[Worker(a)] = "spawn"
    /\ \/ pc' = [pc EXCEPT ![Worker(a)] = "loop", ![Reader(a)] = "check"]
       \/ Goto(Worker(a), "crashed")
    /\ UNCHANGED <<at, held, natives, history>>

Close(a) ==
    /\ \/ Step(Worker(a), "failed", "k.clean")
       \/ Step(Worker(a), "trust", "k.clean")
       \/ stopped[a] /\ Step(Worker(a), "loop", "k.clean")
    /\ UNCHANGED <<at, held, natives, history>>

CheckFlags(a) ==
    /\ Step(Reader(a), "check",
            IF stopped[a] \/ pc[Worker(a)] \in Over THEN "ended" ELSE "call")
    /\ UNCHANGED <<at, held, natives, history>>

DoConnect(a) ==
    \/ Connect(a) \/ TcpConnected(a) \/ TcpFailed(a) \/ SessionInit(a) \/ SessionInitFailed(a)
    \/ Handshake(a) \/ HandshakeDone(a) \/ HashAndAuth(a) \/ AuthDone(a)

DoShell(a) ==
    \/ GetFingerprint(a) \/ OpenShell(a) \/ ChannelOpen(a) \/ ChannelOpened(a)
    \/ ChannelRefused(a) \/ RequestPty(a) \/ PtyFailed(a) \/ RequestShell(a)
    \/ ShellStarted(a) \/ ShellRefused(a)
    \/ ExecRun(a) \/ ExecDone(a)

DoIo(a) == Write(a) \/ Read(a) \/ WriteDone(a) \/ ReadDone(a)

Call(a) == DoConnect(a) \/ DoShell(a) \/ DoIo(a) \/ Spawn(a) \/ Close(a) \/ CheckFlags(a)

Next ==
    /\ ~misuse
    /\ \/ \E t \in Threads : (Cleanup(t) \/ ChannelIo(t)) /\ UNCHANGED stopped
       \/ \E a \in Attempts : Call(a) /\ UNCHANGED stopped
       \/ \E a \in Attempts : Start(a) \/ Stop(a)
    /\ overlap' = (overlap \/ OverlapNow')
    /\ mixed' = (mixed \/ MixedNow')
    /\ UNCHANGED mode

Spec == Init /\ [][Next]_vars

-----------------------------------------------------------------------------
(* What the calls promise.                                                 *)

\* No call is given NULL or an object that was freed, and none loses one it
\* works on, unless a connect, open_shell, exec or close overlapped another
\* call: whatever order complete calls come in, and whatever fails inside
\* them, the globals never dangle (modssh.c 57-163, 219-306, 366-390).
NoMisuse == misuse => overlap

Quiet == ~overlap /\ \A t \in Threads : pc[t] \in Outside

\* What the global of a kind names is alive.  Anything else that is alive is a
\* channel or session whose free could be refused: its shell was started.
Owned(k) == \A a \in Attempts :
    /\ g[k] = a => life[k][a] = "live"
    /\ life[k][a] = "live" /\ g[k] # a => CanRefuse(k, a)

\* The session the channel was opened on is the one the global names.
Linked == g["channel"] # 0 => g["session"] = on[g["channel"]] /\ g["session"] # 0

Whole ==
    /\ \A k \in Kinds : Owned(k)
    /\ Linked
    /\ g["session"] = g["sock"]
    /\ fp \in {0, g["session"]}

\* Between calls that did not overlap, the globals name live objects, a
\* channel implies its session and that the session's socket, and g_fp_hex is
\* that session's or empty.  No error path of connect, open_shell and exec
\* loses an object: only the close of a session whose shell was started may
\* lose it and its channel, never the socket (modssh.c 57-73, 121-163, 219-256,
\* 366-390).
GlobalsOwnAll == Quiet => Whole

\* While attempts do not run side by side, the keys typed in one go to its own
\* server and the key shown is its own: worker.py 121-134 pairs the calls of
\* one attempt although nothing in the native module does.
OwnSession ==
    ~mixed => /\ \A p \in sent : p[1] = p[2]
              /\ \A a \in Attempts : seen[a] \in {0, a}

\* An attempt that has ended, after a failed connect, a denied key, a shell or
\* a command, leaves nothing of its own in the globals and no socket, also when
\* others ran in between its calls; it leaves a session or a channel only if a
\* shell was started there and its free refused.  An attempt whose reader thread
\* could not be created has not ended in this sense (worker.py 117-136,
\* modssh.c 57-73, 389).
NothingLeft ==
    ~overlap => \A a \in Attempts : pc[Worker(a)] = "ended" =>
        /\ \A k \in Kinds : g[k] # a /\ (life[k][a] = "live" => CanRefuse(k, a))
        /\ fp # a

=============================================================================
