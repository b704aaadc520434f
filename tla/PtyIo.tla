------------------------------- MODULE PtyIo --------------------------------
(***************************************************************************)
(* The I/O of one PTY session, from the "session" event on: the UI branch  *)
(* of app.py (386-395), the two loops of worker.py (44-69) on two threads, *)
(* and read and write of modssh.c as those loops see them.                 *)
(*                                                                         *)
(* Bytes are numbered in the order they are typed, or put out by the       *)
(* server.  What travels is a run of consecutive bytes: what one key sends *)
(* or one read returns.  Everything is typed in state SESSION; the drawing *)
(* of the terminal is not modelled.                                        *)
(***************************************************************************)
EXTENDS BoundedDeque

CONSTANTS
    KeyLens,    \* how many bytes a key sends: 1, or 3 for an arrow key
    KeyCap,     \* bound: bytes the user types
    OutCap,     \* bound: bytes the server puts out
    ReadMax,    \* what one read asks for (256)
    TxCap,      \* maxlen of tx_queue (64)
    RxCap       \* maxlen of rx_queue (32)

ASSUME PtyAssumption ==
    /\ KeyLens \subseteq Nat \ {0}
    /\ KeyCap \in Nat /\ OutCap \in Nat
    /\ ReadMax \in Nat \ {0} /\ TxCap \in Nat \ {0} /\ RxCap \in Nat \ {0}

Chunks == {c \in [first : Nat \ {0}, last : Nat] : c.first <= c.last}
Run(f, l) == [first |-> f, last |-> l]

VARIABLES
    ui,         \* position in run_foreground; "left" once state is not SESSION
    stopped,    \* stop_flag of the handle, and not running
    channel,    \* g_channel: "open", "closed" by the server, "none" if NULL
    shell,      \* what open_shell did, constant: see Init
    typed,      \* number of bytes typed
    tx_queue,
    writer,     \* position of the loop of _pty_session_loop
    hand,       \* what the writer took off tx_queue and has not written yet
    wire,       \* what the native module accepted
    produced,   \* number of bytes of server output that arrived
    taken,      \* number of bytes read out of the native module
    reader,     \* position of read_loop
    data,       \* local data of read_loop
    rx_queue,
    fed         \* what was fed to the terminal

txVars == <<typed, tx_queue, writer, hand, wire>>
rxVars == <<produced, taken, reader, data, rx_queue, fed>>
vars   == <<ui, stopped, channel, shell, txVars, rxVars>>

\* The worker drops the return code of open_shell.  0: the shell started, and
\* the session no longer blocks.  -4: refused, but the channel stays, on a
\* session that blocks.  Else there is no channel.
Init ==
    /\ ui = "frame"
    /\ stopped = FALSE
    /\ shell \in {"started", "refused", "none"}
    /\ channel = IF shell = "none" THEN "none" ELSE "open"
    /\ typed = 0 /\ tx_queue = <<>> /\ writer = "test" /\ hand = <<>> /\ wire = <<>>
    /\ produced = 0 /\ taken = 0 /\ reader = "test" /\ data = <<>>
    /\ rx_queue = <<>> /\ fed = <<>>

-----------------------------------------------------------------------------
(* The UI: one frame of run_foreground in state SESSION.                   *)

\* No F5.
StartFrame ==
    /\ ui = "frame"
    /\ ui' = "rx"
    /\ UNCHANGED <<stopped, channel, shell, txVars, rxVars>>

\* F5: _stop_worker, and the menu.
Disconnect ==
    /\ ui = "frame"
    /\ ui' = "left"
    /\ stopped' = TRUE
    /\ UNCHANGED <<channel, shell, txVars, rxVars>>

\* Mutant: the newest item is taken.
FeedTerminal_Newest ==
    /\ ui = "rx" /\ rx_queue # <<>>
    /\ fed' = Append(fed, rx_queue[Len(rx_queue)])
    /\ rx_queue' = SubSeq(rx_queue, 1, Len(rx_queue) - 1)
    /\ UNCHANGED <<ui, stopped, channel, shell, txVars, produced, taken, reader, data>>

\* One turn of while self.rx_queue.
FeedTerminal ==
    /\ ui = "rx" /\ rx_queue # <<>>
    /\ fed' = Append(fed, Head(rx_queue))
    /\ rx_queue' = Tail(rx_queue)
    /\ UNCHANGED <<ui, stopped, channel, shell, txVars, produced, taken, reader, data>>

RxDrained ==
    /\ ui = "rx" /\ rx_queue = <<>>
    /\ ui' = "key"
    /\ UNCHANGED <<stopped, channel, shell, txVars, rxVars>>

TypeKey ==
    /\ ui = "key"
    /\ \E n \in KeyLens :
          /\ typed + n <= KeyCap
          /\ typed' = typed + n
          /\ tx_queue' = PushAll(tx_queue, <<Run(typed + 1, typed + n)>>, TxCap)
    /\ ui' = "frame"
    /\ UNCHANGED <<stopped, channel, shell, writer, hand, wire, rxVars>>

NoKey ==
    /\ ui = "key"
    /\ ui' = "frame"
    /\ UNCHANGED <<stopped, channel, shell, txVars, rxVars>>

RunForeground == \/ StartFrame \/ Disconnect \/ FeedTerminal
                 \/ RxDrained \/ TypeKey \/ NoKey

-----------------------------------------------------------------------------
(* The worker thread: drains tx_queue, reading the flags only when it is   *)
(* empty.                                                                  *)

\* Mutant: the loop waits for output first, as a blocking read would.
WriterTest_ReadsFirst ==
    /\ writer = "test"
    /\ stopped \/ produced > 0
    /\ writer' = IF stopped THEN "close" ELSE "drain"
    /\ UNCHANGED <<ui, stopped, channel, shell, typed, tx_queue, hand, wire, rxVars>>

WriterTest ==
    /\ writer = "test"
    /\ writer' = IF stopped THEN "close" ELSE "drain"
    /\ UNCHANGED <<ui, stopped, channel, shell, typed, tx_queue, hand, wire, rxVars>>

WriterTake ==
    /\ writer = "drain" /\ tx_queue # <<>>
    /\ hand' = <<Head(tx_queue)>>
    /\ tx_queue' = Tail(tx_queue)
    /\ writer' = "write"
    /\ UNCHANGED <<ui, stopped, channel, shell, typed, wire, rxVars>>

WriterIdle ==
    /\ writer = "drain" /\ tx_queue = <<>>
    /\ writer' = "test"
    /\ UNCHANGED <<ui, stopped, channel, shell, typed, tx_queue, hand, wire, rxVars>>

\* The native write takes a prefix of what it is given; all is refused
\* without an open channel.
Accepted(c) == IF channel = "open" THEN 0..(c.last - c.first + 1) ELSE {0}

\* Mutant: what was not accepted goes back to the deque.
NativeWrite_Requeue ==
    /\ writer = "write"
    /\ \E n \in Accepted(hand[1]) :
          LET f == hand[1].first  l == hand[1].last IN
          /\ wire' = IF n = 0 THEN wire ELSE Append(wire, Run(f, f + n - 1))
          /\ tx_queue' = IF n = 0 \/ f + n > l THEN tx_queue
                         ELSE PushAll(tx_queue, <<Run(f + n, l)>>, TxCap)
    /\ hand' = <<>>
    /\ writer' = "drain"
    /\ UNCHANGED <<ui, stopped, channel, shell, typed, rxVars>>

\* Mutant: a refused chunk is tried again at once.
NativeWrite_Retry ==
    /\ writer = "write"
    /\ \E n \in Accepted(hand[1]) :
          /\ n > 0
          /\ wire' = Append(wire, Run(hand[1].first, hand[1].first + n - 1))
    /\ hand' = <<>>
    /\ writer' = "drain"
    /\ UNCHANGED <<ui, stopped, channel, shell, typed, tx_queue, rxVars>>

\* session.write: nobody looks at how much was accepted.
NativeWrite ==
    /\ writer = "write"
    /\ \E n \in Accepted(hand[1]) :
          wire' = IF n = 0 THEN wire
                  ELSE Append(wire, Run(hand[1].first, hand[1].first + n - 1))
    /\ hand' = <<>>
    /\ writer' = "drain"
    /\ UNCHANGED <<ui, stopped, channel, shell, typed, tx_queue, rxVars>>

\* session.close after the loop.
CloseChannel ==
    /\ writer = "close"
    /\ writer' = "ended"
    /\ channel' = "none"
    /\ UNCHANGED <<ui, stopped, shell, typed, tx_queue, hand, wire, rxVars>>

Writer == WriterTest \/ WriterTake \/ WriterIdle \/ NativeWrite \/ CloseChannel

-----------------------------------------------------------------------------
(* The reader thread.                                                      *)

ReaderTest ==
    /\ reader = "test"
    /\ reader' = IF stopped THEN "ended" ELSE "read"
    /\ UNCHANGED <<ui, stopped, channel, shell, txVars, produced, taken, data, rx_queue, fed>>

\* What a read may return: output that has arrived; nothing without a
\* channel, and perhaps nothing once the server has closed it.
Readable ==
    LET most == IF produced - taken < ReadMax THEN produced - taken ELSE ReadMax
    IN  IF channel = "none" \/ most = 0 THEN {0}
        ELSE IF channel = "closed" THEN 0..most ELSE 1..most

\* Mutant: the test if data is missing.
NativeRead_KeepEmpty ==
    /\ reader = "read"
    /\ \E n \in Readable :
          /\ taken' = taken + n
          /\ data' = <<Run(taken + 1, taken + n)>>
    /\ reader' = "put"
    /\ UNCHANGED <<ui, stopped, channel, shell, txVars, produced, rx_queue, fed>>

\* Mutant: an empty read is taken for the end of the session.
NativeRead_EndOnEmpty ==
    /\ reader = "read"
    /\ \E n \in Readable :
          /\ taken' = taken + n
          /\ data' = IF n = 0 THEN <<>> ELSE <<Run(taken + 1, taken + n)>>
          /\ reader' = IF n = 0 THEN "ended" ELSE "put"
    /\ UNCHANGED <<ui, stopped, channel, shell, txVars, produced, rx_queue, fed>>

\* session.read and if data.
NativeRead ==
    /\ reader = "read"
    /\ \E n \in Readable :
          /\ taken' = taken + n
          /\ data' = IF n = 0 THEN <<>> ELSE <<Run(taken + 1, taken + n)>>
          /\ reader' = IF n = 0 THEN "test" ELSE "put"
    /\ UNCHANGED <<ui, stopped, channel, shell, txVars, produced, rx_queue, fed>>

\* Mutant: a full deque refuses the new item.
ReaderPut_DropNew ==
    /\ reader = "put"
    /\ rx_queue' = IF Len(rx_queue) < RxCap THEN rx_queue \o data ELSE rx_queue
    /\ data' = <<>>
    /\ reader' = "test"
    /\ UNCHANGED <<ui, stopped, channel, shell, txVars, produced, taken, fed>>

ReaderPut ==
    /\ reader = "put"
    /\ rx_queue' = PushAll(rx_queue, data, RxCap)
    /\ data' = <<>>
    /\ reader' = "test"
    /\ UNCHANGED <<ui, stopped, channel, shell, txVars, produced, taken, fed>>

Reader == ReaderTest \/ NativeRead \/ ReaderPut

-----------------------------------------------------------------------------
(* The server.                                                             *)

Produce ==
    /\ channel = "open" /\ produced < OutCap
    /\ produced' = produced + 1
    /\ UNCHANGED <<ui, stopped, channel, shell, txVars, taken, reader, data, rx_queue, fed>>

HangUp ==
    /\ channel = "open"
    /\ channel' = "closed"
    /\ UNCHANGED <<ui, stopped, shell, txVars, rxVars>>

-----------------------------------------------------------------------------
Next == RunForeground \/ Writer \/ Reader \/ Produce \/ HangUp

Spec == Init /\ [][Next]_vars

\* Where a thread may stay inside the native module: on a session that still
\* blocks, read and write wait for the server while there is a channel, and
\* close sends the server a disconnect.
ReadWaits   == reader = "read" /\ shell = "refused"
WriterWaits == \/ writer = "write" /\ shell = "refused"
               \/ writer = "close" /\ shell # "started"

\* The scheduler runs the UI and both threads.  A call that waits for the
\* server need not return, and nothing is assumed of the server, or of which
\* key is pressed.
FairSpec ==
    /\ Spec
    /\ WF_vars(RunForeground)
    /\ WF_vars(Writer /\ ~WriterWaits)
    /\ WF_vars(Reader /\ ~ReadWaits)

-----------------------------------------------------------------------------
(* Safety.                                                                 *)

\* Types.  A chunk is never empty.
TypeOK ==
    /\ ui \in {"frame", "rx", "key", "left"}
    /\ stopped \in BOOLEAN
    /\ channel \in {"open", "closed", "none"}
    /\ shell \in {"started", "refused", "none"}
    /\ typed \in Nat /\ produced \in Nat /\ taken \in Nat
    /\ writer \in {"test", "drain", "write", "close", "ended"}
    /\ reader \in {"test", "read", "put", "ended"}
    /\ tx_queue \in Seq(Chunks) /\ rx_queue \in Seq(Chunks)
    /\ hand \in Seq(Chunks) /\ Len(hand) = IF writer = "write" THEN 1 ELSE 0
    /\ data \in Seq(Chunks) /\ Len(data) = IF reader = "put" THEN 1 ELSE 0
    /\ wire \in Seq(Chunks) /\ fed \in Seq(Chunks)

TxPipe == INSTANCE LossyPipe WITH sent <- typed, delivered <- wire
RxPipe == INSTANCE LossyPipe WITH sent <- produced, delivered <- fed

\* Keys reach the server in the order they were typed, each byte at most
\* once, whatever is dropped or refused on the way (worker.py 66-68).
KeysPiped == TxPipe!Spec

\* The terminal is fed the output in order, each byte at most once
\* (worker.py 53-57, app.py 387-388).
OutputPiped == RxPipe!Spec

\* The items of q are consecutive and end at byte n.
Consecutive(q, n) ==
    /\ \A i \in 1..Len(q) - 1 : q[i + 1].first = q[i].last + 1
    /\ q # <<>> => q[Len(q)].last = n

\* How much of the output has got as far as rx_queue.
Put == IF data = <<>> THEN taken ELSE data[1].first - 1

\* What a full deque costs is the oldest data only: what waits is always the
\* newest, without a hole, and once the UI has caught up the last byte read
\* is on the screen (app.py 46-47).
NewestKept ==
    /\ Consecutive(tx_queue, typed)
    /\ Consecutive(rx_queue, Put)
    /\ data # <<>> => data[1].last = taken
    /\ rx_queue = <<>> /\ data = <<>> /\ taken > 0 =>
           fed # <<>> /\ fed[Len(fed)].last = taken

-----------------------------------------------------------------------------
(* Liveness, under FairSpec.                                               *)

\* Output that has arrived is shown, or newer output is, as long as the
\* session stays and its shell has started (app.py 387, worker.py 53).
OutputShown ==
    \A n \in 1..OutCap :
        produced >= n ~> \/ fed # <<>> /\ fed[Len(fed)].last >= n
                         \/ channel # "open" \/ ui = "left" \/ ReadWaits

\* What is typed leaves tx_queue without waiting for output of the server:
\* the deadlock that led to the two threads (worker.py 47-48).  Only where
\* open_shell was refused can the write itself wait.
KeysLeave ==
    \A n \in 1..KeyCap :
        typed >= n ~> \/ \A i \in 1..Len(tx_queue) : tx_queue[i].first > n
                      \/ ui = "left" \/ WriterWaits

\* F5 ends both threads and frees the channel, whatever is still queued and
\* whatever a server with a started shell does (worker.py 53, 66).  After an
\* open_shell that failed, a thread may be inside a native call instead.
DisconnectEnds ==
    stopped ~> /\ ReadWaits \/ reader = "ended"
               /\ WriterWaits \/ (writer = "ended" /\ channel = "none")

-----------------------------------------------------------------------------
(* What the repository says and the code does not do.                      *)

\* docs/cursor_1_ssh_client_implementation_pla.md 1213: an empty tx_queue
\* "means PING was sent".
Holds(s, n) == \E i \in 1..Len(s) : s[i].first <= n /\ n <= s[i].last
EmptyMeansSent ==
    channel = "open" /\ tx_queue = <<>> /\ hand = <<>> => \A n \in 1..typed : Holds(wire, n)

=============================================================================
