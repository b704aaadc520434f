# Verification of the badge SSH client

TLA+ models, TLC runs and machine-checked proofs for the SSH client of the
Hackaday Communicator Badge: the MicroPython app under `src/badge/apps/ssh/`,
the WiFi helper `src/badge/hardware/wifi.py` and the native module
`src/micropython-ssh/modssh.c`.  Line numbers below are those of the source
files; `PROJECT.json` maps every definition to its lines.

## 1. The system

| Component | State it keeps | Operations | What makes it correct |
|---|---|---|---|
| **SSH app** (`app.py`, `states.py`) | `_state` (MENU, WIFI, EDIT, CONNECTING, VERIFY, SESSION, EXEC, ERROR), `_session_handle`, `_wifi_pending`, `_ssh_worker_started`, `_pending_fp`, the three deques, configuration | `run_foreground` every 20 ms: `_process_events`, then one key branch; `_start_connect`, `_poll_wifi`, `_start_ssh_worker`, `_stop_worker`, `switch_to_foreground/background` | the screen tells the truth about the attempt the app controls; waiting screens end; a cancel ends the attempt |
| **Session worker** (`worker.py`) | one thread per attempt, its `SessionHandle` (running, stop_flag, trusted), its local session and fingerprint | `start_session`, `stop_session`, `_worker`, `_wait_trust`, `_pty_session_loop` (which starts a second, reader thread) | every way out reports an event and closes the session; the shell opens only on a trusted key |
| **Deques** (`app.py` 46-48, 262-264) | `tx_queue` (64), `rx_queue` (32), `event_queue` (16), drop-oldest | `append`, `popleft`, replaced by new objects at each connect | no event is lost; an attempt only sees its own events |
| **Host key store** (`known_hosts.py`) | text file, one line per host:port | `lookup`, `verify`, `trust` (read all, rewrite all) | trust on first use; other hosts' lines survive a rewrite |
| **Backend wrapper** (`backend.py`) | `Session._open` | `connect`, `open_shell`, `read`, `write`, `close`, `exec_command`, `tcp_banner`, `parse_host_port` | calls reach the native module only in a state that allows them |
| **Native module** (`modssh.c`) | globals `g_sock`, `g_session`, `g_channel`, `g_fp_hex`, shared by all threads; the GIL is released inside the calls | `connect`, `open_shell`, `read`, `write`, `close`, `exec`, `get_fingerprint` | nothing used after it is freed, nothing leaked, a session's data belongs to its attempt |
| **WiFi helper** (`wifi.py`) | `_connecting`, `_attempt`, `_deadline`, `_last_error` | `begin_connect`, `poll_connect`, `_issue_connect`, `_reset_sta` | "ok" only when connected, two attempts, an answer once the deadline has passed |
| **Terminal view** (`terminal.py`, `keymap.py`) | scrollback, partial line, bytes typed and not yet echoed | `note_tx`, `feed`, `visible_lines` | what is typed appears once; bounded memory |
| **Identity** (`identity.py`) | files in `/data` | `resolve_connect_kwargs` | one decision table for key, passphrase, password |
| **Configuration and editors** (`app.py` 54-101, 404-512) | fields, draft text | load, save, edit | what is saved is what is loaded |
| Error texts, app registration, build files, test server, device tests, scripts | - | - | not modelled: wording, construction, tooling |
| Badge framework, MicroPython, libssh2, lwIP | outside the repository | - | modelled only as far as the code relies on it |

**How they interact.**  The badge's scheduler calls `run_foreground` on the UI
thread.  `_start_connect` replaces the three deques and begins to associate
WiFi; once `poll_connect` answers "ok", `start_session` creates a thread and
returns a handle.  The thread and the UI share the deques, the three flags of the
handle and the known_hosts file, with no lock.  Stopping is one-sided:
`stop_session` sets two flags and the UI forgets the handle; the thread notices when
it next reads them, and some of its calls never return as long as the server is
silent.  A new attempt may start meanwhile, so several threads can be alive,
only one of them held by the app.

**What is hard here.**  Stale threads next to the current one; events that
arrive after the state they were meant for is gone; early returns that must all
report; a bounded deque that drops what would end a wait; the user's F1 against
the 120 s timeout and against F5; calls without a timeout; a thread that cannot
be created; one native session shared by everyone.  The `hazards` list of
`PROJECT.json` has them all with their lines and the property that covers each, or why none does:
several of them do go wrong in the code, and the properties then say under which condition they
hold.

## 2. The modules

| Module | Models | Notes |
|---|---|---|
| `BoundedDeque` | `deque([], n).append` | drop-oldest |
| `SshWorker` | `worker.py`, with `known_hosts.verify/trust` and `Session` as it uses them | any number of threads, one action per stretch between two points where the UI can interfere |
| `SshApp` | `app.py`, the screens and the life cycle of an attempt | one action per event kind, key branch and WiFi outcome |
| `SshClient` | UI and threads together | `Init`, `Next`, `Spec`, `FairSpec`, all properties |
| `HostTrust` | what trust on first use promises | the abstract specification `SshClient` is shown to implement |
| `SshClientProofs` | theorems about `SshClient` | section 5 |
| `MCSshClient` | instances for TLC | five configurations |
| `PtyIo` | the I/O of one PTY session: `app.py` 386-395, `worker.py` 44-69, `read` and `write` of `modssh.c` | one action per turn of a loop and per native call |
| `LossyPipe` | what one direction of a session promises | `PtyIo` implements it twice |
| `PtyIoProofs` | theorems about `PtyIo` | section 5 |
| `MCPtyIo` | instances for TLC | two configurations |
| `ModSsh` | `modssh.c` and the order in which `worker.py` calls it | any number of attempts, two threads each |
| `WiFiSta` | `wifi.py` with the app as its caller | one action per outcome of a call |
| `WifiOutcome` | what the app relies on when it polls | `WiFiSta` implements it; `SshApp` uses it |
| `Terminal` | `terminal.py` and what the server may send | characters are classes |
| `KnownHosts` | `known_hosts.py` on the lines of its file | writes that stop anywhere |
| `HostTable` | what the store promises | `KnownHosts` implements it |
| `Identity` | `identity.py` | operators only |
| `ConfigEdit` | configuration, editors and menu keys of `app.py`, `parse_host_port` | memory against file, over power losses |
| `ModSshProofs`, `WiFiStaProofs`, `TerminalProofs`, `KnownHostsProofs`, `ConfigEditProofs` | theorems about these | section 5 |
| `DataInduction` | induction and recursion along a sequence, in the form the provers can use | for `TerminalProofs` |
| `MCModSsh`, `MCWiFiSta`, `MCTerminal`, `MCKnownHosts`, `MCConfigEdit` | instances for TLC | one configuration each |

### SshWorker

`pc[w]` is where the thread of attempt `w` is:

| label | next code | label | next code |
|---|---|---|---|
| `wifi` | `worker.py` 96-108 | `spawn` | `start_new_thread(read_loop)`, 61-64 |
| `connect` | `session.connect`, 109-120 | `loop` | 66-69 |
| `authed` | `session.fingerprint`, 121-124 | `close_done` | `session.close` and `"done"`, 135-136 |
| `trust` | `known_hosts.verify`, 29-32 | `close_failed` | `session.close` on a failure, 117, 128 |
| `wait` | the loop condition, 34 | `exec`, `banner` | the paths without a PTY, 139-167 |
| `ask` | `handle.trusted` and the timeout, 35-41 | `dead` | the thread has ended |
| `shell` | `open_shell`, 130-133 | `crashed` | ended through the `except` clause with the session open |

Consecutive appends to the event deque are one step: the UI can take the first
before the second is appended, but nothing it does then depends on how many are
there, and the actions of the UI that do look (`WaitingHasCause`) are satisfied by
a live thread.  `skip_wifi=False` (90-95) never runs: the app always passes `True`.
`ReadFingerprint` returns any key or none, because `get_fingerprint` reads a global
of the native module; `AskTrust` leaves the old line, the new one or none, because
`known_hosts.trust` swallows an `OSError` after `open(..., "w")` has truncated
the file.  `known_hosts` stands for the lines of the one host:port the user
connects to.  `shell[w]` is the outcome of `open_shell`: started, refused (-4, which leaves a channel on
a session that still blocks) or none.  `InNative` says where a thread may wait for the server: in one of
`NativeLabels`, or in the I/O loop after a refused shell.

What the screen shows as the key of the server is what `get_fingerprint` returned.  While attempts overlap that
global may be another's or empty (`ModSsh`), and `ScreenMatchesAttempt` and `HostKeysChecked` speak of this
local fingerprint; `OwnSession` says when it is the server's own.

### SshApp

`phase` splits `run_foreground`: in `"events"` each `popleft` of
`_process_events` with its handler is a step, `EventsDone` finds the deque empty,
and in `"keys"` one key branch or one WiFi poll ends the frame.  Keys are chosen
freely, so any interleaving of F1, F5, Home and Back with the threads is covered.
`event_queue` says which deque object the app reads (attempt `n` gets deque
`n`; 0 is the one made by `__init__`), so a stale thread keeps appending to a
deque nobody reads, as in the code.  `phase = "raised"`: an exception
(`start_new_thread`, `wlan.active`) left `run_foreground`.  What the framework does
then is outside the repository; the model takes no further step of the app, and
the properties that would need one say so.

Bound names: `MaxAttempts` (how often F1 starts a connection) and `EventCap`
(`maxlen` of the event deque, 16 in the code).

`approved[w]` is a history variable: the key that was on the screen when F1 set
`trusted` of attempt `w`.  It guards nothing.

### HostTrust

The abstract specification has four variables: the recorded key, the key each
attempt presented, the attempts whose key was approved, and the attempts that are
past the check.  `AdmitKnown` and `AdmitApproved` are the only ways in, and only
`AdmitApproved` changes the record.  The mapping (`TrustSpec` in `SshClient`) reads
`approved` from the key the user saw: an attempt counts as approved only if that
key is the very key its server presented, so a fingerprint of one attempt
shown while F1 trusts another would break the refinement.

### PtyIo and LossyPipe

`SshWorker` has one label, `loop`, for the time a session is open; `PtyIo` is what
happens there.  Three actors share the two deques: the UI (`frame`: the F5 test,
`rx`: feeding the terminal until `rx_queue` is empty, `key`: one key), the writer
(`test` the flags, `drain` the deque, `write` one chunk, `close`) and the reader
(`test`, `read`, `put`).  The writer looks at the flags only between two drains, as
the nested loops of `worker.py` 66-69 do.

Bytes are numbered in the order in which they are typed or put out by the server;
a chunk is a run of consecutive numbers.  So "in order", "at most once" and
"without a hole" can be said without any contents, and a chunk that is written only in
part is a shorter run.  The native `write` takes any prefix, or nothing
(`modssh.c` 284-298 returns what `libssh2_channel_write` accepted, 0 for an error);
`_pty_session_loop` drops that number.  The native `read` returns what has arrived, up
to `ReadMax`, and nothing for an error, for end of file or without a channel.  The
server (`Produce`, `HangUp`) is free.

Constants: `KeyLens` (1 byte, 3 for the arrow keys of `keymap.py`), `ReadMax` (256),
`TxCap` and `RxCap` (`maxlen`, 64 and 32); `KeyCap` and `OutCap` bound the input and
the output.  Simplifications: libssh2 keeps part of a packet across two calls and may want the same
buffer again after EAGAIN; here a call just takes a prefix.  A `close` that overtakes a read in progress is in
`ModSsh`, keys in state EXEC are not covered.

`shell` is how `open_shell` ended, which `worker.py` 131 does not look at: `"started"` (0, the session was set
non-blocking), `"refused"` (-4: the shell request failed, the channel stays and the session goes on blocking) or
`"none"` (-1 to -3: no channel).  After -4 the native read and write wait for a server that may stay silent
(`ReadWaits`, `WriterWaits`); so does the disconnect that `close` sends on a session that blocks.

`LossyPipe` has two variables, the number of bytes sent and the runs delivered; a
delivery is any run of sent bytes beyond everything delivered before.  `TxPipe` maps
it to what was typed and what the native module accepted, `RxPipe` to what the server
put out and what was fed to the terminal.

### ModSsh

An object is named by the attempt whose call made it: `life[k][i]` is what became of the
socket, session or channel of attempt `i`, `g[k]` what the global names (0 is NULL, or -1
of `g_sock`), `fp` whose key `g_fp_hex` shows, `on` the session a channel was opened on.
`pc` is where each thread is: `c.*` in `ssh_do_connect`, `s.*` in `open_shell`, `x.*` in
`exec`, `r.*` and `w.*` in `read` and `write`, `k.clean` in `close`; the other labels are
in Python.  A libssh2 call is two steps, `Enter` and `Leave`, with the objects it works on in
`held` meanwhile.  `ssh_cleanup` goes through `at`: channel, session, socket and key, each in
three parts (test and begin to close, free, set to NULL), because the lock is not held.
A free is real or, on a session that was set non-blocking (`unblocked`, `modssh.c` 252), refused: `libssh2_channel_free`
and `libssh2_session_free` may answer EAGAIN, which `modssh.c` 57-66 ignores before it sets the global to NULL
(`CanRefuse`).  A freed session takes the channels left on it along (`Tree`).
`open_shell` closes an old channel with the lock held, in one step.  A failed
`ssh_exec_mp` cleans up twice, as the code does.

The callers are reduced to the order of their calls.  A worker leaves its loop only when it
sees `stopped`, but may write as often as it likes before it looks (`worker.py` 67); waiting
for trust ends in either way; attempt `n + 1` starts only after `n` was stopped, its
thread alive or not.

`misuse` is set by a call that is given NULL or a freed object, or whose object is freed while
it is in there; the model stops then, since what follows is undefined.  NULL counts although
libssh2 answers some such calls with an error.  The histories `overlap` (a connect,
`open_shell`, `exec` or `close` next to any other call) and `mixed` (two attempts under way) say
when the promises end.

What the conditions exclude is possible in the program: F5 while the reader is inside `read`
lets the writer's `close` free the channel under it (`worker.py` 51-69 does not join
the reader); a stale writer writes on the channel of the next attempt; a connect that was
cancelled and answers late replaces the session of the next one; an
empty fingerprint, which a cleanup of another thread can leave, counts as trusted
(`worker.py` 29).  Reader and writer inside one session at once (`Shared`) do not exclude each
other here: libssh2 does not promise that this works, but frees nothing.

### WiFiSta and WifiOutcome

`helper` are the fields of `wifi.py`, `radio` is `network.WLAN`: the network it is on, the one
it was told to join, and its status, which after a `wlan.connect` may still be the old one.
The radio joins, fails and drops networks at any time.  `Second` is the attempt after
`_reset_sta`, whether the poll or an "internal" error asks for it.  `raised` is an OSError that
leaves the helper and `run_foreground` with it.

`WifiOutcome` is the interface: an answer per connect, "running" until it is `settled`.
`SshApp` has just that (`PollRunning`, `PollOk`, `PollFail`, with `wifi_expired` for
`settled`), so the run `wifi` justifies the choice of outcomes the app model makes.  The deadline
alone does not end a connect: a poll that finds a failing status after it begins the retry and
answers "running" once more (`wifi.py` 148-153).

### Terminal

Characters are classes (letters, which also end an escape sequence; a parameter; `[`; line
feed, return, delete, other control, escape), all one byte long.  `stream` is what
the server has sent and no read has returned, each character marked as echo, output or part of
a sequence; `feed` takes any number of them.  The server echoes as a terminal driver does, or
not at all (`SwitchEcho`, a password).  `Pieces` stands for both wrapping loops.
`StripAnsi`, `Match` and `ApplyText` go along the text as the loops of the code do, each a function of
the position (`_strip_ansi`, `feed`, `_apply_text`); `Times` and `Subsequence`, an order-preserving
map of positions, are only there for the properties.  `WireAssumption` says what may be put on the wire: an output is
text or one whole control sequence, `ESC [` to its letter.  Escapes of other kinds, such as `ESC =` or `ESC ( B`, are part
of text: `terminal.py` 16 does not know them, and all but their ESC is drawn.  Any output may be cut by any read; `split` is set
when a read cuts a control sequence, that is when the last character taken belongs to one and does not end it.

### KnownHosts and HostTable

`file` is the text as the lines that `splitlines(True)` makes of it, each a sequence of tokens.  `trust` rewrites
all of it; an `open` that fails leaves the old text (`TrustRefused`), a power loss or `OSError` after it any beginning of
the new one, also with a torn token at its end (`Stubs`, `CutIn`).  Reading an existing file is taken not to fail.  The next new entry continues whatever line is last (`Added`).  `HostTable` says what
this means for a table of keys.  A completed trust sets its entry and keeps the others.  On a file that ends inside a
line (`frayed`) it may be lost, with the entry of that line, and the second one holds.  A write
that is cut may lose any entry.  It may even bring one back: a key whose line was cut after it and then
continued by another host's entry does not verify, and does again when a later write
stops right after it.  What holds is that a key which verifies is the last one whose writing was begun for
that very host (after an `open` that failed the older key goes on verifying, although another was to be trusted);
the histories `asked` and `latest`, the same in both modules, say which that is.

### ConfigEdit and Identity

`cfg` and `wifi` are memory, `saved` and `saved_wifi` the file.  The text box holds what the user
wants when it is closed, one action per key that closes it.  F5 is looked at before any editor sees
it (`app.py` 337), so the F5 branches of both editors (436-445, 492-497) never run and are
not modelled: in an editor F5 is `switch_to_background`.  A host is a record of the user before
"@", the name, the numbers after it, and whether it has blanks in front of the name or at the end: `parse_host_port` strips
them (`backend.py` 26), and a blank behind the last number keeps it from being split off.  `PowerLoss` can come anywhere;
`config.flush` is taken as atomic, its code is not in the repository.  `Identity` is the decision table over files of PEM
blocks, told apart as the headers the code looks for (`Blocks`), and `Connect` applies it to whatever is configured.

## 3. The runs

| Run | Configuration | Shows |
|---|---|---|
| `safety` | 2 attempts, 2 interchangeable keys, `EventCap` 16, symmetry on keys; 4.1 million states | type invariant, five safety invariants, and `HostKeysChecked` (HostTrust) |
| `liveness` | 1 attempt, 1 key; 8 884 states | `AttemptSettles`, `StoppedThreadEnds`, `StaleSessionLeaves` under `FairSpec` |
| `restart` | 2 attempts, violated | the deques are replaced while the stopped thread is alive |
| `cancel` | 1 attempt, violated | an event after F5 moves the user off the menu |
| `shell` | 1 attempt, violated | the session screen although `open_shell` failed |
| `ptyio` | deques of 2, keys of 1 and 3 bytes, 4 bytes typed, 3 put out, reads of up to 2, three exits of `open_shell`; 285 thousand states | both refinements of `LossyPipe`, `NewestKept`, and under `FairSpec` `OutputShown`, `KeysLeave`, `DisconnectEnds` |
| `ptyio_sent` | the same, violated | an empty `tx_queue` although a key was lost |
| `modssh` | 2 attempts, 4 threads, shell or exec; 1.1 million states | `NoMisuse`, `GlobalsOwnAll`, `OwnSession`, `NothingLeft` |
| `wifi` | 2 networks; 3 470 states | type invariant, `FailHasReason`, `OkIsOwn`, the refinement `AnswersOnce`, and `ConnectEnds` under `FairSpec` |
| `terminal` | 3 keys, 1 output, a screen of 2 by 2, 3 lines of scrollback, echo buffer of 2, another escape among the outputs; 239 thousand states | the five properties of the view |
| `config` | a plain host and two with users, numbers and blanks, a port that is no number, passwords set and not, key files of up to two blocks; 564 thousand states | `ConfirmedSurvives`, `OneCredential` |
| `knownhosts` | 2 hosts, 2 keys, 4 calls of `trust`; 53 thousand states | `OneLineEach` and the refinement of `HostTable` |

**Why the bounds are enough.**  Two attempts give every pair of a stale and a
current thread; a third adds no new interaction because stale threads
do not touch each other except through `known_hosts`, and the proofs of section 5
hold for any number anyway.  Two keys make "the wrong key" possible.  `EventCap` is
the code's.  Liveness uses one attempt, which already has the stale thread after a
cancel; with two attempts it holds as well (2.1 million states, three minutes).

For `ptyio`, three chunks are enough to overflow a deque of two, a key of three bytes
can be cut in two places, and a read can return one chunk or two of what the server put
out; larger bounds repeat these cases, and the proofs hold for all of them.

`modssh` has a `CONSTRAINT`, `SomethingToCheck`: once both histories are set every property of
the run holds by its own condition, so nothing is left to check beyond such a state.  Two attempts give a stale and a
current one, with reader and writer; the proofs hold for any number.
`terminal`: three echoes overflow a buffer of two, two columns make a line wrap at
exactly its width, at one more and at neither; with two outputs (3.5 million states) it holds as well.
`knownhosts`: four calls are a cut, a write to the cut file, and the two that follow.
`config` and `wifi` have no bound: all their behaviours are explored.

`CHECK_DEADLOCK FALSE`: after an exception has left `run_foreground` and every
thread has ended, nothing moves; neither does a session of `PtyIo` that was left, a `ModSsh`
whose threads have ended or that was misused, an app that an OSError of `WiFiSta` took down, a
`Terminal` or a `KnownHosts` at its bounds.

**Fairness** (`Fairness` in `SshClient`): weak fairness of `run_foreground` (the
scheduler calls it every 20 ms), of the steps of each thread that need nothing from the
peer (`PromptStep`), and of the two clocks (`TrustTimeout`, `WifiTimeout`).  None is
assumed of keys, of the launcher, or of a thread that is `InNative`: `modssh.c`
sets no timeout on a blocking session, so these calls may never return.  The liveness
properties hence say "or the thread is inside such a call".  `exec` and `connect`
really can hold an attempt for ever, and F5 does not end such a thread.
In `PtyIo` it is weak fairness of the UI and of both loops, but for a thread that waits for the server
(`ReadWaits`, `WriterWaits`): once the shell was started the session is non-blocking (`modssh.c` 252), so
`read` and `write` return; after -4 they need not.  Nothing is
assumed of the server, nor that a write ever accepts a byte.  The liveness properties say "or the thread is
inside such a call".
In `WiFiSta` the UI loop polls every frame and the clock passes the deadline (`FairSpec`);
nothing is assumed of the radio.

## 4. What the properties say

* `SoleWorker`: a live thread not told to stop is the one the app holds.
* `NoEventDropped`: no event deque is ever full.
* `ScreenMatchesAttempt`: the key shown for approval is the key of the attempt that
  F1 would trust; a session screen with a handle belongs to a thread that got there.
* `WaitingHasCause`: CONNECTING and VERIFY always have the WiFi poll, a live thread
  or an unread answer to wait for, so no early return of `_worker` is silent.
* `SessionsClosed`: a thread that ended closed its session, except when the reader
  thread could not be created.
* `HostKeysChecked`: refinement of `HostTrust`.
* `AttemptSettles`, `StoppedThreadEnds`, `StaleSessionLeaves`: liveness.

* `KeysPiped`, `OutputPiped`: each direction of a session is a `LossyPipe`.
* `NewestKept`: what a full deque costs is the oldest data; what waits is a run without a
  hole up to the newest byte, and a drained session shows the last byte that was read.
* `OutputShown`: output that arrived is fed, or newer output is, while the session lasts.
* `KeysLeave`: keys leave `tx_queue` without waiting for output (the deadlock that
  `worker.py` 47-48 describes).
* `DisconnectEnds`: F5 ends both threads and frees the channel, whatever is queued.
  These three hold for a thread that does not wait inside a native call.

* `NoMisuse`, `GlobalsOwnAll`: whatever order complete native calls come in, and whatever fails inside
  them, nothing freed is used; what the globals name is alive and of one session, and nothing else is, but for what the
  close of a started shell could not free.
* `OwnSession`: as long as attempts do not run side by side, keys go to the own server and the key
  shown is its own.
* `NothingLeft`: an attempt that ended, also by a failed connect or a denied key, left no global, no key and no socket, and a
  session or channel only if the free after a started shell was refused.
* `OkIsOwn`, `FailHasReason`, `AnswersOnce`, `ConnectEnds`: a WiFi "ok" is for the network asked for, a
  failure can say why, one answer in bounded time.  The exceptions are in their comments: another network up
  at begin, and one that was up and lost before the first poll.
* `OnlyEchoesSkipped`, `EchoesMatched`, `DrawnOnce`: echo suppression swallows nothing that was not typed, and
  while the server echoes each key as itself every character is drawn once.
* `SequencesHidden`: a control sequence that arrives whole is never drawn, whatever other escapes stand before it.  `EnterKeepsView`: Enter does not move the text.
* `StoreIsTable`, `OneLineEach`: the host key file, over cuts: no second line for a host, and no key that verifies but
  the last one whose writing was begun for it.
* `ConfirmedSurvives`: outside the editors a power loss costs nothing that was confirmed.  Excepted are an editor that was
  left early and a host that is not plain.
* `OneCredential`: never a password next to a key, and in mode pubkey never without saying so.

**Where code and text disagree** (`findings`):

* `restart`: `_stop_worker` only sets flags, so "after worker stop" (`app.py` 261) is
  not a moment at which the thread has stopped.
* `cancel`: after F5 the app reads on in the deque of the attempt it cancelled, and the
  thread's "host key denied", session or result takes the user off the menu.
* `shell`: `open_shell` returns a code that `_worker` drops; the device test
  `tests/repl_ssh_rw_test.py` 52 treats it as a failure.
* `ptyio_sent`: the plan (line 1213) reads an empty `tx_queue` as "sent"; `worker.py` 68
  takes the chunk off the deque first and ignores how much of it was accepted.

**Seen while modelling, without a run of their own:**

* One typed byte that is never echoed as itself (a password, DEL, a control key) stays at the head of the expected
  echoes (`terminal.py` 62-67).  Later echoes are then drawn a second time until a byte that happens to match comes along;
  the overflow at 128 (76-77) does not bring the two back in step.  The plan (`docs/cursor_1_ssh_client_implementation_pla.md`
  1463) says "`feed()` skips it so you don't get doubles".  `DrawnOnce` and `EchoesMatched` therefore have the
  condition `honest`.
* "F5 done" and "F5 save home" (`app.py` 461, 406) do not save the text in the box (`ConfigEdit` above).
* A host typed as `user@name:port` is split only when it is loaded, one number per load, so it changes at the next start.  One
  typed with a blank is used with it until a load strips it (`backend.py` 26, `app.py` 499-512).
* A key file with a private block and an OpenSSH public one is refused, while the hint calls it "OpenSSH private key OK"
  (`identity.py` 27-28, 52-55); one with a private block and `BEGIN PUBLIC KEY` is taken as it is, both blocks.
* The close after a started shell runs on a non-blocking session and ignores what the frees return (`modssh.c` 57-66, 252), so
  a session and its channel can be lost with every shell.
* After -4 of `open_shell` the I/O loop reads and writes on a blocking session: a silent server holds both threads, and F5 does
  not end them (`modssh.c` 249-255, `worker.py` 131).
* When `open(PATH, "w")` fails the key is not recorded and nobody is told (`known_hosts.py` 51-56): an older key for the
  host goes on verifying.
* Escapes other than `ESC [` are drawn but for the ESC (`terminal.py` 16): `ESC ( B` shows as `(B`.
* Escape after the first step of the WiFi editor leaves the new ssid with the old password in memory (`app.py` 418-425), and F1
  connects with that pair; the file never gets it.
* At end of file the reader gets empty reads, so a session that the server closed stays on the screen until F5 (`worker.py` 51-69).
* The result of `exec` is fed to the terminal and cleared by `_build_terminal_screen` right after (`app.py` 225-237, 144).

## 5. The proofs

### `SshClientProofs`

For every `MaxAttempts`, every set of keys and every `EventCap` of at least 13
(`WorkerAssumption`; one attempt posts at most twelve events, the code has 16):

| Theorem | Property |
|---|---|
| `Invariance` | `Spec => []IndInv` |
| `TypeCorrect` | `TypeOK` |
| `NoOrphanThread` | `SoleWorker` |
| `EventsFit` | `NoEventDropped` |
| `ScreensTrue` | `ScreenMatchesAttempt` |
| `WaitingAnswered` | `WaitingHasCause` |
| `SessionsEnd` | `SessionsClosed` |
| `TrustRefinement` | `HostKeysChecked`: `SshClient` implements `HostTrust` |

None of the safety properties is inductive: they speak of the screen, and what the screen
will show is decided by events still in a deque, posted by a thread whose
place matters.  `IndInv` adds what is needed:

* `Owners`: attempts beyond `gen` have not begun, the held handle is the latest
  attempt, it reads the deque the app reads, and a thread posts on its own deque;
* `Budgets`: what a deque holds is at most what its thread can have posted by then
  (this bounds the deque, and makes `append` a concatenation);
* `EventsTrue`: a fingerprint event carries the `fp` of its thread, a session event
  means the thread got that far, `done` that it ended;
* `Answers`: if the app waits, the poll is running or the held thread has
  either not yet answered or its answer is in the deque, before any `done`;
* `Screens`, `Approvals`, `Sessions`: the screen, the history variable and the session
  against the thread's place.

The proof goes by the two sides.  For a thread, `StepMoves` reduces each of its
actions to a move (label, events posted, flags) and `PostEffect` says what a post does
to a deque; `WorkerInv` is then one argument over moves.  For the app, `TakeEffect`,
`TakeKept` and `TakeAnswers` do the same for `popleft`, and `AppInv` has one
step per action.  The refinement is `TrustInit`, `TrustWorker` (one step per thread
action) and `TrustApp`.

### `PtyIoProofs`

For every `TxCap`, `RxCap` and `ReadMax` above 0 and any set of key lengths above 0
(`PtyAssumption`):

| Theorem | Property |
|---|---|
| `PtyTypes` | `TypeOK` |
| `NewestIsKept` | `NewestKept` |
| `KeysArePiped` | `KeysPiped`: the way of the keys implements `LossyPipe` |
| `OutputIsPiped` | `OutputPiped`: the way of the output implements `LossyPipe` |

The invariant is a conjunction of one part per direction, because each step moves data in one of them only.
`TxOK` says that wire, hand and `tx_queue` come one after the other in that order;
`RxOK` says the same of the terminal and `rx_queue`, both up to byte `Put`, where the
chunk in the reader's hand begins.  `PushOne` is the key lemma: after an append the new item
is last and the rest is the old deque without its first `d` items.  `PushKeeps`,
`PopKeeps` and `AppendKeeps` say what that means for the order, and each action that moves
data has one lemma on top of them.

### `ModSshProofs`

For every `MaxAttempts` above 0:

| Theorem | Property |
|---|---|
| `Typed` | `TypeOK` |
| `NoMisuseHolds` | `NoMisuse` |
| `GlobalsOwn` | `GlobalsOwnAll` |
| `NothingIsLeft` | `NothingLeft` |
| `OwnSessionHolds` | `OwnSession` |

`IndInv` has three parts.  `Locals` holds always: which threads can be where, and what they hold there.
`Good` holds while nothing has overlapped: at most one thread is in a call that excludes others, and
`SoleShape` says what the natives look like at each of its places; if there is none, `Whole` says that what
the globals name is alive, and nothing else but what a free could refuse.  A misuse would need an object that is not, hence `NoMisuse`.
Each action has a lemma for `Locals` (`ConnectKept`, `ShellKept`, ...) and one for
`Good` (`ConnectGood`, `ShellGood`, ...); `SoleMove` and `OutMove` are the two ways a thread can move.
`NothingIsLeft` adds `LeftInv`: an attempt that has ended is `Gone`, and no later step names it (`GoneKept`), while
it ends only in the last statement of a cleanup (`MovesWithin`, `CleanFpGone`).
`OwnSessionHolds` adds `OwnInv`.  While attempts have not overlapped, `OwnOf` says of the one whose worker is at
work that from the end of its first cleanup on every global is NULL or its own, that its channel is on its session,
and that the objects a call took along are its own; before that nothing is claimed, because
the globals may still name what another attempt left.

### `WiFiStaProofs`

For every set of networks: `Typed` (`TypeOK`), `FailuresExplained` (`FailHasReason`), `OkForOwnNetwork`
(`OkIsOwn`), `ImplementsOutcome` (`AnswersOnce`).  The invariants relate the radio to the attempt: after the reset of a
retry it is on the right network or on none, before it unless `stray`; and a helper that is not connecting while the
app waits has a reason or was up at begin.  The refinement has one step per action.

### `TerminalProofs`

For every size of the screen, the scrollback and the echo buffer, and any keys and outputs (`TerminalAssumption`,
`WireAssumption`); no bound of the run is used but as the number it is:

| Theorem | Property |
|---|---|
| `TypesHold` | `TypeInv`: what is drawn, expected and on the stream are texts of characters; a return is never among the echoes expected |
| `OnlyEchoesSkippedHolds` | `OnlyEchoesSkipped` |
| `EnterKeepsViewHolds` | `EnterKeepsView` |
| `SequencesHiddenHolds` | `SequencesHidden` |
| `EchoesMatchedHolds` | `EchoesMatched` |
| `DrawnOnceHolds` | `DrawnOnce` |

First come the functions along a text: `ScannerSteps`, `StripSteps`, `MatchSteps` and `ApplySteps` say that each has a
value at every position and which one follows which, by induction over the positions.  Then the invariants:

* `WireInv` is the grammar of the wire: control sequences stand one after the other, whole, and only the first on the stream may have
  lost its beginning to a read (then `split`); an ESC of the text is followed by text that does not open one.  Hence the scanner is inside a sequence exactly where the
  stream is (`ScannerInside`), and what it lets through is the text (`TextIsFed`).
* For `EchoesMatched` the expected echoes are embedded in the stream by an increasing map of positions (`Ahead`).  A chunk
  takes a beginning of the stream and of the echoes (`EchoesTaken`); what is left of the map embeds the rest.
* `Account` is the balance behind `DrawnOnce`, per character: drawn plus on the stream is put out plus typed plus echoes
  still expected (a key is drawn when it is typed and is on the stream again).  `FedOnce` balances one chunk.

### `KnownHostsProofs`

For any hosts and keys and any number of writes:

| Theorem | Property |
|---|---|
| `OneLineEachHolds` | `OneLineEach` |
| `StoreIsTableHolds` | `StoreIsTable`: the file implements `HostTable` |

`StoreInv` says that all lines but the last are ended, that no host has two, and that a line which names a host and
goes on with a key goes on with the `latest` of that host, the last one begun (`Genuine`), whether it verifies or not: this is what a later cut may
uncover.  `Replaced`, `Appended` and `Joined` are the three ways to write an entry, each with what every host then
reads; `CutKeeps` says that a beginning of a text is as good as the text, because what is left of
a line (`StubLine`) is for no other host and shows no other key.  The refinement has one lemma per action (`TableTrust`, `TableCut`).

### `DataInduction`

The induction theorems of the library take the hypothesis as an operator, which the provers cannot instantiate.  Here it is a set
of numbers (`IntervalInduction`, from the least element of a set of naturals) and the step of a recursion a function
(`Recursion`: there is such a function; `SameRun`: only one).  `FlattenSteps` applies them to `FlattenSeq`.

### `ConfigEditProofs`

For any texts, any hosts in the file and any key files (`HostAssumption`, `KeyFilesAssumption`): `Confirmed`
(`ConfirmedSurvives`) and `SingleCredential` (`OneCredential`).  In the editors memory and file may differ, so the
invariant says of each part what may: outside its own editor it is as saved, or abandoned, or, for a host
that is not plain, waiting to be split.  That `Loaded` leaves a plain configuration as it is (`LoadedOK`) is a lemma
about `parse_host_port`.

**Only model-checked:** the liveness properties (`AttemptSettles`, `StoppedThreadEnds`, `StaleSessionLeaves`,
`OutputShown`, `KeysLeave`, `DisconnectEnds`, `ConnectEnds`), because the prover has no `ENABLED`.  Every safety
property and every refinement that a passing run checks is also a theorem.

## 6. What could follow

The parts of the plan are built.  What is left would refine them: text beyond ASCII in `Terminal` (a character cut
by a read), keys in state EXEC, and a third attempt in `modssh`.

## 7. Not modelled

* Texts of messages and screens, the font and page layout, the error table (`errors.py`), registration of the app.
* The blocking `connect` and `disconnect` of `wifi.py` and the WiFi branch of `_worker`, which the app never takes.
* The legacy call signatures of `backend.py` (TypeError fallbacks) and the socket handling of `tcp_banner`, of which only the
  outcome is modelled.
* Argument parsing and buffer sizes of `modssh.c`; libssh2, lwIP and the radio beyond what the code relies on.
* The passphrase of a key, which goes along unchanged; comment lines in the host key file.
* Build and deploy files, the test server and the device tests (read as evidence of intent), and the framework below
  the app.
