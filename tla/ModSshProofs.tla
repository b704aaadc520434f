---------------------------- MODULE ModSshProofs ----------------------------
(* Theorems about ModSsh, for every number of attempts.                    *)
EXTENDS ModSsh, TLAPS

-----------------------------------------------------------------------------
(* Facts about the sets.                                                   *)

LEMMA IdFacts ==
    /\ 0 \in Ids /\ 0 \notin Attempts
    /\ \A a \in Attempts : a \in Ids /\ a # 0
    /\ \A i \in Ids : i = 0 \/ i \in Attempts
  BY MaxAttemptsAssumption DEF Ids, Attempts

LEMMA ThreadFacts ==
    /\ \A a \in Attempts : /\ Worker(a) \in Threads /\ Reader(a) \in Threads
                           /\ Worker(a)[1] = a /\ Reader(a)[1] = a
    /\ \A a, b \in Attempts : Worker(a) # Reader(b)
    /\ \A t \in Threads : t[1] \in Attempts
  BY DEF Threads, Worker, Reader

LEMMA KindFacts ==
    /\ "channel" \in Kinds /\ "session" \in Kinds /\ "sock" \in Kinds
    /\ \A k \in Kinds : k \in {"channel", "session", "sock"}
    /\ "fp" \notin Kinds
  BY DEF Kinds

LEMMA OutsideFacts ==
    /\ "off" \in Outside /\ "start" \in Outside /\ "up" \in Outside /\ "trust" \in Outside
    /\ "spawn" \in Outside /\ "loop" \in Outside /\ "check" \in Outside /\ "call" \in Outside
    /\ "failed" \in Outside /\ "ended" \in Outside /\ "crashed" \in Outside
  BY DEF Outside, Over

LEMMA SharedFacts ==
    "w.in0" \in Shared /\ "w.in" \in Shared /\ "r.in0" \in Shared /\ "r.in" \in Shared
  BY DEF Shared

LEMMA CleaningFacts ==
    /\ "c.clean" \in Cleaning /\ "c.fail" \in Cleaning /\ "k.clean" \in Cleaning
    /\ "x.clean" \in Cleaning
  BY DEF Cleaning

LEMMA Disjoint ==
    /\ \A l \in Outside : l \in Locations /\ l \notin Shared /\ l \notin Sole
    /\ \A l \in Shared : l \in Locations /\ l \notin Outside /\ l \notin Sole
    /\ \A l \in Sole : l \in Locations /\ l \notin Outside /\ l \notin Shared
    /\ \A l \in Locations : l \in Outside \/ l \in Shared \/ l \in Sole
  BY DEF Outside, Over, Shared, Sole, Locations

Connecting == {"c.hs0", "c.hs", "c.hash", "c.auth", "s.open0", "s.open", "x.open0", "x.open"}
Shelling   == {"s.pty0", "s.pty", "s.shell"}
Executing  == {"x.run0", "x.run"}

\* Every place inside connect, open_shell, exec and close.
LEMMA SoleParts == Sole = Cleaning \cup {"c.tcp", "c.init"} \cup Connecting \cup Shelling \cup Executing
  BY DEF Sole, Locations, Outside, Over, Shared, Cleaning, Connecting, Shelling, Executing

LEMMA PartFacts ==
    /\ "c.tcp" \notin Cleaning /\ "c.init" \notin Cleaning
    /\ \A l \in Connecting : l \notin Cleaning /\ l # "c.tcp" /\ l # "c.init"
    /\ \A l \in Shelling : l \notin Cleaning /\ l # "c.tcp" /\ l # "c.init" /\ l \notin Connecting
    /\ \A l \in Executing :
          /\ l \notin Cleaning /\ l # "c.tcp" /\ l # "c.init"
          /\ l \notin Connecting /\ l \notin Shelling
  BY DEF Cleaning, Connecting, Shelling, Executing

LEMMA LocFacts ==
    /\ "off" \in Locations /\ "start" \in Locations /\ "up" \in Locations
    /\ "trust" \in Locations /\ "spawn" \in Locations /\ "loop" \in Locations
    /\ "check" \in Locations /\ "call" \in Locations /\ "failed" \in Locations
    /\ "ended" \in Locations /\ "crashed" \in Locations /\ "c.clean" \in Locations /\ "c.tcp" \in Locations
    /\ "c.init" \in Locations /\ "c.hs0" \in Locations /\ "c.hs" \in Locations
    /\ "c.hash" \in Locations /\ "c.auth" \in Locations /\ "c.fail" \in Locations
    /\ "s.open0" \in Locations /\ "s.open" \in Locations /\ "s.pty0" \in Locations
    /\ "s.pty" \in Locations /\ "s.shell" \in Locations /\ "w.in0" \in Locations
    /\ "w.in" \in Locations /\ "r.in0" \in Locations /\ "r.in" \in Locations
    /\ "k.clean" \in Locations /\ "x.open0" \in Locations /\ "x.open" \in Locations
    /\ "x.run0" \in Locations /\ "x.run" \in Locations /\ "x.clean" \in Locations
  BY DEF Locations

-----------------------------------------------------------------------------
(* Types.                                                                  *)

LEMMA UsingType ==
    ASSUME NativesTypeOK, NEW k \in Kinds, NEW i \in Ids
    PROVE  Using(k, i) \subseteq Objects
  BY KindFacts DEF Using, Objects, NativesTypeOK

LEMMA EnterType ==
    ASSUME ThreadsTypeOK, NativesTypeOK, NEW t \in Threads, NEW objs \in SUBSET Objects, Enter(t, objs)
    PROVE  held' \in [Threads -> SUBSET Objects] /\ misuse' \in BOOLEAN
  BY DEF Enter, ThreadsTypeOK, NativesTypeOK

LEMMA LeaveType ==
    ASSUME ThreadsTypeOK, NEW t \in Threads, Leave(t)
    PROVE  held' \in [Threads -> SUBSET Objects]
  BY DEF Leave, ThreadsTypeOK

LEMMA FreeType ==
    ASSUME NativesTypeOK, NEW t \in Threads, NEW k \in Kinds, NEW i \in Ids, Free(t, k, i)
    PROVE  life' \in [Kinds -> [Ids -> {"none", "live", "freed"}]] /\ misuse' \in BOOLEAN
  <1>1. misuse' \in BOOLEAN
    BY DEF Free, NativesTypeOK
  <1>2. CASE FreeAll(Tree(k, i))
    <2>1. \A j \in Kinds, h \in Ids : life[j][h] \in {"none", "live", "freed"}
      BY DEF NativesTypeOK
    <2> QED BY <1>1, <1>2, <2>1 DEF FreeAll
  <1>3. CASE UNCHANGED life
    BY <1>1, <1>3 DEF NativesTypeOK
  <1> QED BY <1>2, <1>3 DEF Free

LEMMA CreateType ==
    ASSUME NativesTypeOK, NEW k \in Kinds, NEW i \in Ids, Create(k, i)
    PROVE  life' \in [Kinds -> [Ids -> {"none", "live", "freed"}]]
  BY DEF Create, NativesTypeOK

LEMMA GotoType ==
    ASSUME ThreadsTypeOK, NEW t \in Threads, NEW l \in Locations, Goto(t, l)
    PROVE  pc' \in [Threads -> Locations]
  BY DEF Goto, ThreadsTypeOK

LEMMA PlaceType ==
    ASSUME ThreadsTypeOK, NEW t \in Threads
    PROVE  /\ at[t].k \in Kinds \cup {"fp"} /\ at[t].part \in Parts
           /\ ToNext(t) /\ at[t].k \in Kinds => at' \in [Threads -> [k : Kinds \cup {"fp"}, part : Parts]]
           /\ \A p \in Parts : ToPart(t, p) => at' \in [Threads -> [k : Kinds \cup {"fp"}, part : Parts]]
  <1>1. at[t] \in [k : Kinds \cup {"fp"}, part : Parts]
    BY DEF ThreadsTypeOK
  <1>2. "test" \in Parts
    BY DEF Parts
  <1>3. ASSUME ToNext(t), at[t].k \in Kinds PROVE at' \in [Threads -> [k : Kinds \cup {"fp"}, part : Parts]]
    <2>1. After[at[t].k] \in Kinds \cup {"fp"}
      BY <1>3, KindFacts DEF After
    <2> QED BY <1>2, <1>3, <2>1 DEF ToNext, ThreadsTypeOK
  <1>4. ASSUME NEW p \in Parts, ToPart(t, p) PROVE at' \in [Threads -> [k : Kinds \cup {"fp"}, part : Parts]]
    BY <1>1, <1>4 DEF ToPart, ThreadsTypeOK
  <1> QED BY <1>1, <1>3, <1>4


-----------------------------------------------------------------------------
(* The inductive invariant.                                                *)

\* Inside a libssh2 call.
Busy == {"c.hs", "c.auth", "s.open", "x.open", "s.pty", "s.shell", "x.run", "w.in", "r.in"}

\* A thread is at a statement of ssh_cleanup only inside it, and works on
\* objects only inside a call.
LocalInv(t) ==
    /\ pc[t] \notin Cleaning => at[t] = FirstAt
    /\ at[t].k = "fp" => at[t].part = "test"
    /\ held[t] # {} => pc[t] \in Busy \/ (pc[t] \in Cleaning /\ at[t].part = "free")

Spawned == {"loop", "w.in0", "w.in", "k.clean", "ended", "crashed"}

ReaderOff == \A a \in Attempts : pc[Worker(a)] \notin Spawned => pc[Reader(a)] = "off"

Locals == (\A t \in Threads : LocalInv(t)) /\ ReaderOff

\* What is alive of a kind is lost, freed in vain.
Shed(k) == \A a \in Attempts : life[k][a] = "live" => CanRefuse(k, a)

\* In ssh_cleanup: what is behind is gone, what is ahead is whole, and what the
\* thread is at may be freed and still named.
CleanShape(t) ==
    LET k == at[t].k
        part == at[t].part
    IN  /\ \A j \in Kinds : Owned(j) \/ (j = k /\ part = "null")
        /\ part = "null" => Shed(k)
        /\ part = "free" => g[k] # 0
        /\ k # "channel" => g["channel"] = 0
        /\ k \in {"sock", "fp"} => g["session"] = 0
        /\ k = "fp" => g["sock"] = 0
        /\ Linked
        /\ g["session"] \in {0, g["sock"]}

\* exec's channel is alive although no global names it.
ExecShape(a) ==
    /\ Owned("session") /\ Owned("sock")
    /\ g["channel"] = 0 /\ life["channel"][a] = "live"
    /\ \A b \in Attempts \ {a} : life["channel"][b] = "live" => CanRefuse("channel", b)
    /\ g["session"] # 0 /\ g["session"] = g["sock"] /\ on[a] = g["session"]

\* The objects while thread t alone is inside a call that makes or frees them.
SoleShape(t) ==
    /\ pc[t] \in Cleaning => CleanShape(t)
    /\ pc[t] = "c.tcp" => Whole /\ fp = 0 /\ \A k \in Kinds : g[k] = 0
    /\ pc[t] = "c.init" => /\ \A k \in Kinds : Owned(k)
                           /\ g["channel"] = 0 /\ g["session"] = 0 /\ g["sock"] = t[1]
                           /\ fp = 0
    /\ pc[t] \in Connecting => Whole /\ g["channel"] = 0 /\ g["session"] # 0
    /\ pc[t] \in {"s.open", "x.open"} => held[t] = {<<"session", g["session"]>>}
    /\ pc[t] \in Shelling => Whole /\ g["channel"] # 0
    /\ pc[t] \in Executing => ExecShape(t[1])

Good ==
    /\ ~misuse
    /\ (\A t \in Threads : pc[t] \notin Sole) => Whole
    /\ \A t \in Threads : pc[t] \in Sole => SoleShape(t)
    /\ \A t \in Threads : pc[t] \in Shared => g["channel"] # 0

IndInv ==
    /\ TypeOK
    /\ Locals
    /\ OverlapNow => overlap
    /\ ~overlap => Good

LEMMA BusyFacts ==
    /\ "c.hs" \in Busy /\ "c.auth" \in Busy /\ "s.open" \in Busy /\ "x.open" \in Busy
    /\ "s.pty" \in Busy /\ "s.shell" \in Busy /\ "x.run" \in Busy /\ "w.in" \in Busy
    /\ "r.in" \in Busy
    /\ \A l \in Busy : l \notin Cleaning /\ l \notin Outside /\ l \in Locations
    /\ \A l \in Outside : l \notin Cleaning
  BY DEF Busy, Cleaning, Outside, Over, Locations

LEMMA InitInv == Init => IndInv
  <1> SUFFICES ASSUME Init PROVE IndInv
    OBVIOUS
  <1>1. TypeOK
    <2>1. ThreadsTypeOK
      BY LocFacts, KindFacts DEF Init, ThreadsTypeOK, FirstAt, Parts
    <2>2. NativesTypeOK
      BY IdFacts DEF Init, NativesTypeOK
    <2>3. HistoryTypeOK
      BY IdFacts DEF Init, HistoryTypeOK
    <2> QED BY <2>1, <2>2, <2>3 DEF Init, TypeOK
  <1>2. Locals
    BY BusyFacts, OutsideFacts, ThreadFacts DEF Init, Locals, LocalInv, ReaderOff, FirstAt
  <1>3. \A t \in Threads : pc[t] \in Outside
    BY OutsideFacts DEF Init
  <1>4. ~OverlapNow
    BY <1>3, Disjoint DEF OverlapNow
  <1>5. Good
    <2>1. Whole
      BY IdFacts, KindFacts DEF Init, Whole, Owned, CanRefuse, SessionOf, Linked
    <2> QED BY <1>3, <2>1, Disjoint DEF Init, Good
  <1> QED BY <1>1, <1>2, <1>4, <1>5 DEF IndInv

-----------------------------------------------------------------------------
(* One thread moves and the others stay where they are.                    *)

LEMMA Moved ==
    ASSUME ThreadsTypeOK, NEW t \in Threads, NEW l, Goto(t, l)
    PROVE  pc'[t] = l /\ \A u \in Threads : u # t => pc'[u] = pc[u]
  BY DEF Goto, ThreadsTypeOK

\* Whatever a thread does outside ssh_cleanup.
LEMMA MoveLocals ==
    ASSUME ThreadsTypeOK, NativesTypeOK, Locals, NEW t \in Threads, NEW l, NEW m \in Locations,
           Step(t, l, m), l \notin Cleaning, UNCHANGED at,
           \/ l \notin Busy /\ UNCHANGED held
           \/ Leave(t)
           \/ m \in Busy /\ \E objs \in SUBSET Objects : Enter(t, objs),
           l \in Spawned => m \in Spawned,
           l = "off" => \E a \in Attempts : t = Worker(a)
    PROVE  ThreadsTypeOK' /\ Locals'
  <1>1. pc[t] = l /\ pc'[t] = m /\ \A u \in Threads : u # t => pc'[u] = pc[u]
    BY Moved DEF Step
  <1>2. held' \in [Threads -> SUBSET Objects]
    BY LeaveType, EnterType DEF ThreadsTypeOK
  <1>3. \A u \in Threads : u # t => held'[u] = held[u]
    BY DEF Leave, Enter, ThreadsTypeOK
  <1>4. held'[t] = {} \/ m \in Busy
    BY <1>1 DEF Leave, Locals, LocalInv, ThreadsTypeOK
  <1>5. ThreadsTypeOK'
    BY <1>2, GotoType DEF Step, ThreadsTypeOK
  <1>6. ASSUME NEW u \in Threads PROVE LocalInv(u)'
    <2>1. CASE u = t
      <3>1. at[t] = FirstAt
        BY <1>1 DEF Locals, LocalInv
      <3> QED BY <1>1, <1>4, <2>1, <3>1 DEF LocalInv, FirstAt
    <2>2. CASE u # t
      BY <1>1, <1>3, <2>2 DEF Locals, LocalInv
    <2> QED BY <2>1, <2>2
  <1>7. ReaderOff'
    <2> SUFFICES ASSUME NEW a \in Attempts, pc'[Worker(a)] \notin Spawned
                 PROVE  pc'[Reader(a)] = "off"
      BY DEF ReaderOff
    <2>1. pc[Reader(a)] = "off"
      BY <1>1, ThreadFacts DEF Locals, ReaderOff
    <2> QED BY <1>1, <2>1, ThreadFacts
  <1> QED BY <1>5, <1>6, <1>7 DEF Locals

-----------------------------------------------------------------------------
(* Every step of a call keeps the types and what is known of each thread.  *)

\* What a step leaves.
Kept == ThreadsTypeOK' /\ NativesTypeOK' /\ HistoryTypeOK' /\ Locals'

LEMMA PlaceFacts ==
    /\ "off" \notin Spawned /\ "start" \notin Spawned /\ "up" \notin Spawned /\ "trust" \notin Spawned
    /\ "spawn" \notin Spawned /\ "check" \notin Spawned /\ "call" \notin Spawned
    /\ "failed" \notin Spawned /\ "r.in0" \notin Spawned /\ "r.in" \notin Spawned
    /\ "c.clean" \notin Spawned /\ "c.fail" \notin Spawned /\ "x.clean" \notin Spawned
    /\ "c.tcp" \notin Spawned /\ "c.init" \notin Spawned
    /\ \A l \in Connecting \cup Shelling \cup Executing : l \notin Spawned
    /\ "loop" \in Spawned /\ "w.in0" \in Spawned /\ "w.in" \in Spawned
    /\ "k.clean" \in Spawned /\ "ended" \in Spawned /\ "crashed" \in Spawned
  BY DEF Spawned, Connecting, Shelling, Executing

LEMMA IdleFacts ==
    /\ "c.tcp" \notin Busy /\ "c.init" \notin Busy /\ "c.hs0" \notin Busy /\ "c.hash" \notin Busy
    /\ "s.open0" \notin Busy /\ "x.open0" \notin Busy /\ "s.pty0" \notin Busy
    /\ "x.run0" \notin Busy /\ "w.in0" \notin Busy /\ "r.in0" \notin Busy
    /\ "w.in0" \notin Cleaning /\ "r.in0" \notin Cleaning
  BY DEF Busy, Cleaning

LEMMA ConnectingFacts ==
    /\ "c.hs0" \in Connecting /\ "c.hs" \in Connecting /\ "c.hash" \in Connecting
    /\ "c.auth" \in Connecting /\ "s.open0" \in Connecting /\ "s.open" \in Connecting
    /\ "x.open0" \in Connecting /\ "x.open" \in Connecting
    /\ "s.pty0" \in Shelling /\ "s.pty" \in Shelling /\ "s.shell" \in Shelling
    /\ "x.run0" \in Executing /\ "x.run" \in Executing
  BY DEF Connecting, Shelling, Executing

LEMMA ConnectKept ==
    ASSUME TypeOK, Locals, NEW a \in Attempts, DoConnect(a)
    PROVE  Kept
  <1> DEFINE t == Worker(a)
  <1>0. t \in Threads /\ a \in Ids
    BY ThreadFacts, IdFacts
  <1> HIDE DEF t
  <1> USE <1>0, LocFacts, PlaceFacts, IdleFacts, BusyFacts, PartFacts, ConnectingFacts, CleaningFacts,
          OutsideFacts, KindFacts, IdFacts DEF TypeOK
  <1>1. CASE Connect(a)
    <2>1. ThreadsTypeOK' /\ Locals'
      BY <1>1, MoveLocals DEF Connect, t
    <2> QED BY <1>1, <2>1 DEF Connect, natives, history, NativesTypeOK, HistoryTypeOK, Kept
  <1>2. CASE TcpConnected(a)
    <2>1. ThreadsTypeOK' /\ Locals'
      BY <1>2, MoveLocals DEF TcpConnected, t
    <2>2. NativesTypeOK' /\ HistoryTypeOK'
      BY <1>2, CreateType DEF TcpConnected, history, NativesTypeOK, HistoryTypeOK
    <2> QED BY <2>1, <2>2 DEF Kept
  <1>3. CASE TcpFailed(a)
    <2>1. ThreadsTypeOK' /\ Locals'
      BY <1>3, MoveLocals DEF TcpFailed, t
    <2>2. NativesTypeOK' /\ HistoryTypeOK'
      BY <1>3 DEF TcpFailed, history, NativesTypeOK, HistoryTypeOK
    <2> QED BY <2>1, <2>2 DEF Kept
  <1>4. CASE SessionInit(a)
    <2>1. ThreadsTypeOK' /\ Locals'
      BY <1>4, MoveLocals DEF SessionInit, t
    <2>2. NativesTypeOK' /\ HistoryTypeOK'
      BY <1>4, CreateType DEF SessionInit, history, NativesTypeOK, HistoryTypeOK
    <2> QED BY <2>1, <2>2 DEF Kept
  <1>5. CASE SessionInitFailed(a)
    <2>1. ThreadsTypeOK' /\ Locals'
      BY <1>5, MoveLocals DEF SessionInitFailed, t
    <2>2. NativesTypeOK' /\ HistoryTypeOK'
      BY <1>5 DEF SessionInitFailed, history, NativesTypeOK, HistoryTypeOK
    <2> QED BY <2>1, <2>2 DEF Kept
  <1>6. CASE Handshake(a)
    <2>1. {<<"session", g["session"]>>, <<"sock", g["sock"]>>} \in SUBSET Objects
      BY DEF Objects, NativesTypeOK
    <2>2. ThreadsTypeOK' /\ Locals'
      BY <1>6, <2>1, MoveLocals DEF Handshake, t
    <2>3. NativesTypeOK' /\ HistoryTypeOK'
      BY <1>6, <2>1, EnterType DEF Handshake, history, NativesTypeOK, HistoryTypeOK, t
    <2> QED BY <2>2, <2>3 DEF Kept
  <1>7. CASE HandshakeDone(a)
    <2>1. ThreadsTypeOK' /\ Locals'
      BY <1>7, MoveLocals DEF HandshakeDone, t
    <2>2. NativesTypeOK' /\ HistoryTypeOK'
      BY <1>7 DEF HandshakeDone, natives, history, NativesTypeOK, HistoryTypeOK
    <2> QED BY <2>1, <2>2 DEF Kept
  <1>8. CASE HashAndAuth(a)
    <2>1. {<<"session", g["session"]>>} \in SUBSET Objects
      BY DEF Objects, NativesTypeOK
    <2>2. ThreadsTypeOK' /\ Locals'
      BY <1>8, <2>1, MoveLocals DEF HashAndAuth, t
    <2>3. NativesTypeOK' /\ HistoryTypeOK'
      BY <1>8, <2>1, EnterType DEF HashAndAuth, history, NativesTypeOK, HistoryTypeOK, t
    <2> QED BY <2>2, <2>3 DEF Kept
  <1>9. CASE AuthDone(a)
    <2>1. ThreadsTypeOK' /\ Locals'
      BY <1>9, MoveLocals DEF AuthDone, t
    <2>2. NativesTypeOK' /\ HistoryTypeOK'
      BY <1>9 DEF AuthDone, natives, history, NativesTypeOK, HistoryTypeOK
    <2> QED BY <2>1, <2>2 DEF Kept
  <1> QED BY <1>1, <1>2, <1>3, <1>4, <1>5, <1>6, <1>7, <1>8, <1>9 DEF DoConnect

LEMMA ShellKept ==
    ASSUME TypeOK, Locals, NEW a \in Attempts, DoShell(a)
    PROVE  Kept
  <1> DEFINE t == Worker(a)
  <1>0. t \in Threads /\ a \in Ids /\ t[1] = a
    BY ThreadFacts, IdFacts
  <1> HIDE DEF t
  <1> USE <1>0, LocFacts, PlaceFacts, IdleFacts, BusyFacts, PartFacts, ConnectingFacts, CleaningFacts,
          OutsideFacts, KindFacts, IdFacts DEF TypeOK
  <1>a. \A k \in Kinds, i \in Ids : Using(k, i) \in SUBSET Objects
    BY UsingType
  <1>b. g["channel"] \in Ids /\ g["session"] \in Ids
    BY DEF NativesTypeOK
  <1>1. CASE GetFingerprint(a)
    <2>1. ThreadsTypeOK' /\ Locals'
      BY <1>1, MoveLocals DEF GetFingerprint, t
    <2>2. NativesTypeOK' /\ HistoryTypeOK'
      BY <1>1 DEF GetFingerprint, natives, NativesTypeOK, HistoryTypeOK
    <2> QED BY <2>1, <2>2 DEF Kept
  <1>2. CASE OpenShell(a)
    <2>1. ThreadsTypeOK' /\ Locals'
      <3>1. CASE g["session"] = 0
        BY <1>2, <3>1, MoveLocals DEF OpenShell, t
      <3>2. CASE g["session"] # 0
        BY <1>2, <3>2, MoveLocals DEF OpenShell, t
      <3> QED BY <3>1, <3>2
    <2>2. NativesTypeOK' /\ HistoryTypeOK'
      <3>1. CASE g["session"] # 0 /\ g["channel"] # 0
        BY <1>2, <1>b, <3>1, FreeType DEF OpenShell, history, NativesTypeOK, HistoryTypeOK, t
      <3>2. CASE ~(g["session"] # 0 /\ g["channel"] # 0)
        BY <1>2, <3>2 DEF OpenShell, history, NativesTypeOK, HistoryTypeOK
      <3> QED BY <3>1, <3>2
    <2> QED BY <2>1, <2>2 DEF Kept
  <1>3. CASE ChannelOpen(a)
    <2>1. ThreadsTypeOK' /\ Locals'
      BY <1>3, <1>a, <1>b, MoveLocals DEF ChannelOpen, t
    <2>2. NativesTypeOK' /\ HistoryTypeOK'
      BY <1>3, <1>a, <1>b, EnterType DEF ChannelOpen, history, NativesTypeOK, HistoryTypeOK, t
    <2> QED BY <2>1, <2>2 DEF Kept
  <1>4. CASE ChannelOpened(a)
    <2>1. ThreadsTypeOK' /\ Locals'
      BY <1>4, MoveLocals DEF ChannelOpened, t
    <2>2. NativesTypeOK' /\ HistoryTypeOK'
      <3>1. g' \in [Kinds -> Ids]
        BY <1>4 DEF ChannelOpened, NativesTypeOK
      <3>2. on' \in [Ids -> Ids]
        BY <1>4 DEF ChannelOpened, NativesTypeOK
      <3>3. life' \in [Kinds -> [Ids -> {"none", "live", "freed"}]]
        BY <1>4, CreateType DEF ChannelOpened
      <3> QED BY <1>4, <3>1, <3>2, <3>3 DEF ChannelOpened, history, NativesTypeOK, HistoryTypeOK
    <2> QED BY <2>1, <2>2 DEF Kept
  <1>5. CASE ChannelRefused(a)
    <2>1. ThreadsTypeOK' /\ Locals'
      BY <1>5, MoveLocals DEF ChannelRefused, t
    <2>2. NativesTypeOK' /\ HistoryTypeOK'
      <3>1. g' \in [Kinds -> Ids]
        BY <1>5 DEF ChannelRefused, NativesTypeOK
      <3> QED BY <1>5, <3>1 DEF ChannelRefused, history, NativesTypeOK, HistoryTypeOK
    <2> QED BY <2>1, <2>2 DEF Kept
  <1>6. CASE RequestPty(a)
    <2>1. ThreadsTypeOK' /\ Locals'
      BY <1>6, <1>a, <1>b, MoveLocals DEF RequestPty, t
    <2>2. NativesTypeOK' /\ HistoryTypeOK'
      BY <1>6, <1>a, <1>b, EnterType DEF RequestPty, history, NativesTypeOK, HistoryTypeOK, t
    <2> QED BY <2>1, <2>2 DEF Kept
  <1>7. CASE PtyFailed(a)
    <2>1. ThreadsTypeOK' /\ Locals'
      BY <1>7, MoveLocals DEF PtyFailed, t
    <2>2. NativesTypeOK' /\ HistoryTypeOK'
      BY <1>7, <1>b, FreeType DEF PtyFailed, history, NativesTypeOK, HistoryTypeOK, t
    <2> QED BY <2>1, <2>2 DEF Kept
  <1>8. CASE RequestShell(a)
    <2>1. ThreadsTypeOK' /\ Locals'
      BY <1>8, <1>a, <1>b, MoveLocals DEF RequestShell, t
    <2>2. NativesTypeOK' /\ HistoryTypeOK'
      BY <1>8, <1>a, <1>b, EnterType DEF RequestShell, history, NativesTypeOK, HistoryTypeOK, t
    <2> QED BY <2>1, <2>2 DEF Kept
  <1>9. CASE ShellStarted(a)
    <2>1. ThreadsTypeOK' /\ Locals'
      BY <1>9, MoveLocals DEF ShellStarted, t
    <2>2. NativesTypeOK' /\ HistoryTypeOK'
      BY <1>9, <1>b DEF ShellStarted, history, NativesTypeOK, HistoryTypeOK
    <2> QED BY <2>1, <2>2 DEF Kept
  <1>12. CASE ShellRefused(a)
    <2>1. ThreadsTypeOK' /\ Locals'
      BY <1>12, MoveLocals DEF ShellRefused, t
    <2>2. NativesTypeOK' /\ HistoryTypeOK'
      BY <1>12 DEF ShellRefused, natives, history, NativesTypeOK, HistoryTypeOK
    <2> QED BY <2>1, <2>2 DEF Kept
  <1>10. CASE ExecRun(a)
    <2>1. ThreadsTypeOK' /\ Locals'
      BY <1>10, <1>a, MoveLocals DEF ExecRun, t
    <2>2. NativesTypeOK' /\ HistoryTypeOK'
      BY <1>10, <1>a, EnterType DEF ExecRun, history, NativesTypeOK, HistoryTypeOK, t
    <2> QED BY <2>1, <2>2 DEF Kept
  <1>11. CASE ExecDone(a)
    <2>1. ThreadsTypeOK' /\ Locals'
      BY <1>11, MoveLocals DEF ExecDone, t
    <2>2. NativesTypeOK' /\ HistoryTypeOK'
      BY <1>11, FreeType DEF ExecDone, history, NativesTypeOK, HistoryTypeOK, t
    <2> QED BY <2>1, <2>2 DEF Kept
  <1> QED BY <1>1, <1>2, <1>3, <1>4, <1>5, <1>6, <1>7, <1>8, <1>9, <1>10, <1>11, <1>12 DEF DoShell

LEMMA IoKept ==
    ASSUME TypeOK, Locals, NEW a \in Attempts,
           DoIo(a) \/ Close(a) \/ CheckFlags(a) \/ Start(a) \/ ChannelIo(Worker(a)) \/ ChannelIo(Reader(a))
    PROVE  Kept
  <1>0. /\ Worker(a) \in Threads /\ Worker(a)[1] = a
        /\ Reader(a) \in Threads /\ Reader(a)[1] = a /\ a \in Ids
    BY ThreadFacts, IdFacts
  <1> USE <1>0, LocFacts, PlaceFacts, IdleFacts, BusyFacts, CleaningFacts, OutsideFacts, KindFacts DEF TypeOK
  <1>1. CASE Write(a)
    <2>1. ThreadsTypeOK' /\ Locals'
      BY <1>1, MoveLocals DEF Write
    <2> QED BY <1>1, <2>1 DEF Write, natives, history, NativesTypeOK, HistoryTypeOK, Kept
  <1>2. CASE Read(a)
    <2>1. ThreadsTypeOK' /\ Locals'
      BY <1>2, MoveLocals DEF Read
    <2> QED BY <1>2, <2>1 DEF Read, natives, history, NativesTypeOK, HistoryTypeOK, Kept
  <1>3. CASE WriteDone(a)
    <2>1. ThreadsTypeOK' /\ Locals'
      BY <1>3, MoveLocals DEF WriteDone
    <2>2. \A o \in held[Worker(a)] : o[2] \in Ids
      BY DEF ThreadsTypeOK, Objects
    <2>3. sent' \subseteq Attempts \X Ids
      BY <1>3, <2>2 DEF WriteDone, HistoryTypeOK
    <2> QED BY <1>3, <2>1, <2>3 DEF WriteDone, natives, NativesTypeOK, HistoryTypeOK, Kept
  <1>4. CASE ReadDone(a)
    <2>1. ThreadsTypeOK' /\ Locals'
      BY <1>4, MoveLocals DEF ReadDone
    <2> QED BY <1>4, <2>1 DEF ReadDone, natives, history, NativesTypeOK, HistoryTypeOK, Kept
  <1>5. CASE Close(a)
    <2>1. ThreadsTypeOK' /\ Locals'
      BY <1>5, MoveLocals DEF Close
    <2> QED BY <1>5, <2>1 DEF Close, natives, history, NativesTypeOK, HistoryTypeOK, Kept
  <1>6. CASE CheckFlags(a)
    <2>1. ThreadsTypeOK' /\ Locals'
      BY <1>6, MoveLocals DEF CheckFlags
    <2> QED BY <1>6, <2>1 DEF CheckFlags, natives, history, NativesTypeOK, HistoryTypeOK, Kept
  <1>7. CASE Start(a)
    <2>1. ThreadsTypeOK' /\ Locals'
      BY <1>7, MoveLocals DEF Start
    <2> QED BY <1>7, <2>1 DEF Start, natives, history, NativesTypeOK, HistoryTypeOK, Kept
  <1>8. ASSUME NEW t \in Threads, ChannelIo(t) PROVE Kept
    <2>1. Using("channel", g["channel"]) \in SUBSET Objects
      BY UsingType DEF NativesTypeOK
    <2>2. ThreadsTypeOK' /\ Locals'
      BY <1>8, <2>1, MoveLocals DEF ChannelIo
    <2>3. NativesTypeOK' /\ HistoryTypeOK'
      BY <1>8, <2>1, EnterType DEF ChannelIo, history, NativesTypeOK, HistoryTypeOK
    <2> QED BY <2>2, <2>3 DEF Kept
  <1> QED BY <1>1, <1>2, <1>3, <1>4, <1>5, <1>6, <1>7, <1>8 DEF DoIo

LEMMA SpawnKept ==
    ASSUME TypeOK, Locals, NEW a \in Attempts, Spawn(a)
    PROVE  Kept
  <1>0. /\ Worker(a) \in Threads /\ Reader(a) \in Threads
        /\ Worker(a) # Reader(a) /\ \A b \in Attempts : Worker(b) # Reader(a)
    BY ThreadFacts
  <1> USE <1>0, LocFacts, PlaceFacts, BusyFacts, OutsideFacts DEF TypeOK
  <1>1. NativesTypeOK' /\ HistoryTypeOK' /\ UNCHANGED <<at, held>>
    BY DEF Spawn, natives, history, NativesTypeOK, HistoryTypeOK
  <1>2. CASE Goto(Worker(a), "crashed")
    <2>1. Step(Worker(a), "spawn", "crashed")
      BY <1>2 DEF Spawn, Step
    <2>2. "spawn" \notin Cleaning /\ "spawn" \notin Busy
      BY BusyFacts
    <2>3. ThreadsTypeOK' /\ Locals'
      BY <1>1, <2>1, <2>2, MoveLocals
    <2> QED BY <1>1, <2>3 DEF Kept
  <1>3. CASE pc' = [pc EXCEPT ![Worker(a)] = "loop", ![Reader(a)] = "check"]
    <2>1. /\ pc'[Worker(a)] = "loop" /\ pc'[Reader(a)] = "check"
          /\ \A u \in Threads : u # Worker(a) /\ u # Reader(a) => pc'[u] = pc[u]
      BY <1>3 DEF ThreadsTypeOK
    <2>2. ThreadsTypeOK'
      BY <1>1, <1>3 DEF ThreadsTypeOK
    <2>3. pc[Worker(a)] = "spawn" /\ pc[Reader(a)] = "off"
      BY DEF Spawn, Locals, ReaderOff
    <2>4. \A u \in Threads : LocalInv(u)'
      <3> SUFFICES ASSUME NEW u \in Threads PROVE LocalInv(u)'
        OBVIOUS
      <3>1. LocalInv(u)
        BY DEF Locals
      <3>2. CASE u = Worker(a) \/ u = Reader(a)
        BY <1>1, <2>1, <2>3, <3>1, <3>2 DEF LocalInv
      <3>3. CASE u # Worker(a) /\ u # Reader(a)
        BY <1>1, <2>1, <3>1, <3>3 DEF LocalInv
      <3> QED BY <3>2, <3>3
    <2>5. ReaderOff'
      <3> SUFFICES ASSUME NEW b \in Attempts, pc'[Worker(b)] \notin Spawned PROVE pc'[Reader(b)] = "off"
        BY DEF ReaderOff
      <3>1. b # a
        BY <2>1
      <3>2. Worker(b) # Worker(a) /\ Reader(b) # Reader(a)
        BY <3>1 DEF Worker, Reader
      <3> QED BY <2>1, <3>2, ThreadFacts DEF Locals, ReaderOff
    <2> QED BY <1>1, <2>2, <2>4, <2>5 DEF Locals, Kept
  <1> QED BY <1>2, <1>3 DEF Spawn

\* The places before and after ssh_cleanup.
LEMMA AfterCleanFacts ==
    ASSUME NEW l \in Cleaning
    PROVE  /\ AfterClean[l] \in {"c.tcp", "failed", "ended"}
           /\ l = "c.clean" => AfterClean[l] = "c.tcp"
           /\ l = "c.fail" => AfterClean[l] = "failed"
           /\ l \in {"k.clean", "x.clean"} => AfterClean[l] = "ended"
  BY DEF Cleaning, AfterClean

LEMMA CleanupKept ==
    ASSUME TypeOK, Locals, NEW t \in Threads, Cleanup(t)
    PROVE  Kept
  <1> USE DEF TypeOK
  <1>a. /\ at[t] \in [k : Kinds \cup {"fp"}, part : Parts]
        /\ \A u \in Threads : LocalInv(u)
    BY DEF ThreadsTypeOK, Locals
  \* The thread stays inside: only its place and its objects change.
  <1>b. ASSUME UNCHANGED pc, pc[t] \in Cleaning, at' \in [Threads -> [k : Kinds \cup {"fp"}, part : Parts]],
               held' \in [Threads -> SUBSET Objects],
               \A u \in Threads : u # t => at'[u] = at[u] /\ held'[u] = held[u],
               at'[t].k = "fp" => at'[t].part = "test",
               held'[t] = {} \/ at'[t].part = "free"
        PROVE  ThreadsTypeOK' /\ Locals'
    <2>1. \A u \in Threads : LocalInv(u)'
      BY <1>a, <1>b DEF LocalInv
    <2> QED BY <1>b, <2>1 DEF ThreadsTypeOK, Locals, ReaderOff
  <1>c. "test" \in Parts /\ "free" \in Parts /\ "null" \in Parts
    BY DEF Parts
  <1>1. CASE CleanTest(t)
    <2>1. /\ pc[t] \in Cleaning /\ at[t].k \in Kinds /\ at[t].part = "test" /\ UNCHANGED pc
          /\ held[t] = {}
      BY <1>1, <1>a, BusyFacts DEF CleanTest, LocalInv
    <2>2. g[at[t].k] \in Ids
      BY <2>1 DEF NativesTypeOK
    <2>3. CASE g[at[t].k] = 0
      <3>1. ToNext(t) /\ UNCHANGED <<held, misuse>>
        BY <1>1, <2>3 DEF CleanTest
      <3>2. at' \in [Threads -> [k : Kinds \cup {"fp"}, part : Parts]]
        BY <2>1, <3>1, PlaceType
      <3>3. at'[t].part = "test" /\ \A u \in Threads : u # t => at'[u] = at[u]
        BY <3>1 DEF ToNext, ThreadsTypeOK
      <3>4. ThreadsTypeOK' /\ Locals'
        BY <1>b, <2>1, <3>1, <3>2, <3>3 DEF ThreadsTypeOK
      <3> QED BY <1>1, <3>1, <3>4 DEF CleanTest, history, NativesTypeOK, HistoryTypeOK, Kept
    <2>4. CASE g[at[t].k] # 0
      <3> DEFINE objs == IF at[t].k = "sock" THEN {} ELSE Using(at[t].k, g[at[t].k])
      <3>1. ToPart(t, "free") /\ Enter(t, objs)
        BY <1>1, <2>4 DEF CleanTest
      <3>2. objs \in SUBSET Objects
        BY <2>1, <2>2, UsingType
      <3> HIDE DEF objs
      <3>3. at' \in [Threads -> [k : Kinds \cup {"fp"}, part : Parts]]
        BY <1>c, <3>1, PlaceType
      <3>4. /\ at'[t].part = "free" /\ at'[t].k = at[t].k
            /\ \A u \in Threads : u # t => at'[u] = at[u]
        BY <1>a, <3>1 DEF ToPart, ThreadsTypeOK
      <3>5. held' \in [Threads -> SUBSET Objects] /\ misuse' \in BOOLEAN
        BY <3>1, <3>2, EnterType
      <3>6. \A u \in Threads : u # t => held'[u] = held[u]
        BY <3>1 DEF Enter, ThreadsTypeOK
      <3>7. ThreadsTypeOK' /\ Locals'
        BY <1>b, <2>1, <3>3, <3>4, <3>5, <3>6, KindFacts
      <3> QED BY <1>1, <3>5, <3>7 DEF CleanTest, history, NativesTypeOK, HistoryTypeOK, Kept
    <2> QED BY <2>3, <2>4
  <1>2. CASE CleanFree(t)
    <2>1. /\ pc[t] \in Cleaning /\ at[t].k \in Kinds /\ UNCHANGED pc
          /\ Leave(t) /\ ToPart(t, "null") /\ Free(t, at[t].k, g[at[t].k])
      BY <1>2, <1>a DEF CleanFree, LocalInv
    <2>2. at' \in [Threads -> [k : Kinds \cup {"fp"}, part : Parts]]
      BY <1>c, <2>1, PlaceType
    <2>3. at'[t].k = at[t].k /\ \A u \in Threads : u # t => at'[u] = at[u]
      BY <1>a, <2>1 DEF ToPart, ThreadsTypeOK
    <2>4. /\ held' \in [Threads -> SUBSET Objects] /\ held'[t] = {}
          /\ \A u \in Threads : u # t => held'[u] = held[u]
      BY <2>1, LeaveType DEF Leave, ThreadsTypeOK
    <2>5. ThreadsTypeOK' /\ Locals'
      BY <1>b, <2>1, <2>2, <2>3, <2>4, KindFacts
    <2>6. life' \in [Kinds -> [Ids -> {"none", "live", "freed"}]] /\ misuse' \in BOOLEAN
      BY <2>1, FreeType DEF NativesTypeOK
    <2> QED BY <1>2, <2>5, <2>6 DEF CleanFree, history, NativesTypeOK, HistoryTypeOK, Kept
  <1>3. CASE CleanNull(t)
    <2>1. /\ pc[t] \in Cleaning /\ at[t].k \in Kinds /\ UNCHANGED <<pc, held>> /\ ToNext(t)
          /\ held[t] = {} /\ g' = [g EXCEPT ![at[t].k] = 0]
      BY <1>3, <1>a, BusyFacts DEF CleanNull, LocalInv
    <2>2. at' \in [Threads -> [k : Kinds \cup {"fp"}, part : Parts]]
      BY <2>1, PlaceType
    <2>3. at'[t].part = "test" /\ \A u \in Threads : u # t => at'[u] = at[u]
      BY <2>1 DEF ToNext, ThreadsTypeOK
    <2>4. ThreadsTypeOK' /\ Locals'
      BY <1>b, <2>1, <2>2, <2>3 DEF ThreadsTypeOK
    <2> QED BY <1>3, <2>1, <2>4, IdFacts DEF CleanNull, history, NativesTypeOK, HistoryTypeOK, Kept
  <1>4. CASE CleanFp(t)
    <2> DEFINE l == IF pc[t] = "c.fail" /\ mode[t[1]] = "exec" THEN "x.clean" ELSE AfterClean[pc[t]]
    <2>1. /\ pc[t] \in Cleaning /\ at[t].part = "test" /\ held[t] = {} /\ Goto(t, l)
          /\ UNCHANGED held /\ at' = [at EXCEPT ![t] = FirstAt] /\ fp' = 0
      BY <1>4, <1>a, BusyFacts DEF CleanFp, LocalInv
    <2>2. l \in Locations /\ (pc[t] \in Spawned => l \in Spawned) /\ pc[t] # "off"
      <3>1. pc[t] \in {"c.clean", "c.fail", "k.clean", "x.clean"}
        BY <2>1 DEF Cleaning
      <3> QED BY <2>1, <3>1, AfterCleanFacts, LocFacts, PlaceFacts
    <2> HIDE DEF l
    <2>3. pc'[t] = l /\ \A u \in Threads : u # t => pc'[u] = pc[u]
      BY <2>1, Moved
    <2>4. at'[t] = FirstAt /\ \A u \in Threads : u # t => at'[u] = at[u]
      BY <2>1 DEF ThreadsTypeOK
    <2>5. FirstAt.part = "test" /\ FirstAt \in [k : Kinds \cup {"fp"}, part : Parts]
      BY <1>c, KindFacts DEF FirstAt
    <2>6. ThreadsTypeOK'
      BY <2>1, <2>2, <2>5, GotoType DEF ThreadsTypeOK
    <2>7. \A u \in Threads : LocalInv(u)'
      <3> SUFFICES ASSUME NEW u \in Threads PROVE LocalInv(u)'
        OBVIOUS
      <3>1. CASE u = t
        BY <2>1, <2>3, <2>4, <2>5, <3>1 DEF LocalInv
      <3>2. CASE u # t
        BY <1>a, <2>1, <2>3, <2>4, <3>2 DEF LocalInv
      <3> QED BY <3>1, <3>2
    <2>8. ReaderOff'
      <3> SUFFICES ASSUME NEW a \in Attempts, pc'[Worker(a)] \notin Spawned PROVE pc'[Reader(a)] = "off"
        BY DEF ReaderOff
      <3>1. pc[Worker(a)] \notin Spawned
        BY <2>2, <2>3, ThreadFacts
      <3>2. pc[Reader(a)] = "off"
        BY <3>1 DEF Locals, ReaderOff
      <3> QED BY <2>2, <2>3, <3>2, ThreadFacts
    <2> QED BY <1>4, <2>6, <2>7, <2>8, IdFacts DEF CleanFp, history, NativesTypeOK, HistoryTypeOK, Kept, Locals
  <1> QED BY <1>1, <1>2, <1>3, <1>4 DEF Cleanup

-----------------------------------------------------------------------------
(* As long as nothing overlapped: what a thread finds when it goes into, on *)
(* in or out of a call that makes or frees objects.                        *)

\* The step is one after which still nothing overlapped.
NoOverlap == overlap' = (overlap \/ OverlapNow') /\ ~overlap'

LEMMA Alone ==
    ASSUME IndInv, NoOverlap, NEW t \in Threads, NEW l \in Locations, Goto(t, l),
           pc[t] \in Sole \/ l \in Sole, pc[t] \notin Shared
    PROVE  /\ Good
           /\ \A u \in Threads : u # t => pc[u] \in Outside /\ pc'[u] = pc[u] /\ held[u] = {}
           /\ pc[t] \in Sole => SoleShape(t)
           /\ pc[t] \in Outside => Whole
  <1>1. ~overlap /\ ~OverlapNow /\ ~OverlapNow' /\ Good /\ ThreadsTypeOK /\ Locals
    BY DEF NoOverlap, IndInv, TypeOK
  <1>2. pc'[t] = l /\ \A u \in Threads : u # t => pc'[u] = pc[u]
    BY <1>1, Moved
  <1>3. ASSUME NEW u \in Threads, u # t PROVE pc[u] \in Outside /\ held[u] = {}
    <2>1. pc[u] \in Outside
      BY <1>1, <1>2, <1>3 DEF OverlapNow
    <2> QED BY <1>1, <2>1, BusyFacts DEF Locals, LocalInv
  <1>4. pc[t] \in Outside => \A u \in Threads : pc[u] \notin Sole
    BY <1>3, Disjoint
  <1> QED BY <1>1, <1>2, <1>3, <1>4 DEF Good

LEMMA SoleMove ==
    ASSUME IndInv, NoOverlap, NEW t \in Threads, NEW l \in Locations, Goto(t, l),
           pc[t] \in Sole \/ l \in Sole, pc[t] \notin Shared, l \notin Shared, ~misuse',
           l \in Sole => SoleShape(t)', l \in Outside => Whole'
    PROVE  Good'
  <1>1. \A u \in Threads : u # t => pc'[u] \in Outside
    BY Alone
  <1>2. pc'[t] = l
    BY Moved DEF IndInv, TypeOK
  <1> QED BY <1>1, <1>2, Disjoint DEF Good

\* A step between calls, or of a read or write, that changes no object.
LEMMA OutMove ==
    ASSUME IndInv, NoOverlap, NEW t \in Threads, NEW l \in Locations, Goto(t, l),
           pc[t] \notin Sole, l \notin Sole,
           l \in Shared => g["channel"] # 0,
           UNCHANGED <<at, life, g, fp, on, unblocked>>, ~misuse',
           \A u \in Threads : u # t => held'[u] = held[u]
    PROVE  Good'
  <1>1. ~overlap /\ Good /\ ThreadsTypeOK
    BY DEF NoOverlap, IndInv, TypeOK
  <1>2. pc'[t] = l /\ \A u \in Threads : u # t => pc'[u] = pc[u]
    BY <1>1, Moved
  <1>3. Whole => Whole'
    BY DEF Whole, Owned, CanRefuse, SessionOf, Linked
  <1>4. ASSUME NEW u \in Threads, pc'[u] \in Sole PROVE SoleShape(u)'
    <2>1. u # t /\ pc'[u] = pc[u] /\ held'[u] = held[u]
      BY <1>2, <1>4
    <2>2. SoleShape(u)
      BY <1>1, <1>4, <2>1 DEF Good
    <2> QED BY <1>3, <2>1, <2>2 DEF SoleShape, CleanShape, Shed, ExecShape, Whole, Owned, CanRefuse, SessionOf, Linked
  <1>5. (\A u \in Threads : pc'[u] \notin Sole) => Whole'
    BY <1>1, <1>2, <1>3 DEF Good
  <1>6. \A u \in Threads : pc'[u] \in Shared => g'["channel"] # 0
    BY <1>1, <1>2 DEF Good
  <1> QED BY <1>4, <1>5, <1>6 DEF Good

\* What the objects are at each place.
LEMMA Shapes ==
    ASSUME NEW t \in Threads
    PROVE  /\ SoleShape(t) /\ pc[t] \in Cleaning => CleanShape(t)
           /\ SoleShape(t) /\ pc[t] \in Connecting => Whole /\ g["channel"] = 0 /\ g["session"] # 0
           /\ SoleShape(t) /\ pc[t] \in Shelling => Whole /\ g["channel"] # 0
           /\ SoleShape(t) /\ pc[t] \in Executing => ExecShape(t[1])
  BY DEF SoleShape

LEMMA CleanShapeNext ==
    ASSUME NEW t \in Threads, pc'[t] \in Cleaning, CleanShape(t)'
    PROVE  SoleShape(t)'
  BY PartFacts, ConnectingFacts DEF SoleShape, Connecting, Shelling, Executing

LEMMA ConnectingNext ==
    ASSUME NEW t \in Threads, pc'[t] \in Connecting, Whole', g'["channel"] = 0, g'["session"] # 0,
           pc'[t] \in {"s.open", "x.open"} => held'[t] = {<<"session", g'["session"]>>}
    PROVE  SoleShape(t)'
  BY PartFacts DEF SoleShape, Connecting, Shelling, Executing, Cleaning

LEMMA ShellingNext ==
    ASSUME NEW t \in Threads, pc'[t] \in Shelling, Whole', g'["channel"] # 0
    PROVE  SoleShape(t)'
  BY PartFacts DEF SoleShape, Connecting, Shelling, Executing, Cleaning

LEMMA ExecutingNext ==
    ASSUME NEW t \in Threads, pc'[t] \in Executing, ExecShape(t[1])'
    PROVE  SoleShape(t)'
  BY PartFacts DEF SoleShape, Connecting, Shelling, Executing, Cleaning

\* Objects of a whole set of globals are alive.
LEMMA WholeLive ==
    ASSUME TypeOK, Whole
    PROVE  /\ g["session"] # 0 => Live(<<"session", g["session"]>>) /\ Live(<<"sock", g["sock"]>>)
           /\ g["channel"] # 0 => \A o \in Using("channel", g["channel"]) : Live(o)
  <1>1. /\ g["channel"] \in Ids /\ g["session"] \in Ids /\ g["sock"] \in Ids
        /\ \A i \in Ids : i # 0 => i \in Attempts
    BY IdFacts DEF TypeOK, NativesTypeOK, Kinds
  <1>2. \A k \in Kinds : g[k] # 0 => life[k][g[k]] = "live"
    BY <1>1, KindFacts DEF Whole, Owned
  <1>3. g["session"] # 0 => Live(<<"session", g["session"]>>) /\ Live(<<"sock", g["sock"]>>)
    BY <1>2, KindFacts DEF Live, Whole
  <1>4. g["channel"] # 0 => \A o \in Using("channel", g["channel"]) : Live(o)
    BY <1>2, KindFacts DEF Live, Using, Whole, Linked
  <1> QED BY <1>3, <1>4

LEMMA SoleFacts ==
    /\ "c.tcp" \in Sole /\ "c.init" \in Sole
    /\ \A l \in Cleaning \cup Connecting \cup Shelling \cup Executing : l \in Sole
  BY SoleParts

LEMMA CleanStartGood ==
    ASSUME IndInv, NoOverlap, NEW t \in Threads, NEW l \in Outside, NEW m \in Cleaning,
           Step(t, l, m), UNCHANGED <<at, held, natives>>
    PROVE  Good'
  <1>1. m \in Sole /\ m \in Locations /\ l \notin Shared /\ l \notin Cleaning
    BY SoleFacts, Disjoint, BusyFacts
  <1>2. Good /\ Whole
    BY <1>1, Alone DEF Step
  <1>3. at[t] = FirstAt
    BY <1>1 DEF Step, IndInv, Locals, LocalInv
  <1>4. pc'[t] = m
    BY Moved DEF Step, IndInv, TypeOK
  <1>5. CleanShape(t)'
    BY <1>2, <1>3 DEF natives, CleanShape, FirstAt, Whole, Owned, CanRefuse, SessionOf, Linked
  <1>6. SoleShape(t)'
    BY <1>4, <1>5, CleanShapeNext
  <1>7. ~misuse'
    BY <1>2 DEF Good, natives
  <1> QED BY <1>1, <1>6, <1>7, SoleMove, Disjoint DEF Step

LEMMA ConnectGood ==
    ASSUME IndInv, NoOverlap, NEW a \in Attempts, DoConnect(a)
    PROVE  Good'
  <1> DEFINE t == Worker(a)
  <1>0. /\ t \in Threads /\ a \in Ids /\ t[1] = a /\ a # 0
        /\ TypeOK /\ ThreadsTypeOK /\ NativesTypeOK /\ Locals
    BY ThreadFacts, IdFacts DEF IndInv, TypeOK
  <1> HIDE DEF t
  <1> USE <1>0, LocFacts, CleaningFacts, ConnectingFacts, SoleFacts, OutsideFacts, Disjoint
  <1>1. CASE Connect(a)
    BY <1>1, CleanStartGood DEF Connect, t
  <1>2. CASE TcpConnected(a)
    <2>1. Step(t, "c.tcp", "c.init") /\ Create("sock", a) /\ g' = [g EXCEPT !["sock"] = a] /\ UNCHANGED <<fp, on, unblocked, misuse>>
      BY <1>2 DEF TcpConnected, t
    <2>2. SoleShape(t) /\ Good
      BY <2>1, Alone DEF Step
    <2>3. Whole /\ fp = 0 /\ \A k \in Kinds : g[k] = 0
      BY <2>1, <2>2 DEF SoleShape, Step
    <2>4. pc'[t] = "c.init"
      BY <2>1, Moved DEF Step
    <2>5. g'["channel"] = 0 /\ g'["session"] = 0 /\ g'["sock"] = a
      BY <2>1, <2>3, KindFacts DEF NativesTypeOK
    <2>6. ASSUME NEW k \in Kinds PROVE Owned(k)'
      <3>1. CASE k = "sock"
        BY <2>1, <2>3, <2>5, <3>1, KindFacts, IdFacts DEF Create, Whole, Owned, CanRefuse, SessionOf, NativesTypeOK
      <3>2. CASE k # "sock"
        BY <2>1, <2>3, <3>2, KindFacts, IdFacts DEF Create, Whole, Owned, CanRefuse, SessionOf, NativesTypeOK
      <3> QED BY <3>1, <3>2
    <2>7. SoleShape(t)'
      BY <2>1, <2>3, <2>4, <2>5, <2>6, PartFacts DEF SoleShape, Connecting, Shelling, Executing, Cleaning
    <2>8. ~misuse'
      BY <2>1, <2>2 DEF Good
    <2> QED BY <2>1, <2>7, <2>8, SoleMove DEF Step
  <1>3. CASE TcpFailed(a)
    <2>1. /\ pc[t] = "c.tcp" /\ Goto(t, IF mode[a] = "exec" THEN "x.clean" ELSE "failed")
          /\ g' = [g EXCEPT !["sock"] = 0] /\ UNCHANGED <<at, life, fp, on, unblocked, misuse>>
      BY <1>3 DEF TcpFailed, Step, t
    <2>2. SoleShape(t) /\ Good
      BY <2>1, Alone
    <2>3. Whole /\ fp = 0 /\ \A k \in Kinds : g[k] = 0
      BY <2>1, <2>2 DEF SoleShape
    <2>4. g' = g /\ ~misuse'
      BY <2>1, <2>2, <2>3, KindFacts DEF NativesTypeOK, Good
    <2>5. Whole'
      BY <2>1, <2>3, <2>4 DEF Whole, Owned, CanRefuse, SessionOf, Linked
    <2>6. CASE mode[a] = "exec"
      <3>1. pc'[t] = "x.clean" /\ Goto(t, "x.clean")
        BY <2>1, <2>6, Moved
      <3>2. at[t] = FirstAt
        BY <2>1, PartFacts DEF Locals, LocalInv
      <3>3. CleanShape(t)'
        BY <2>1, <2>3, <2>4, <3>2 DEF CleanShape, FirstAt, Whole, Owned, CanRefuse, SessionOf, Linked
      <3> QED BY <2>1, <2>4, <3>1, <3>3, SoleMove, CleanShapeNext
    <2>7. CASE mode[a] # "exec"
      BY <2>1, <2>4, <2>5, <2>7, SoleMove
    <2> QED BY <2>6, <2>7
  <1>4. CASE SessionInit(a)
    <2>1. Step(t, "c.init", "c.hs0") /\ Create("session", a) /\ g' = [g EXCEPT !["session"] = a] /\ UNCHANGED <<fp, on, unblocked, misuse>>
      BY <1>4 DEF SessionInit, t
    <2>2. SoleShape(t) /\ Good
      BY <2>1, Alone DEF Step
    <2>3. /\ \A k \in Kinds : Owned(k)
          /\ g["channel"] = 0 /\ g["session"] = 0 /\ g["sock"] = a /\ fp = 0
      BY <2>1, <2>2 DEF SoleShape, Step
    <2>4. pc'[t] = "c.hs0"
      BY <2>1, Moved DEF Step
    <2>5. g'["channel"] = 0 /\ g'["session"] = a /\ g'["sock"] = a
      BY <2>1, <2>3, KindFacts DEF NativesTypeOK
    <2>6. ASSUME NEW k \in Kinds PROVE Owned(k)'
      <3>1. CASE k = "session"
        BY <2>1, <2>3, <2>5, <3>1, KindFacts, IdFacts DEF Create, Owned, CanRefuse, SessionOf, NativesTypeOK
      <3>2. CASE k # "session"
        BY <2>1, <2>3, <3>2, KindFacts, IdFacts DEF Create, Owned, CanRefuse, SessionOf, NativesTypeOK
      <3> QED BY <3>1, <3>2
    <2>7. Whole'
      BY <2>1, <2>3, <2>5, <2>6 DEF Whole, Linked
    <2>8. SoleShape(t)'
      BY <2>4, <2>5, <2>7, ConnectingNext
    <2> QED BY <2>1, <2>2, <2>8, SoleMove DEF Step, Good
  <1>5. CASE SessionInitFailed(a)
    <2>1. /\ Step(t, "c.init", "c.fail") /\ g' = [g EXCEPT !["session"] = 0]
          /\ UNCHANGED <<at, life, fp, on, unblocked, misuse>>
      BY <1>5 DEF SessionInitFailed, t
    <2>2. SoleShape(t) /\ Good
      BY <2>1, Alone DEF Step
    <2>3. /\ \A k \in Kinds : Owned(k)
          /\ g["channel"] = 0 /\ g["session"] = 0 /\ g["sock"] = a /\ fp = 0
      BY <2>1, <2>2 DEF SoleShape, Step
    <2>4. pc'[t] = "c.fail" /\ g' = g
      BY <2>1, <2>3, Moved DEF Step, NativesTypeOK
    <2>5. at[t] = FirstAt
      BY <2>1, PartFacts DEF Locals, LocalInv, Step
    <2>6. CleanShape(t)'
      BY <2>1, <2>3, <2>4, <2>5 DEF CleanShape, FirstAt, Owned, CanRefuse, SessionOf, Linked
    <2> QED BY <2>1, <2>2, <2>4, <2>6, SoleMove, CleanShapeNext DEF Step, Good
  <1>6. CASE Handshake(a)
    <2>1. /\ Step(t, "c.hs0", "c.hs") /\ Enter(t, {<<"session", g["session"]>>, <<"sock", g["sock"]>>})
          /\ UNCHANGED <<life, g, fp, on, unblocked>>
      BY <1>6 DEF Handshake, t
    <2>2. SoleShape(t) /\ Good
      BY <2>1, Alone DEF Step
    <2>3. Whole /\ g["channel"] = 0 /\ g["session"] # 0
      BY <2>1, <2>2, Shapes DEF Step
    <2>4. ~misuse'
      BY <2>1, <2>2, <2>3, WholeLive DEF Enter, Good
    <2>5. pc'[t] = "c.hs" /\ Whole'
      BY <2>1, <2>3, Moved DEF Step, Whole, Owned, CanRefuse, SessionOf, Linked
    <2>6. SoleShape(t)'
      BY <2>1, <2>3, <2>5, ConnectingNext
    <2> QED BY <2>1, <2>4, <2>6, SoleMove DEF Step
  <1>7. CASE HandshakeDone(a)
    <2>1. PICK l \in {"c.hash", "c.fail"} : Step(t, "c.hs", l)
      BY <1>7 DEF HandshakeDone, t
    <2>2. UNCHANGED <<at, natives>>
      BY <1>7 DEF HandshakeDone
    <2>3. SoleShape(t) /\ Good
      BY <2>1, Alone DEF Step
    <2>4. Whole /\ g["channel"] = 0 /\ g["session"] # 0
      BY <2>1, <2>3, Shapes DEF Step
    <2>5. pc'[t] = l /\ Whole' /\ ~misuse'
      BY <2>1, <2>2, <2>3, <2>4, Moved DEF Step, Whole, Owned, CanRefuse, SessionOf, Linked, natives, Good
    <2>6. CASE l = "c.hash"
      <3>1. SoleShape(t)'
        BY <2>2, <2>4, <2>5, <2>6, ConnectingNext DEF natives
      <3> QED BY <2>1, <2>5, <2>6, <3>1, SoleMove DEF Step
    <2>7. CASE l = "c.fail"
      <3>1. at[t] = FirstAt
        BY <2>1, PartFacts DEF Locals, LocalInv, Step
      <3>2. CleanShape(t)'
        BY <2>2, <2>4, <3>1 DEF natives, CleanShape, FirstAt, Whole, Owned, CanRefuse, SessionOf, Linked
      <3> QED BY <2>1, <2>5, <2>7, <3>2, SoleMove, CleanShapeNext DEF Step
    <2> QED BY <2>6, <2>7
  <1>8. CASE HashAndAuth(a)
    <2>1. /\ Step(t, "c.hash", "c.auth") /\ Enter(t, {<<"session", g["session"]>>})
          /\ fp' \in {fp, g["session"]} /\ UNCHANGED <<life, g, on, unblocked>>
      BY <1>8 DEF HashAndAuth, t
    <2>2. SoleShape(t) /\ Good
      BY <2>1, Alone DEF Step
    <2>3. Whole /\ g["channel"] = 0 /\ g["session"] # 0
      BY <2>1, <2>2, Shapes DEF Step
    <2>4. ~misuse'
      BY <2>1, <2>2, <2>3, WholeLive DEF Enter, Good
    <2>5. pc'[t] = "c.auth" /\ Whole'
      BY <2>1, <2>3, Moved DEF Step, Whole, Owned, CanRefuse, SessionOf, Linked
    <2>6. SoleShape(t)'
      BY <2>1, <2>3, <2>5, ConnectingNext
    <2> QED BY <2>1, <2>4, <2>6, SoleMove DEF Step
  <1>9. CASE AuthDone(a)
    <2>1. PICK l \in {"x.open0", "up", "c.fail"} : Step(t, "c.auth", l)
      BY <1>9 DEF AuthDone, t
    <2>2. UNCHANGED <<at, natives>>
      BY <1>9 DEF AuthDone
    <2>3. SoleShape(t) /\ Good
      BY <2>1, Alone DEF Step
    <2>4. Whole /\ g["channel"] = 0 /\ g["session"] # 0
      BY <2>1, <2>3, Shapes DEF Step
    <2>5. pc'[t] = l /\ Whole' /\ ~misuse'
      BY <2>1, <2>2, <2>3, <2>4, Moved DEF Step, Whole, Owned, CanRefuse, SessionOf, Linked, natives, Good
    <2>6. CASE l = "x.open0"
      <3>1. SoleShape(t)'
        BY <2>2, <2>4, <2>5, <2>6, ConnectingNext DEF natives
      <3> QED BY <2>1, <2>5, <2>6, <3>1, SoleMove DEF Step
    <2>7. CASE l = "c.fail"
      <3>1. at[t] = FirstAt
        BY <2>1, PartFacts DEF Locals, LocalInv, Step
      <3>2. CleanShape(t)'
        BY <2>2, <2>4, <3>1 DEF natives, CleanShape, FirstAt, Whole, Owned, CanRefuse, SessionOf, Linked
      <3> QED BY <2>1, <2>5, <2>7, <3>2, SoleMove, CleanShapeNext DEF Step
    <2>8. CASE l = "up"
      BY <2>1, <2>5, <2>8, SoleMove DEF Step
    <2> QED BY <2>6, <2>7, <2>8
  <1> QED BY <1>1, <1>2, <1>3, <1>4, <1>5, <1>6, <1>7, <1>8, <1>9 DEF DoConnect

\* What a free does to what is alive.
LEMMA FreeFacts ==
    ASSUME NativesTypeOK, NEW t \in Threads, NEW k \in Kinds, NEW i \in Attempts, Free(t, k, i)
    PROVE  /\ life'[k][i] # "live" \/ CanRefuse(k, i)
           /\ \A j \in Kinds, a \in Attempts :
                 /\ life'[j][a] = "live" => life[j][a] = "live"
                 /\ life[j][a] = "live" /\ life'[j][a] # "live"
                       => (j = k /\ a = i) \/ (j = "channel" /\ k = "session")
  <1>0. i \in Ids /\ \A a \in Attempts : a \in Ids
    BY IdFacts
  <1>1. CASE FreeAll(Tree(k, i))
    <2>1. \A j \in Kinds, a \in Attempts :
             life'[j][a] = IF <<j, a>> \in Tree(k, i) THEN "freed" ELSE life[j][a]
      BY <1>0, <1>1 DEF FreeAll
    <2>2. <<k, i>> \in Tree(k, i)
      BY DEF Tree
    <2>3. \A j \in Kinds, a \in Attempts :
             <<j, a>> \in Tree(k, i) => (j = k /\ a = i) \/ (j = "channel" /\ k = "session")
      BY DEF Tree
    <2> QED BY <2>1, <2>2, <2>3
  <1>2. CASE CanRefuse(k, i) /\ UNCHANGED life
    BY <1>2
  <1> QED BY <1>1, <1>2 DEF Free

\* Freeing the channel the global names, while no other thread works on it.
LEMMA FreedChannel ==
    ASSUME TypeOK, Whole, ~misuse, g["channel"] # 0, NEW t \in Threads,
           \A u \in Threads : u # t => held[u] = {},
           Free(t, "channel", g["channel"]), g' = [g EXCEPT !["channel"] = 0], UNCHANGED <<fp, on, unblocked>>
    PROVE  ~misuse' /\ Whole' /\ g'["channel"] = 0 /\ g'["session"] = g["session"]
  <1>1. NativesTypeOK /\ g["channel"] \in Ids /\ g["channel"] \in Attempts
    BY IdFacts, KindFacts DEF TypeOK, NativesTypeOK
  <1>2. g'["channel"] = 0 /\ g'["session"] = g["session"] /\ g'["sock"] = g["sock"]
    BY <1>1, KindFacts DEF NativesTypeOK
  <1>3. Live(<<"channel", g["channel"]>>)
    BY <1>1, KindFacts DEF Live, Whole, Owned
  <1>4. ~misuse'
    BY <1>3 DEF Free
  <1>5. ASSUME NEW k \in Kinds PROVE Owned(k)'
    <2> SUFFICES ASSUME NEW a \in Attempts
                 PROVE  /\ g'[k] = a => life'[k][a] = "live"
                        /\ life'[k][a] = "live" /\ g'[k] # a => CanRefuse(k, a)'
      BY DEF Owned
    <2>0. /\ g[k] = a => life[k][a] = "live"
          /\ life[k][a] = "live" /\ g[k] # a => CanRefuse(k, a)
      BY DEF Whole, Owned
    <2>1. CanRefuse(k, a)' <=> CanRefuse(k, a)
      BY DEF CanRefuse, SessionOf
    <2>2. /\ life'[k][a] = "live" => life[k][a] = "live"
          /\ life[k][a] = "live" /\ life'[k][a] # "live" => k = "channel" /\ a = g["channel"]
          /\ life'["channel"][g["channel"]] # "live" \/ CanRefuse("channel", g["channel"])
      BY <1>1, FreeFacts, KindFacts
    <2>3. CASE k = "channel"
      BY <1>2, <2>0, <2>1, <2>2, <2>3, IdFacts
    <2>4. CASE k # "channel"
      BY <1>2, <2>0, <2>1, <2>2, <2>4, KindFacts
    <2> QED BY <2>3, <2>4
  <1> QED BY <1>2, <1>4, <1>5 DEF Whole, Linked

\* From open_shell's first look at the session to its answer, and exec's part.
LEMMA ShellGood ==
    ASSUME IndInv, NoOverlap, NEW a \in Attempts, DoShell(a)
    PROVE  Good'
  <1> DEFINE t == Worker(a)
  <1>0. /\ t \in Threads /\ a \in Ids /\ t[1] = a /\ a # 0
        /\ TypeOK /\ ThreadsTypeOK /\ NativesTypeOK /\ Locals
    BY ThreadFacts, IdFacts DEF IndInv, TypeOK
  <1> HIDE DEF t
  <1> USE <1>0, LocFacts, CleaningFacts, ConnectingFacts, SoleFacts, OutsideFacts, Disjoint
  <1>m. ~misuse /\ Good
    BY DEF IndInv, NoOverlap, Good
  <1>1. CASE GetFingerprint(a)
    <2>1. Step(t, "up", "trust") /\ UNCHANGED <<at, held, natives>>
      BY <1>1 DEF GetFingerprint, t
    <2> QED BY <1>m, <2>1, OutMove DEF Step, natives
  <1>2. CASE OpenShell(a)
    <2>1. CASE g["session"] = 0
      <3>1. Step(t, "trust", "spawn") /\ UNCHANGED <<at, held, natives>>
        BY <1>2, <2>1 DEF OpenShell, t, natives
      <3> QED BY <1>m, <3>1, OutMove DEF Step, natives
    <2>2. CASE g["session"] # 0
      <3>1. Step(t, "trust", "s.open0") /\ UNCHANGED <<fp, on, unblocked>>
        BY <1>2, <2>2 DEF OpenShell, t
      <3>2. Whole /\ \A u \in Threads : u # t => held[u] = {}
        BY <3>1, Alone DEF Step
      <3>3. ~misuse' /\ Whole' /\ g'["channel"] = 0 /\ g'["session"] = g["session"]
        <4>1. CASE g["channel"] # 0
          <5>1. Free(t, "channel", g["channel"]) /\ g' = [g EXCEPT !["channel"] = 0]
            BY <1>2, <2>2, <4>1 DEF OpenShell, t
          <5> QED BY <1>m, <3>1, <3>2, <4>1, <5>1, FreedChannel
        <4>2. CASE g["channel"] = 0
          BY <1>2, <1>m, <3>1, <3>2, <4>2 DEF OpenShell, Whole, Owned, CanRefuse, SessionOf, Linked
        <4> QED BY <4>1, <4>2
      <3>4. pc'[t] = "s.open0"
        BY <3>1, Moved DEF Step
      <3>5. SoleShape(t)'
        BY <2>2, <3>3, <3>4, ConnectingNext
      <3> QED BY <3>1, <3>3, <3>5, SoleMove DEF Step
    <2> QED BY <2>1, <2>2
  <1>3. CASE ChannelOpen(a)
    <2>1. PICK l \in {"s.open0", "x.open0"}, m \in {"s.open", "x.open"} : Step(t, l, m)
      BY <1>3 DEF ChannelOpen, t
    <2>2. Enter(t, {<<"session", g["session"]>>}) /\ UNCHANGED <<life, g, fp, on, unblocked>>
      BY <1>3 DEF ChannelOpen, Using, t
    <2>3. SoleShape(t)
      BY <2>1, Alone DEF Step
    <2>4. Whole /\ g["channel"] = 0 /\ g["session"] # 0
      BY <2>1, <2>3, Shapes DEF Step
    <2>5. ~misuse' /\ held'[t] = {<<"session", g["session"]>>}
      BY <1>m, <2>2, <2>4, WholeLive DEF Enter, ThreadsTypeOK
    <2>6. pc'[t] = m /\ Whole'
      BY <2>1, <2>2, <2>4, Moved DEF Step, Whole, Owned, CanRefuse, SessionOf, Linked
    <2>7. SoleShape(t)'
      BY <2>2, <2>4, <2>5, <2>6, ConnectingNext
    <2> QED BY <2>1, <2>5, <2>7, SoleMove DEF Step
  <1>4. CASE ChannelOpened(a)
    <2>1. PICK s \in Ids : <<"session", s>> \in held[t] /\ on' = [on EXCEPT ![a] = s]
      BY <1>4 DEF ChannelOpened, t
    <2>2. Create("channel", a) /\ UNCHANGED <<at, fp, unblocked, misuse>>
      BY <1>4 DEF ChannelOpened, t
    <2>3. PICK l \in {"s.open", "x.open"}, m \in {"s.pty0", "x.run0"} :
            /\ Step(t, l, m)
            /\ m = "s.pty0" => g' = [g EXCEPT !["channel"] = a]
            /\ m = "x.run0" => g' = g
      BY <1>4 DEF ChannelOpened, t
    <2>4. SoleShape(t)
      BY <2>3, Alone DEF Step
    <2>5. Whole /\ g["channel"] = 0 /\ g["session"] # 0
      BY <2>3, <2>4, Shapes DEF Step
    <2>6. held[t] = {<<"session", g["session"]>>}
      BY <2>3, <2>4 DEF Step, SoleShape
    <2>7. on'[a] = g["session"]
      BY <2>1, <2>6 DEF NativesTypeOK
    <2>8. g'["session"] = g["session"] /\ g'["sock"] = g["sock"] /\ (m = "s.pty0" => g'["channel"] = a)
      BY <2>3, KindFacts DEF NativesTypeOK
    <2>9. /\ life'["session"] = life["session"] /\ life'["sock"] = life["sock"]
          /\ life'["channel"][a] = "live"
          /\ \A b \in Attempts \ {a} : life'["channel"][b] = life["channel"][b]
      BY <2>2, KindFacts, IdFacts DEF Create, NativesTypeOK
    <2>a. /\ \A b \in Attempts : CanRefuse("session", b)' <=> CanRefuse("session", b)
          /\ \A b \in Attempts : CanRefuse("sock", b)' <=> CanRefuse("sock", b)
          /\ \A b \in Attempts \ {a} : CanRefuse("channel", b)' <=> CanRefuse("channel", b)
      BY <2>1, <2>2, KindFacts, IdFacts DEF CanRefuse, SessionOf, NativesTypeOK
    <2>10. Owned("session")' /\ Owned("sock")'
      BY <2>5, <2>8, <2>9, <2>a, KindFacts DEF Whole, Owned
    <2>b. \A b \in Attempts \ {a} : life'["channel"][b] = "live" => CanRefuse("channel", b)'
      BY <2>5, <2>9, <2>a, KindFacts, IdFacts DEF Whole, Owned
    <2>11. pc'[t] = m
      BY <2>3, Moved DEF Step
    <2>12. SoleShape(t)'
      <3>1. CASE m = "s.pty0"
        <4>1. Owned("channel")' /\ Linked'
          BY <2>5, <2>7, <2>8, <2>9, <2>b, <3>1 DEF Owned, Linked
        <4>2. Whole'
          BY <2>2, <2>5, <2>8, <2>10, <4>1, KindFacts DEF Whole
        <4> QED BY <2>8, <2>11, <3>1, <4>2, ShellingNext
      <3>2. CASE m = "x.run0"
        <4>1. ExecShape(a)'
          BY <2>3, <2>5, <2>7, <2>9, <2>10, <2>b, <3>2 DEF ExecShape, Whole
        <4> QED BY <2>11, <3>2, <4>1, ExecutingNext
      <3> QED BY <3>1, <3>2
    <2> QED BY <1>m, <2>2, <2>3, <2>12, SoleMove DEF Step
  <1>5. CASE ChannelRefused(a)
    <2>1. PICK l \in {"s.open", "x.open"}, m \in {"spawn", "x.clean"} : Step(t, l, m)
      BY <1>5 DEF ChannelRefused, t
    <2>2. /\ g' = g \/ g' = [g EXCEPT !["channel"] = 0]
          /\ UNCHANGED <<at, life, fp, on, unblocked, misuse>>
      BY <1>5 DEF ChannelRefused
    <2>3. SoleShape(t)
      BY <2>1, Alone DEF Step
    <2>4. Whole /\ g["channel"] = 0 /\ g["session"] # 0
      BY <2>1, <2>3, Shapes DEF Step
    <2>5. g' = g
      BY <2>2, <2>4, KindFacts DEF NativesTypeOK
    <2>6. pc'[t] = m /\ Whole'
      BY <2>1, <2>2, <2>4, <2>5, Moved DEF Step, Whole, Owned, CanRefuse, SessionOf, Linked
    <2>7. CASE m = "spawn"
      BY <1>m, <2>1, <2>2, <2>6, <2>7, SoleMove DEF Step
    <2>8. CASE m = "x.clean"
      <3>1. at[t] = FirstAt
        BY <2>1, PartFacts DEF Locals, LocalInv, Step
      <3>2. CleanShape(t)'
        BY <2>2, <2>4, <2>5, <3>1 DEF CleanShape, FirstAt, Whole, Owned, CanRefuse, SessionOf, Linked
      <3> QED BY <1>m, <2>1, <2>2, <2>6, <2>8, <3>2, SoleMove, CleanShapeNext DEF Step
    <2> QED BY <2>7, <2>8
  <1>6. ASSUME NEW l \in {"s.pty0", "s.pty"}, NEW m \in {"s.pty", "s.shell"}, Step(t, l, m),
               Enter(t, Using("channel", g["channel"])), UNCHANGED <<life, g, fp, on, unblocked>>
        PROVE  Good'
    <2>1. SoleShape(t)
      BY <1>6, Alone DEF Step
    <2>2. Whole /\ g["channel"] # 0
      BY <1>6, <2>1, Shapes DEF Step
    <2>3. ~misuse'
      BY <1>m, <1>6, <2>2, WholeLive DEF Enter
    <2>4. pc'[t] = m /\ Whole'
      BY <1>6, <2>2, Moved DEF Step, Whole, Owned, CanRefuse, SessionOf, Linked
    <2>5. SoleShape(t)'
      BY <1>6, <2>2, <2>4, ShellingNext
    <2> QED BY <1>6, <2>3, <2>5, SoleMove DEF Step
  <1>7. CASE RequestPty(a)
    BY <1>6, <1>7 DEF RequestPty, t
  <1>8. CASE RequestShell(a)
    BY <1>6, <1>8 DEF RequestShell, t
  <1>9. CASE PtyFailed(a)
    <2>1. /\ Step(t, "s.pty", "spawn") /\ Free(t, "channel", g["channel"])
          /\ g' = [g EXCEPT !["channel"] = 0] /\ UNCHANGED <<fp, on, unblocked>>
      BY <1>9 DEF PtyFailed, t
    <2>2. SoleShape(t) /\ \A u \in Threads : u # t => held[u] = {}
      BY <2>1, Alone DEF Step
    <2>3. Whole /\ g["channel"] # 0
      BY <2>1, <2>2, Shapes DEF Step
    <2>4. ~misuse' /\ Whole'
      BY <1>m, <2>1, <2>2, <2>3, FreedChannel
    <2> QED BY <2>1, <2>4, SoleMove DEF Step
  <1>10. CASE ShellStarted(a) \/ ShellRefused(a)
    <2>1. /\ Step(t, "s.shell", "spawn") /\ UNCHANGED <<life, g, fp, on>> /\ unblocked \subseteq unblocked'
          /\ misuse' \in {misuse, misuse \/ ~Live(<<"session", g["session"]>>)}
      BY <1>10 DEF ShellStarted, ShellRefused, natives, t
    <2>2. SoleShape(t)
      BY <2>1, Alone DEF Step
    <2>3. Whole /\ g["channel"] # 0
      BY <2>1, <2>2, Shapes DEF Step
    <2>4. Live(<<"session", g["session"]>>)
      BY <2>3, WholeLive DEF Whole, Linked
    <2>5. ~misuse' /\ Whole'
      BY <1>m, <2>1, <2>3, <2>4 DEF Whole, Owned, CanRefuse, SessionOf, Linked
    <2> QED BY <2>1, <2>5, SoleMove DEF Step
  <1>11. CASE ExecRun(a)
    <2>1. Step(t, "x.run0", "x.run") /\ Enter(t, Using("channel", a)) /\ UNCHANGED <<life, g, fp, on, unblocked>>
      BY <1>11 DEF ExecRun, t
    <2>2. SoleShape(t)
      BY <2>1, Alone DEF Step
    <2>3. ExecShape(a)
      BY <2>1, <2>2, Shapes DEF Step
    <2>4. g["session"] \in Attempts /\ life["session"][g["session"]] = "live"
      BY <2>3, IdFacts, KindFacts DEF ExecShape, Owned, CanRefuse, SessionOf, NativesTypeOK
    <2>5. \A o \in Using("channel", a) : Live(o)
      BY <2>3, <2>4 DEF Using, Live, ExecShape
    <2>6. ~misuse' /\ ExecShape(a)' /\ pc'[t] = "x.run"
      BY <1>m, <2>1, <2>3, <2>5, Moved DEF Enter, Step, ExecShape, Owned, CanRefuse, SessionOf
    <2>7. SoleShape(t)'
      BY <2>6, ExecutingNext
    <2> QED BY <2>1, <2>6, <2>7, SoleMove DEF Step
  <1>12. CASE ExecDone(a)
    <2>1. Step(t, "x.run", "x.clean") /\ Free(t, "channel", a) /\ UNCHANGED <<at, g, fp, on, unblocked>>
      BY <1>12 DEF ExecDone, t
    <2>2. SoleShape(t) /\ \A u \in Threads : u # t => held[u] = {}
      BY <2>1, Alone DEF Step
    <2>3. ExecShape(a)
      BY <2>1, <2>2, Shapes DEF Step
    <2>4. ~misuse'
      BY <1>m, <2>1, <2>2, <2>3 DEF Free, Live, ExecShape
    <2>5. /\ life'["session"] = life["session"] /\ life'["sock"] = life["sock"]
          /\ \A b \in Attempts : life'["channel"][b] = "live" => CanRefuse("channel", b)
      <3>1. ASSUME NEW j \in {"session", "sock"} PROVE life'[j] = life[j]
        BY <2>1, KindFacts DEF Free, FreeAll, Tree, NativesTypeOK
      <3>2. life'["channel"][a] # "live" \/ CanRefuse("channel", a)
        BY <2>1, FreeFacts, KindFacts
      <3>3. \A b \in Attempts \ {a} : life'["channel"][b] = "live" => CanRefuse("channel", b)
        BY <2>1, <2>3, FreeFacts, KindFacts DEF ExecShape
      <3> QED BY <3>1, <3>2, <3>3
    <2>6. Owned("channel")' /\ Owned("session")' /\ Owned("sock")'
      BY <2>1, <2>3, <2>5, IdFacts DEF ExecShape, Owned, CanRefuse, SessionOf
    <2>7. pc'[t] = "x.clean" /\ at[t] = FirstAt
      BY <2>1, PartFacts, Moved DEF Step, Locals, LocalInv
    <2>8. CleanShape(t)'
      BY <2>1, <2>3, <2>6, <2>7, KindFacts DEF CleanShape, FirstAt, ExecShape, Linked
    <2> QED BY <2>1, <2>4, <2>7, <2>8, SoleMove, CleanShapeNext DEF Step
  <1> QED BY <1>1, <1>2, <1>3, <1>4, <1>5, <1>7, <1>8, <1>9, <1>10, <1>11, <1>12 DEF DoShell

-----------------------------------------------------------------------------
\* Whoever moves stays outside the calls that make and free objects.
LEMMA IdleGood ==
    ASSUME IndInv, NoOverlap, UNCHANGED <<at, held, natives>>,
           \A t \in Threads : pc'[t] = pc[t] \/ (pc[t] \notin Sole /\ pc'[t] \in Outside)
    PROVE  Good'
  <1>1. ~overlap /\ Good
    BY DEF NoOverlap, IndInv
  <1>2. Whole => Whole'
    BY DEF Whole, Owned, CanRefuse, SessionOf, Linked, natives
  <1>3. ASSUME NEW u \in Threads, pc'[u] \in Sole PROVE SoleShape(u)'
    <2>1. pc'[u] = pc[u]
      BY <1>3, Disjoint
    <2>2. SoleShape(u)
      BY <1>1, <1>3, <2>1 DEF Good
    <2> QED BY <1>2, <2>1, <2>2 DEF SoleShape, CleanShape, Shed, ExecShape, Whole, Owned, CanRefuse, SessionOf, Linked, natives
  <1>4. (\A u \in Threads : pc'[u] \notin Sole) => Whole'
    <2> SUFFICES ASSUME \A u \in Threads : pc'[u] \notin Sole PROVE Whole'
      OBVIOUS
    <2>1. \A u \in Threads : pc[u] \notin Sole
      OBVIOUS
    <2> QED BY <1>1, <1>2, <2>1 DEF Good
  <1>5. \A u \in Threads : pc'[u] \in Shared => g'["channel"] # 0
    BY <1>1, Disjoint DEF Good, natives
  <1>6. ~misuse'
    BY <1>1 DEF Good, natives
  <1> QED BY <1>3, <1>4, <1>5, <1>6 DEF Good

LEMMA IoGood ==
    ASSUME IndInv, NoOverlap, NEW a \in Attempts, DoIo(a) \/ CheckFlags(a) \/ Start(a) \/ Close(a)
    PROVE  Good'
  <1> USE LocFacts, OutsideFacts, SharedFacts, CleaningFacts, Disjoint, ThreadFacts
  <1>0. ThreadsTypeOK /\ Good
    BY DEF IndInv, TypeOK, NoOverlap
  <1>1. CASE Write(a)
    <2>1. g["channel"] # 0 /\ Step(Worker(a), "loop", "w.in0") /\ UNCHANGED <<at, held, natives>>
      BY <1>1 DEF Write
    <2> QED BY <1>0, <2>1, OutMove DEF Step, natives, Good
  <1>2. CASE Read(a)
    <2>1. UNCHANGED <<at, held, natives>>
      BY <1>2 DEF Read
    <2>2. CASE g["channel"] = 0
      <3>1. Step(Reader(a), "call", "check")
        BY <1>2, <2>2 DEF Read
      <3> QED BY <1>0, <2>1, <3>1, OutMove DEF Step, natives, Good
    <2>3. CASE g["channel"] # 0
      <3>1. Step(Reader(a), "call", "r.in0")
        BY <1>2, <2>3 DEF Read
      <3> QED BY <1>0, <2>1, <2>3, <3>1, OutMove DEF Step, natives, Good
    <2> QED BY <2>2, <2>3
  <1>3. CASE WriteDone(a)
    <2>1. /\ Step(Worker(a), "w.in", "loop") /\ UNCHANGED <<at, natives>>
          /\ \A u \in Threads : u # Worker(a) => held'[u] = held[u]
      BY <1>0, <1>3 DEF WriteDone, Leave, ThreadsTypeOK
    <2> QED BY <1>0, <2>1, OutMove DEF Step, natives, Good
  <1>4. CASE ReadDone(a)
    <2>1. /\ Step(Reader(a), "r.in", "check") /\ UNCHANGED <<at, natives>>
          /\ \A u \in Threads : u # Reader(a) => held'[u] = held[u]
      BY <1>0, <1>4 DEF ReadDone, Leave, ThreadsTypeOK
    <2> QED BY <1>0, <2>1, OutMove DEF Step, natives, Good
  <1>5. CASE CheckFlags(a)
    <2>1. PICK l \in {"ended", "call"} : Step(Reader(a), "check", l)
      BY <1>5 DEF CheckFlags
    <2>2. UNCHANGED <<at, held, natives>>
      BY <1>5 DEF CheckFlags
    <2> QED BY <1>0, <2>1, <2>2, OutMove DEF Step, natives, Good
  <1>6. CASE Start(a)
    <2>1. Step(Worker(a), "off", "start") /\ UNCHANGED <<at, held, natives>>
      BY <1>6 DEF Start
    <2> QED BY <1>0, <2>1, OutMove DEF Step, natives, Good
  <1>7. CASE Close(a)
    <2>1. PICK l \in {"failed", "trust", "loop"} : Step(Worker(a), l, "k.clean")
      BY <1>7 DEF Close
    <2>2. UNCHANGED <<at, held, natives>>
      BY <1>7 DEF Close
    <2> QED BY <2>1, <2>2, CleanStartGood
  <1> QED BY <1>1, <1>2, <1>3, <1>4, <1>5, <1>6, <1>7 DEF DoIo

\* A read or write finds a live channel, for nobody is inside a call that
\* could free it.
LEMMA ChannelIoGood ==
    ASSUME IndInv, NoOverlap, NEW t \in Threads, ChannelIo(t)
    PROVE  Good'
  <1>0. ThreadsTypeOK /\ TypeOK /\ Good /\ ~OverlapNow
    BY DEF IndInv, TypeOK, NoOverlap
  <1>1. PICK l \in {"w.in0", "r.in0"}, m \in {"w.in", "r.in"} : Step(t, l, m)
    BY DEF ChannelIo
  <1>2. Enter(t, Using("channel", g["channel"])) /\ UNCHANGED <<at, life, g, fp, on, unblocked>>
    BY DEF ChannelIo
  <1>3. l \in Shared /\ m \in Shared /\ m \in Locations
    BY SharedFacts, Disjoint
  <1>4. g["channel"] # 0
    BY <1>0, <1>1, <1>3 DEF Good, Step
  <1>5. \A u \in Threads : pc[u] \notin Sole
    BY <1>0, <1>1, <1>3, Disjoint DEF OverlapNow, Step
  <1>6. Whole
    BY <1>0, <1>5 DEF Good
  <1>7. ~misuse' /\ \A u \in Threads : u # t => held'[u] = held[u]
    BY <1>0, <1>2, <1>4, <1>6, WholeLive DEF Enter, Good, ThreadsTypeOK
  <1> QED BY <1>1, <1>2, <1>3, <1>4, <1>7, OutMove, Disjoint DEF Step

LEMMA SpawnGood ==
    ASSUME IndInv, NoOverlap, NEW a \in Attempts, Spawn(a)
    PROVE  Good'
  <1>1. pc[Worker(a)] = "spawn" /\ UNCHANGED <<at, held, natives>>
    BY DEF Spawn
  <1>2. pc[Reader(a)] = "off"
    BY <1>1, PlaceFacts DEF IndInv, Locals, ReaderOff
  <1>3. \A t \in Threads : \/ pc'[t] = pc[t]
                           \/ t \in {Worker(a), Reader(a)} /\ pc'[t] \in {"loop", "check", "crashed"}
    BY ThreadFacts DEF Spawn, Goto, IndInv, TypeOK, ThreadsTypeOK
  <1> QED BY <1>1, <1>2, <1>3, IdleGood, OutsideFacts, Disjoint

-----------------------------------------------------------------------------
(* ssh_cleanup, statement by statement, while its thread is alone.         *)

LEMMA Stay ==
    ASSUME ThreadsTypeOK, NEW t \in Threads, UNCHANGED pc
    PROVE  Goto(t, pc[t]) /\ pc[t] \in Locations
  BY DEF Goto, ThreadsTypeOK

\* The next resource's turn, once this one is neither named nor alive.
LEMMA NextShape ==
    ASSUME NEW t \in Threads, TypeOK, CleanShape(t), at[t].k \in Kinds, ToNext(t),
           UNCHANGED <<life, on, unblocked>>,
           g' = [g EXCEPT ![at[t].k] = 0], Shed(at[t].k)
    PROVE  CleanShape(t)'
  <1> DEFINE k == at[t].k
  <1>1. NativesTypeOK /\ at'[t].k = After[k] /\ at'[t].part = "test"
    BY DEF ToNext, TypeOK, ThreadsTypeOK
  <1>2. \A j \in Kinds : g'[j] = IF j = k THEN 0 ELSE g[j]
    BY <1>1 DEF NativesTypeOK
  <1>3. ASSUME NEW j \in Kinds PROVE Owned(j)'
    BY <1>2, <1>3, IdFacts DEF CleanShape, Shed, Owned, CanRefuse, SessionOf
  <1>4. \/ k = "channel" /\ After[k] = "session"
        \/ k = "session" /\ After[k] = "sock"
        \/ k = "sock" /\ After[k] = "fp"
    BY KindFacts DEF After
  <1>5. g'["channel"] = 0
    BY <1>2, <1>4, KindFacts DEF CleanShape
  <1>6. k # "channel" => g'["session"] = 0
    BY <1>2, <1>4, KindFacts DEF CleanShape
  <1>7. k = "sock" => g'["sock"] = 0
    BY <1>2, KindFacts
  <1>8. g'["session"] \in {0, g'["sock"]}
    BY <1>2, <1>4, KindFacts DEF CleanShape
  <1> HIDE DEF k
  <1> QED BY <1>1, <1>3, <1>4, <1>5, <1>6, <1>7, <1>8 DEF CleanShape, Linked

LEMMA CleanTestShape ==
    ASSUME IndInv, NoOverlap, NEW t \in Threads, CleanTest(t), CleanShape(t), ~misuse
    PROVE  CleanShape(t)' /\ ~misuse'
  <1> DEFINE k == at[t].k
  <1>1. TypeOK /\ NativesTypeOK /\ k \in Kinds /\ at[t].part = "test"
    BY PlaceType DEF CleanTest, IndInv, TypeOK
  <1>2. \A j \in Kinds : Owned(j)
    BY <1>1 DEF CleanShape
  <1>3. CASE g[k] = 0
    <2>1. ToNext(t) /\ UNCHANGED <<life, on, unblocked, g, misuse>>
      BY <1>3 DEF CleanTest
    <2>2. g = [g EXCEPT ![k] = 0]
      BY <1>1, <1>3 DEF NativesTypeOK
    <2>3. Shed(k)
      BY <1>1, <1>2, <1>3, IdFacts DEF Owned, Shed
    <2> QED BY <1>1, <2>1, <2>2, <2>3, NextShape
  <1>4. CASE g[k] # 0
    <2>1. ToPart(t, "free") /\ Enter(t, IF k = "sock" THEN {} ELSE Using(k, g[k]))
      BY <1>4 DEF CleanTest
    <2>2. at'[t].k = k /\ at'[t].part = "free" /\ UNCHANGED <<life, g, on, unblocked>>
      BY <1>1, <2>1 DEF ToPart, TypeOK, ThreadsTypeOK, CleanTest
    <2>3. \A j \in Kinds : g[j] # 0 => Live(<<j, g[j]>>)
      BY <1>1, <1>2, IdFacts DEF Live, Owned, CanRefuse, SessionOf, NativesTypeOK
    <2>4. k # "sock" => \A o \in Using(k, g[k]) : Live(o)
      <3>1. CASE k = "channel"
        BY <1>4, <2>3, <3>1, KindFacts DEF Using, CleanShape, Linked
      <3>2. CASE k = "session"
        BY <1>4, <2>3, <3>2, KindFacts DEF Using
      <3> QED BY <1>1, <3>1, <3>2, KindFacts
    <2>5. ~misuse'
      BY <2>1, <2>4 DEF Enter
    <2> QED BY <1>2, <1>4, <2>2, <2>5 DEF CleanShape, Owned, CanRefuse, SessionOf, Linked
  <1> QED BY <1>3, <1>4

LEMMA CleanFreeShape ==
    ASSUME IndInv, NEW t \in Threads, CleanFree(t), CleanShape(t), ~misuse,
           \A u \in Threads : u # t => held[u] = {}
    PROVE  CleanShape(t)' /\ ~misuse'
  <1> DEFINE k == at[t].k
  <1>1. TypeOK /\ NativesTypeOK /\ k \in Kinds /\ at[t].part = "free"
    BY PlaceType DEF CleanFree, IndInv, TypeOK, Locals, LocalInv
  <1>2. g[k] # 0 /\ g[k] \in Attempts /\ \A j \in Kinds : Owned(j)
    BY <1>1, IdFacts DEF CleanShape, NativesTypeOK
  <1>3. Free(t, k, g[k]) /\ UNCHANGED <<g, on, unblocked>> /\ at'[t].k = k /\ at'[t].part = "null"
    BY <1>1 DEF CleanFree, ToPart, TypeOK, ThreadsTypeOK
  <1>4. ~misuse'
    BY <1>2, <1>3, <1>1 DEF Free, Live, Owned
  <1>c. \A j \in Kinds, a \in Attempts : CanRefuse(j, a)' <=> CanRefuse(j, a)
    BY <1>3 DEF CanRefuse, SessionOf
  <1>5. Shed(k)'
    BY <1>1, <1>2, <1>3, <1>c, FreeFacts DEF Owned, Shed
  <1>6. ASSUME NEW j \in Kinds, NEW a \in Attempts, j # k, g[j] = a PROVE life'[j][a] = "live"
    <2>1. ~(j = "channel" /\ k = "session")
      BY <1>1, <1>6, IdFacts DEF CleanShape
    <2>2. life[j][a] = "live"
      BY <1>2, <1>6 DEF Owned
    <2> QED BY <1>1, <1>2, <1>3, <1>6, <2>1, <2>2, FreeFacts
  <1>7. \A j \in Kinds : j # k => Owned(j)'
    BY <1>1, <1>2, <1>3, <1>6, <1>c, FreeFacts DEF Owned
  <1> QED BY <1>3, <1>4, <1>5, <1>7 DEF CleanShape, Linked

LEMMA CleanNullShape ==
    ASSUME IndInv, NEW t \in Threads, CleanNull(t), CleanShape(t), ~misuse
    PROVE  CleanShape(t)' /\ ~misuse'
  <1>1. TypeOK /\ at[t].k \in Kinds /\ at[t].part = "null"
    BY PlaceType DEF CleanNull, IndInv, TypeOK, Locals, LocalInv
  <1>2. ToNext(t) /\ UNCHANGED <<life, on, unblocked, misuse>> /\ g' = [g EXCEPT ![at[t].k] = 0]
    BY DEF CleanNull
  <1> QED BY <1>1, <1>2, NextShape DEF CleanShape

LEMMA CleanupGood ==
    ASSUME IndInv, NoOverlap, NEW t \in Threads, Cleanup(t)
    PROVE  Good'
  <1>0. ThreadsTypeOK /\ NativesTypeOK /\ pc[t] \in Cleaning
    BY DEF IndInv, TypeOK, Cleanup, CleanTest, CleanFree, CleanNull, CleanFp
  <1>a. pc[t] \in Sole /\ pc[t] \notin Shared
    BY <1>0, SoleFacts, Disjoint
  <1>1. CASE CleanTest(t) \/ CleanFree(t) \/ CleanNull(t)
    <2>1. UNCHANGED pc
      BY <1>1 DEF CleanTest, CleanFree, CleanNull
    <2>2. Goto(t, pc[t]) /\ pc[t] \in Locations
      BY <1>0, <2>1, Stay
    <2>3. Good /\ SoleShape(t) /\ \A u \in Threads : u # t => held[u] = {}
      BY <1>a, <2>2, Alone
    <2>4. CleanShape(t) /\ ~misuse
      BY <1>0, <2>3, Shapes DEF Good
    <2>5. CleanShape(t)' /\ ~misuse'
      BY <1>1, <2>3, <2>4, CleanTestShape, CleanFreeShape, CleanNullShape
    <2>6. SoleShape(t)'
      BY <1>0, <2>1, <2>5, CleanShapeNext
    <2> QED BY <1>a, <2>2, <2>5, <2>6, SoleMove, Disjoint
  <1>2. CASE CleanFp(t)
    <2>1. PICK l \in {"c.tcp", "failed", "ended", "x.clean"} : Goto(t, l)
      BY <1>0, <1>2 DEF CleanFp, AfterClean, Cleaning
    <2>2. l \in Locations /\ l \notin Shared
      BY LocFacts, SharedFacts DEF Shared
    <2>3. Good /\ SoleShape(t)
      BY <1>a, <2>1, <2>2, Alone
    <2>4. CleanShape(t) /\ ~misuse /\ at[t].k = "fp"
      BY <1>0, <1>2, <2>3, Shapes DEF Good, CleanFp
    <2>5. /\ \A j \in Kinds : Owned(j)
          /\ \A j \in Kinds : g[j] = 0
      BY <2>4, KindFacts DEF CleanShape
    <2>6. fp' = 0 /\ UNCHANGED <<life, g, on, unblocked, misuse>> /\ at'[t] = FirstAt /\ pc'[t] = l
      BY <1>0, <1>2, <2>1, Moved DEF CleanFp, ThreadsTypeOK
    <2>7. Whole' /\ ~misuse' /\ \A j \in Kinds : g'[j] = 0
      BY <2>4, <2>5, <2>6, KindFacts DEF Whole, Owned, CanRefuse, SessionOf, Linked
    <2>8. CASE l = "c.tcp"
      <3>1. SoleShape(t)'
        BY <2>6, <2>7, <2>8, PartFacts DEF SoleShape, Connecting, Shelling, Executing
      <3> QED BY <1>a, <2>1, <2>2, <2>7, <2>8, <3>1, SoleMove, SoleFacts, Disjoint
    <2>9. CASE l = "x.clean"
      <3>1. CleanShape(t)'
        BY <2>6, <2>7, KindFacts DEF CleanShape, FirstAt, Whole
      <3>2. SoleShape(t)'
        BY <2>6, <2>9, <3>1, CleanShapeNext, CleaningFacts
      <3> QED BY <1>a, <2>1, <2>2, <2>7, <2>9, <3>2, SoleMove, SoleFacts, CleaningFacts, Disjoint
    <2>10. CASE l \in {"failed", "ended"}
      BY <1>a, <2>1, <2>2, <2>7, <2>10, SoleMove, OutsideFacts, Disjoint
    <2> QED BY <2>8, <2>9, <2>10
  <1> QED BY <1>1, <1>2 DEF Cleanup

-----------------------------------------------------------------------------
(* Every step keeps the invariant.                                         *)

\* One thread or attempt takes its step, or stop_session is called.
Moves ==
    \/ \E t \in Threads : (Cleanup(t) \/ ChannelIo(t)) /\ UNCHANGED stopped
    \/ \E a \in Attempts : Call(a) /\ UNCHANGED stopped
    \/ \E a \in Attempts : Start(a) \/ Stop(a)

LEMMA StopIdle ==
    ASSUME TypeOK, Locals, NEW a \in Attempts, Stop(a)
    PROVE  Kept /\ UNCHANGED <<pc, at, held, natives>> /\ stopped' \in [Attempts -> BOOLEAN]
  <1>1. UNCHANGED <<pc, at, held, natives, history>> /\ stopped' \in [Attempts -> BOOLEAN]
    BY DEF Stop, TypeOK
  <1>2. ThreadsTypeOK' /\ NativesTypeOK' /\ HistoryTypeOK'
    BY <1>1 DEF TypeOK, ThreadsTypeOK, NativesTypeOK, HistoryTypeOK, natives, history
  <1>3. Locals'
    BY <1>1 DEF Locals, LocalInv, ReaderOff
  <1> QED BY <1>1, <1>2, <1>3 DEF Kept

LEMMA MovesKept ==
    ASSUME TypeOK, Locals, Moves
    PROVE  Kept /\ stopped' \in [Attempts -> BOOLEAN]
  <1>1. ASSUME NEW t \in Threads, (Cleanup(t) \/ ChannelIo(t)) /\ UNCHANGED stopped
        PROVE  Kept /\ stopped' \in [Attempts -> BOOLEAN]
    <2>1. PICK a \in Attempts : t \in {Worker(a), Reader(a)}
      BY DEF Threads, Worker, Reader
    <2> QED BY <1>1, <2>1, CleanupKept, IoKept DEF TypeOK
  <1>2. ASSUME NEW a \in Attempts, Call(a), UNCHANGED stopped
        PROVE  Kept /\ stopped' \in [Attempts -> BOOLEAN]
    BY <1>2, ConnectKept, ShellKept, IoKept, SpawnKept DEF Call, TypeOK
  <1>3. ASSUME NEW a \in Attempts, Start(a)
        PROVE  Kept /\ stopped' \in [Attempts -> BOOLEAN]
    BY <1>3, IoKept DEF Start, TypeOK
  <1> QED BY <1>1, <1>2, <1>3, StopIdle DEF Moves

LEMMA MovesGood ==
    ASSUME IndInv, NoOverlap, Moves
    PROVE  Good'
  <1>1. ASSUME NEW t \in Threads, Cleanup(t) \/ ChannelIo(t) PROVE Good'
    BY <1>1, CleanupGood, ChannelIoGood
  <1>2. ASSUME NEW a \in Attempts, Call(a) PROVE Good'
    BY <1>2, ConnectGood, ShellGood, IoGood, SpawnGood DEF Call
  <1>3. ASSUME NEW a \in Attempts, Start(a) PROVE Good'
    BY <1>3, IoGood
  <1>4. ASSUME NEW a \in Attempts, Stop(a) PROVE Good'
    <2>1. UNCHANGED <<pc, at, held, natives>>
      BY <1>4, StopIdle DEF IndInv
    <2> QED BY <2>1, IdleGood
  <1> QED BY <1>1, <1>2, <1>3, <1>4 DEF Moves

LEMMA StepInv == IndInv /\ [Next]_vars => IndInv'
  <1>1. ASSUME IndInv, Next PROVE IndInv'
    <2>1. Moves /\ overlap' = (overlap \/ OverlapNow') /\ mixed' = (mixed \/ MixedNow') /\ mode' = mode
      BY <1>1 DEF Next, Moves
    <2>2. Kept /\ stopped' \in [Attempts -> BOOLEAN]
      BY <1>1, <2>1, MovesKept DEF IndInv
    <2>3. overlap' \in BOOLEAN /\ mixed' \in BOOLEAN
      BY <2>1
    <2>4. TypeOK'
      BY <1>1, <2>1, <2>2, <2>3 DEF IndInv, TypeOK, Kept
    <2>5. OverlapNow' => overlap'
      BY <2>1
    <2>6. ~overlap' => Good'
      BY <1>1, <2>1, MovesGood DEF NoOverlap
    <2> QED BY <2>2, <2>4, <2>5, <2>6 DEF IndInv, Kept
  <1>2. ASSUME IndInv, UNCHANGED vars PROVE IndInv'
    <2>1. UNCHANGED <<pc, at, held, life, g, fp, on, unblocked, misuse, mode, stopped, overlap, mixed, sent, seen>>
      BY <1>2 DEF vars, natives, history
    <2>2. TypeOK'
      BY <1>2, <2>1 DEF IndInv, TypeOK, ThreadsTypeOK, NativesTypeOK, HistoryTypeOK
    <2>3. Locals' /\ (OverlapNow' => overlap')
      BY <1>2, <2>1 DEF IndInv, Locals, LocalInv, ReaderOff, OverlapNow
    <2>4. Good => Good'
      BY <2>1 DEF Good, SoleShape, CleanShape, Shed, ExecShape, Whole, Owned, CanRefuse, SessionOf, Linked
    <2> QED BY <1>2, <2>1, <2>2, <2>3, <2>4 DEF IndInv
  <1> QED BY <1>1, <1>2

LEMMA Invariant == Spec => []IndInv
  BY InitInv, StepInv, PTL DEF Spec

-----------------------------------------------------------------------------
(* The theorems.                                                           *)

\* Every variable keeps its type, whatever overlaps: every object a global
\* names, a call works on or a thread frees is one some attempt made.
THEOREM Typed == Spec => []TypeOK
  <1>1. IndInv => TypeOK
    BY DEF IndInv
  <1> QED BY <1>1, Invariant, PTL

\* For any number of attempts: unless a connect, open_shell, exec or close
\* overlaps another call, no call gets or loses a freed object and nothing is
\* freed twice, whatever fails inside the calls (modssh.c 57-390).
THEOREM NoMisuseHolds == Spec => []NoMisuse
  <1>1. IndInv => NoMisuse
    BY DEF IndInv, Good, NoMisuse
  <1> QED BY <1>1, Invariant, PTL

\* For any number of attempts: between calls that did not overlap, the globals
\* name live objects, a channel is on the session they name and that on its
\* socket, and what else is alive is a session or channel whose shell was
\* started and whose free refused (modssh.c 57-390).
THEOREM GlobalsOwn == Spec => []GlobalsOwnAll
  <1>1. IndInv => GlobalsOwnAll
    BY Disjoint DEF IndInv, Good, GlobalsOwnAll, Quiet
  <1> QED BY <1>1, Invariant, PTL

-----------------------------------------------------------------------------
(* What an attempt leaves behind.                                          *)

\* Nothing of the attempt is left but what was freed in vain.
Cleared(a) == /\ \A k \in Kinds : g[k] # a /\ (life[k][a] = "live" => CanRefuse(k, a))
              /\ fp # a

LeftInv == ~overlap => \A a \in Attempts : pc[Worker(a)] = "ended" => Cleared(a)

\* The thread goes on and does not end there.
Within(t) == \E l, m \in Locations : Step(t, l, m) /\ m # "ended"

LEMMA ConnectWithin ==
    ASSUME NEW a \in Attempts, DoConnect(a)
    PROVE  Within(Worker(a))
  <1> USE LocFacts DEF Within
  <1>1. CASE Connect(a)
    BY <1>1 DEF Connect
  <1>2. CASE TcpConnected(a)
    BY <1>2 DEF TcpConnected
  <1>3. CASE TcpFailed(a)
    <2>1. CASE mode[a] = "exec"
      BY <1>3, <2>1 DEF TcpFailed
    <2>2. CASE mode[a] # "exec"
      BY <1>3, <2>2 DEF TcpFailed
    <2> QED BY <2>1, <2>2
  <1>4. CASE SessionInit(a)
    BY <1>4 DEF SessionInit
  <1>5. CASE SessionInitFailed(a)
    BY <1>5 DEF SessionInitFailed
  <1>6. CASE Handshake(a)
    BY <1>6 DEF Handshake
  <1>7. CASE HandshakeDone(a)
    BY <1>7 DEF HandshakeDone
  <1>8. CASE HashAndAuth(a)
    BY <1>8 DEF HashAndAuth
  <1>9. CASE AuthDone(a)
    <2>1. CASE mode[a] = "exec"
      BY <1>9, <2>1 DEF AuthDone
    <2>2. CASE mode[a] # "exec"
      BY <1>9, <2>2 DEF AuthDone
    <2> QED BY <2>1, <2>2
  <1> QED BY <1>1, <1>2, <1>3, <1>4, <1>5, <1>6, <1>7, <1>8, <1>9 DEF DoConnect

LEMMA ShellWithin ==
    ASSUME NEW a \in Attempts, DoShell(a)
    PROVE  Within(Worker(a))
  <1> USE LocFacts DEF Within
  <1>1. CASE GetFingerprint(a)
    BY <1>1 DEF GetFingerprint
  <1>2. CASE OpenShell(a)
    <2>1. CASE g["session"] = 0
      BY <1>2, <2>1 DEF OpenShell
    <2>2. CASE g["session"] # 0
      BY <1>2, <2>2 DEF OpenShell
    <2> QED BY <2>1, <2>2
  <1>3. CASE ChannelOpen(a)
    BY <1>3 DEF ChannelOpen
  <1>4. CASE ChannelOpened(a)
    BY <1>4 DEF ChannelOpened
  <1>5. CASE ChannelRefused(a)
    BY <1>5 DEF ChannelRefused
  <1>6. CASE RequestPty(a)
    BY <1>6 DEF RequestPty
  <1>7. CASE PtyFailed(a)
    BY <1>7 DEF PtyFailed
  <1>8. CASE RequestShell(a)
    BY <1>8 DEF RequestShell
  <1>9. CASE ShellStarted(a) \/ ShellRefused(a)
    BY <1>9 DEF ShellStarted, ShellRefused
  <1>10. CASE ExecRun(a)
    BY <1>10 DEF ExecRun
  <1>11. CASE ExecDone(a)
    BY <1>11 DEF ExecDone
  <1> QED BY <1>1, <1>2, <1>3, <1>4, <1>5, <1>6, <1>7, <1>8, <1>9, <1>10, <1>11 DEF DoShell

LEMMA IoWithin ==
    ASSUME NEW a \in Attempts, Write(a) \/ WriteDone(a) \/ Close(a) \/ Start(a)
    PROVE  Within(Worker(a))
  BY LocFacts DEF Within, Write, WriteDone, Close, Start

LEMMA ChannelIoWithin ==
    ASSUME NEW t \in Threads, ChannelIo(t)
    PROVE  Within(t)
  <1>1. CASE Step(t, "w.in0", "w.in")
    BY <1>1, LocFacts DEF Within
  <1>2. CASE Step(t, "r.in0", "r.in")
    BY <1>2, LocFacts DEF Within
  <1> QED BY <1>1, <1>2 DEF ChannelIo

\* Whoever moves, a worker ends only in the last statement of ssh_cleanup.
LEMMA MovesWithin ==
    ASSUME TypeOK, Moves, NEW a \in Attempts, pc'[Worker(a)] = "ended", pc[Worker(a)] # "ended"
    PROVE  CleanFp(Worker(a))
  <1> DEFINE w == Worker(a)
  <1>0. /\ ThreadsTypeOK /\ w \in Threads /\ \A b \in Attempts : Reader(b) # w
        /\ pc'[w] = "ended" /\ pc[w] # "ended"
    BY ThreadFacts DEF TypeOK
  <1> HIDE DEF w
  <1>1. ASSUME NEW t \in Threads, Within(t) PROVE FALSE
    <2>1. PICK l, m \in Locations : Step(t, l, m) /\ m # "ended"
      BY <1>1 DEF Within
    <2>2. pc'[t] = m /\ \A u \in Threads : u # t => pc'[u] = pc[u]
      BY <1>0, <2>1, Moved DEF Step
    <2> QED BY <1>0, <2>1, <2>2
  <1>2. pc' # pc
    BY <1>0
  <1>3. ASSUME NEW t \in Threads, NEW l, t # w, Goto(t, l) PROVE FALSE
    BY <1>0, <1>3, Moved
  <1>4. ASSUME NEW t \in Threads, Cleanup(t) PROVE CleanFp(w)
    <2>1. CleanFp(t)
      BY <1>2, <1>4 DEF Cleanup, CleanTest, CleanFree, CleanNull
    <2> QED BY <1>3, <2>1 DEF CleanFp
  <1>5. ASSUME NEW t \in Threads, ChannelIo(t) PROVE FALSE
    BY <1>1, <1>5, ChannelIoWithin
  <1>6. ASSUME NEW b \in Attempts, Call(b) \/ Start(b) \/ Stop(b) PROVE FALSE
    <2>1. CASE DoConnect(b) \/ DoShell(b) \/ Write(b) \/ WriteDone(b) \/ Close(b) \/ Start(b)
      BY <1>1, <2>1, ConnectWithin, ShellWithin, IoWithin, ThreadFacts
    <2>2. CASE Read(b) \/ ReadDone(b) \/ CheckFlags(b)
      <3>1. \E l : Goto(Reader(b), l)
        BY <2>2 DEF Read, ReadDone, CheckFlags, Step
      <3> QED BY <1>0, <1>3, <3>1, ThreadFacts
    <2>3. CASE Spawn(b)
      BY <1>0, <2>3, ThreadFacts DEF Spawn, Goto, ThreadsTypeOK
    <2>4. CASE Stop(b)
      BY <1>2, <2>4 DEF Stop
    <2> QED BY <1>6, <2>1, <2>2, <2>3, <2>4 DEF Call, DoIo
  <1> QED BY <1>4, <1>5, <1>6 DEF Moves, w

\* A step that makes no object of an attempt, and names none, keeps it cleared.
LEMMA ClearedKept ==
    ASSUME TypeOK, NEW a \in Attempts, Cleared(a), \A k \in Kinds : g'[k] # a,
           \/ UNCHANGED life
           \/ \E k \in Kinds, i \in Ids : i # a /\ Create(k, i)
           \/ \E t \in Threads, k \in Kinds, i \in Ids : Free(t, k, i),
           fp' \in {0, fp, g["session"]}, on'[a] = on[a], unblocked \subseteq unblocked'
    PROVE  Cleared(a)'
  <1>1. fp' # a
    BY IdFacts, KindFacts DEF Cleared
  <1>2. ASSUME NEW k \in Kinds, life'[k][a] = "live" PROVE CanRefuse(k, a)'
    <2>0. /\ life \in [Kinds -> [Ids -> {"none", "live", "freed"}]]
          /\ a \in Ids
      BY IdFacts DEF TypeOK, NativesTypeOK
    <2>1. life[k][a] = "live"
      <3>1. ASSUME NEW j \in Kinds, NEW i \in Ids, i # a, Create(j, i) PROVE life[k][a] = "live"
        <4>1. life' = [life EXCEPT ![j][i] = "live"]
          BY <3>1 DEF Create
        <4> QED BY <1>2, <2>0, <3>1, <4>1
      <3>2. ASSUME NEW t \in Threads, NEW j \in Kinds, NEW i \in Ids, Free(t, j, i)
            PROVE  life[k][a] = "live"
        <4>1. CASE FreeAll(Tree(j, i))
          <5>1. life'[k][a] = IF <<k, a>> \in Tree(j, i) THEN "freed" ELSE life[k][a]
            BY <2>0, <4>1 DEF FreeAll
          <5> QED BY <1>2, <5>1
        <4>2. CASE UNCHANGED life
          BY <1>2, <4>2
        <4> QED BY <3>2, <4>1, <4>2 DEF Free
      <3> QED BY <1>2, <3>1, <3>2
    <2> QED BY <2>1 DEF Cleared, CanRefuse, SessionOf
  <1> QED BY <1>1, <1>2 DEF Cleared

LEMMA MovesCleared ==
    ASSUME TypeOK, Locals, Moves, NEW a \in Attempts, pc[Worker(a)] = "ended", Cleared(a)
    PROVE  Cleared(a)'
  <1>0. /\ NativesTypeOK /\ \A k \in Kinds : g[k] # a
        /\ \A k \in Kinds : g[k] \in Ids
    BY DEF TypeOK, NativesTypeOK, Cleared
  <1> USE KindFacts, IdFacts, ThreadFacts
  <1>1. ASSUME NEW b \in Attempts, DoConnect(b) PROVE Cleared(a)'
    <2>1. a # b
      BY <1>1 DEF DoConnect, Connect, TcpConnected, TcpFailed, SessionInit, SessionInitFailed,
                  Handshake, HandshakeDone, HashAndAuth, AuthDone, Step
    <2>2. \A k \in Kinds : g'[k] # a
      BY <1>0, <1>1, <2>1 DEF DoConnect, Connect, TcpConnected, TcpFailed, SessionInit,
                  SessionInitFailed, Handshake, HandshakeDone, HashAndAuth, AuthDone, NativesTypeOK, natives
    <2>3. \/ UNCHANGED life
          \/ \E k \in Kinds, i \in Ids : i # a /\ Create(k, i)
      BY <1>1, <2>1 DEF DoConnect, Connect, TcpConnected, TcpFailed, SessionInit,
                  SessionInitFailed, Handshake, HandshakeDone, HashAndAuth, AuthDone, natives
    <2>4. fp' \in {0, fp, g["session"]}
      BY <1>1 DEF DoConnect, Connect, TcpConnected, TcpFailed, SessionInit,
                  SessionInitFailed, Handshake, HandshakeDone, HashAndAuth, AuthDone, natives
    <2>5. UNCHANGED <<on, unblocked>>
      BY <1>1 DEF DoConnect, Connect, TcpConnected, TcpFailed, SessionInit, SessionInitFailed,
                  Handshake, HandshakeDone, HashAndAuth, AuthDone, natives
    <2> QED BY <2>2, <2>3, <2>4, <2>5, ClearedKept
  <1>2. ASSUME NEW b \in Attempts, DoShell(b) PROVE Cleared(a)'
    <2>1. a # b
      BY <1>2 DEF DoShell, GetFingerprint, OpenShell, ChannelOpen, ChannelOpened, ChannelRefused,
                  RequestPty, PtyFailed, RequestShell, ShellStarted, ShellRefused, ExecRun, ExecDone, Step
    <2>2. \A k \in Kinds : g'[k] # a
      BY <1>0, <1>2, <2>1 DEF DoShell, GetFingerprint, OpenShell, ChannelOpen, ChannelOpened,
                  ChannelRefused, RequestPty, PtyFailed, RequestShell, ShellStarted, ShellRefused, ExecRun, ExecDone,
                  NativesTypeOK, natives
    <2>3. \/ UNCHANGED life
          \/ \E k \in Kinds, i \in Ids : i # a /\ Create(k, i)
          \/ \E t \in Threads, k \in Kinds, i \in Ids : Free(t, k, i)
      BY <1>0, <1>2, <2>1 DEF DoShell, GetFingerprint, OpenShell, ChannelOpen, ChannelOpened,
                  ChannelRefused, RequestPty, PtyFailed, RequestShell, ShellStarted, ShellRefused, ExecRun, ExecDone,
                  natives
    <2>4. fp' \in {0, fp, g["session"]}
      BY <1>2 DEF DoShell, GetFingerprint, OpenShell, ChannelOpen, ChannelOpened,
                  ChannelRefused, RequestPty, PtyFailed, RequestShell, ShellStarted, ShellRefused, ExecRun, ExecDone,
                  natives
    <2>5. unblocked \subseteq unblocked'
      BY <1>2 DEF DoShell, GetFingerprint, OpenShell, ChannelOpen, ChannelOpened,
                  ChannelRefused, RequestPty, PtyFailed, RequestShell, ShellStarted, ShellRefused,
                  ExecRun, ExecDone, natives
    <2>6. on'[a] = on[a]
      <3>1. CASE ChannelOpened(b)
        BY <2>1, <3>1 DEF ChannelOpened, TypeOK, NativesTypeOK
      <3>2. CASE ~ChannelOpened(b)
        BY <1>2, <3>2 DEF DoShell, GetFingerprint, OpenShell, ChannelOpen, ChannelRefused,
                  RequestPty, PtyFailed, RequestShell, ShellStarted, ShellRefused, ExecRun, ExecDone,
                  natives
      <3> QED BY <3>1, <3>2
    <2> QED BY <2>2, <2>3, <2>4, <2>5, <2>6, ClearedKept
  <1>3. ASSUME UNCHANGED <<life, g, fp, on, unblocked>> PROVE Cleared(a)'
    BY <1>3 DEF Cleared, CanRefuse, SessionOf
  <1>4. ASSUME NEW t \in Threads, CleanTest(t) \/ ChannelIo(t) PROVE Cleared(a)'
    BY <1>3, <1>4 DEF CleanTest, ChannelIo
  <1>5. ASSUME NEW t \in Threads, CleanFree(t) PROVE Cleared(a)'
    <2>1. at[t].k \in Kinds
      BY <1>5, PlaceType DEF CleanFree, Locals, LocalInv, TypeOK
    <2> QED BY <1>0, <1>5, <2>1, ClearedKept DEF CleanFree
  <1>6. ASSUME NEW t \in Threads, CleanNull(t) PROVE Cleared(a)'
    <2>1. \A k \in Kinds : g'[k] # a
      BY <1>0, <1>6 DEF CleanNull, NativesTypeOK
    <2> QED BY <1>6, <2>1, ClearedKept DEF CleanNull
  <1>7. ASSUME NEW t \in Threads, CleanFp(t) PROVE Cleared(a)'
    BY <1>0, <1>7, ClearedKept DEF CleanFp
  <1>8. ASSUME NEW b \in Attempts, DoIo(b) \/ Spawn(b) \/ Close(b) \/ CheckFlags(b) \/ Start(b) \/ Stop(b)
        PROVE  Cleared(a)'
    BY <1>3, <1>8 DEF DoIo, Write, Read, WriteDone, ReadDone, Spawn, Close, CheckFlags, Start, Stop, natives
  <1> QED BY <1>1, <1>2, <1>4, <1>5, <1>6, <1>7, <1>8 DEF Moves, Cleanup, Call

\* When the worker is through with ssh_cleanup, everybody is cleared.
LEMMA CleanFpCleared ==
    ASSUME IndInv, NoOverlap, NEW a \in Attempts, CleanFp(Worker(a))
    PROVE  Cleared(a)'
  <1> DEFINE t == Worker(a)
  <1>0. t \in Threads /\ CleanFp(t) /\ pc[t] \in Cleaning /\ ThreadsTypeOK
    BY ThreadFacts DEF CleanFp, IndInv, TypeOK
  <1> HIDE DEF t
  <1>1. pc[t] \in Sole
    BY <1>0, SoleFacts
  <1>2. SoleShape(t)
    BY <1>0, <1>1 DEF NoOverlap, IndInv, Good
  <1>3. CleanShape(t) /\ at[t].k = "fp"
    BY <1>0, <1>2, Shapes DEF CleanFp
  <1>4. \A k \in Kinds : Owned(k) /\ g[k] = 0
    BY <1>3, KindFacts DEF CleanShape
  <1>5. fp' = 0 /\ UNCHANGED <<life, g, on, unblocked>>
    BY <1>0 DEF CleanFp
  <1> QED BY <1>4, <1>5, IdFacts DEF Cleared, Owned, CanRefuse, SessionOf

LEMMA LeftStep == IndInv /\ LeftInv /\ [Next]_vars => LeftInv'
  <1>1. ASSUME IndInv, LeftInv, Next PROVE LeftInv'
    <2>1. Moves /\ overlap' = (overlap \/ OverlapNow') /\ TypeOK /\ Locals
      BY <1>1 DEF Next, Moves, IndInv
    <2>2. ASSUME NEW a \in Attempts, ~overlap', pc'[Worker(a)] = "ended" PROVE Cleared(a)'
      <3>0. NoOverlap /\ ~overlap
        BY <2>1, <2>2 DEF NoOverlap
      <3>1. CASE pc[Worker(a)] = "ended"
        BY <1>1, <2>1, <3>0, <3>1, MovesCleared DEF LeftInv
      <3>2. CASE pc[Worker(a)] # "ended"
        BY <1>1, <2>1, <2>2, <3>0, <3>2, MovesWithin, CleanFpCleared
      <3> QED BY <3>1, <3>2
    <2> QED BY <2>2 DEF LeftInv
  <1>2. ASSUME LeftInv, UNCHANGED vars PROVE LeftInv'
    BY <1>2 DEF LeftInv, Cleared, CanRefuse, SessionOf, vars, natives
  <1> QED BY <1>1, <1>2

\* For any number of attempts: unless a call overlapped one that makes or frees
\* objects, an attempt that has ended, on whichever path, leaves nothing of its
\* own in the globals and no socket, and a session or channel only if its shell
\* was started and the free refused (modssh.c 57-73, 115-163, 366-390,
\* worker.py 117-136).
THEOREM NothingIsLeft == Spec => []NothingLeft
  <1>1. Init => LeftInv
    BY ThreadFacts DEF Init, LeftInv
  <1>2. LeftInv => NothingLeft
    BY DEF LeftInv, NothingLeft, Cleared
  <1> QED BY <1>1, <1>2, LeftStep, Invariant, PTL DEF Spec

-----------------------------------------------------------------------------
(* While attempts run one at a time, the globals are the attempt's own.    *)

\* Nothing of the native module is the attempt's yet, or any more.
Before == {"off", "start", "c.clean", "ended", "crashed"}

\* From the clean-up of connect to the channel of open_shell.
Chanless == {"c.tcp", "c.init", "c.hs0", "c.hs", "c.hash", "c.auth", "c.fail", "failed", "up",
             "trust", "s.open0", "s.open", "x.open0", "x.open", "x.run0", "x.run", "x.clean"}

ReaderPlaces == {"off", "check", "call", "r.in0", "r.in", "ended"}

\* What ssh_cleanup has set to NULL when it is at a resource.
Swept(k) ==
    /\ k # "channel" => g["channel"] = 0
    /\ k \in {"sock", "fp"} => g["session"] = 0
    /\ k = "fp" => g["sock"] = 0

Ours(a) ==
    /\ \A k \in Kinds : g[k] \in {0, a}
    /\ fp \in {0, a}
    /\ g["channel"] # 0 => on[a] = a

\* What holds of the attempt whose worker is somewhere in its calls: once connect
\* has cleaned up, every global is NULL or made by it, so are the objects its
\* calls work on, and its channel was opened on its session.
OwnOf(a) ==
    LET l == pc[Worker(a)] IN
    /\ l = "c.clean" => Swept(at[Worker(a)].k)
    /\ l \notin Before => Ours(a)
    /\ l \in Chanless => g["channel"] = 0
    /\ l = "s.open0" => g["session"] = a
    /\ l = "s.open" => held[Worker(a)] = {<<"session", a>>}
    /\ l = "w.in0" => g["channel"] = a
    /\ l = "w.in" => \A o \in held[Worker(a)] : o[1] = "session" => o[2] = a

OwnInv ==
    /\ MixedNow => mixed
    /\ \A a \in Attempts : pc[Reader(a)] \in ReaderPlaces
    /\ ~mixed => \A a \in Attempts : OwnOf(a)
    /\ OwnSession

\* Where the conjuncts of OwnOf bite, and where they do not.
LEMMA OwnPlaceFacts ==
    /\ Before = {"off", "start", "c.clean", "ended", "crashed"}
    /\ \A l \in Chanless : l \notin Before /\ l \notin {"w.in0", "w.in"}
    /\ \A l \in {"c.tcp", "c.init", "c.hs0", "c.hs", "c.hash", "c.auth", "c.fail", "failed", "up",
                 "trust", "s.open0", "s.open", "x.open0", "x.open", "x.run0", "x.run", "x.clean"} :
          l \in Chanless
    /\ \A l \in {"s.pty0", "s.pty", "s.shell", "spawn", "loop", "w.in0", "w.in", "r.in0", "r.in",
                 "k.clean", "check", "call"} :
          l \notin Chanless /\ l \notin Before
    /\ \A l \in Before : l \notin Chanless
  BY DEF Before, Chanless

\* The threads of one attempt move; nobody else is under way.
LEMMA OwnAlone ==
    ASSUME ThreadsTypeOK, ThreadsTypeOK', NEW a \in Attempts, MixedNow => mixed,
           mixed' = (mixed \/ MixedNow'), ~mixed',
           \A t \in Threads : t[1] # a => pc'[t] = pc[t],
           Underway(a) \/ Underway(a)'
    PROVE  \A b \in Attempts \ {a} : pc'[Worker(b)] \in {"off"} \cup Over
  <1> SUFFICES ASSUME NEW b \in Attempts \ {a} PROVE pc'[Worker(b)] \in {"off"} \cup Over
    OBVIOUS
  <1>1. b \in Attempts /\ b # a /\ Worker(b)[1] # a /\ Reader(b)[1] # a
        /\ Worker(b) \in Threads /\ Reader(b) \in Threads
    BY ThreadFacts
  <1>2. pc'[Worker(b)] = pc[Worker(b)] /\ pc'[Reader(b)] = pc[Reader(b)]
    BY <1>1
  <1>3. Underway(b)' <=> Underway(b)
    BY <1>2 DEF Underway
  <1>4. ~MixedNow /\ ~MixedNow'
    OBVIOUS
  <1>5. ~Underway(b)
    BY <1>1, <1>3, <1>4 DEF MixedNow
  <1> QED BY <1>2, <1>5 DEF Underway

LEMMA ConnectOwn ==
    ASSUME TypeOK, Locals, NEW a \in Attempts, DoConnect(a), OwnOf(a)
    PROVE  OwnOf(a)' /\ UNCHANGED history
  <1> DEFINE t == Worker(a)
  <1>0. /\ t \in Threads /\ a \in Ids /\ t[1] = a
        /\ ThreadsTypeOK /\ g \in [Kinds -> Ids]
    BY ThreadFacts, IdFacts DEF TypeOK, NativesTypeOK
  <1>m. ASSUME NEW l, NEW m, Step(t, l, m) PROVE pc[t] = l /\ pc'[t] = m
    BY <1>0, <1>m, Moved DEF Step
  <1>o. ASSUME pc[t] \in Chanless PROVE Ours(a) /\ g["channel"] = 0
    BY <1>o, OwnPlaceFacts DEF OwnOf
  <1>c. ASSUME pc'[t] \in Chanless, pc'[t] \notin {"s.open0", "s.open"}, Ours(a)', g'["channel"] = 0
        PROVE  OwnOf(a)'
    BY <1>c, OwnPlaceFacts DEF OwnOf
  <1>h. UNCHANGED history
    BY DEF DoConnect, Connect, TcpConnected, TcpFailed, SessionInit, SessionInitFailed,
           Handshake, HandshakeDone, HashAndAuth, AuthDone
  <1> HIDE DEF t
  <1> USE <1>0, <1>h, KindFacts, IdFacts, OwnPlaceFacts
  <1>1. CASE Connect(a)
    <2>1. pc[t] = "start" /\ pc'[t] = "c.clean"
      BY <1>1, <1>m DEF Connect, t
    <2>2. at'[t].k = "channel"
      BY <1>1, <2>1, CleaningFacts DEF Connect, Locals, LocalInv, FirstAt, Cleaning
    <2> QED BY <2>1, <2>2 DEF OwnOf, Swept, t
  <1>2. CASE TcpConnected(a)
    <2>1. pc[t] = "c.tcp" /\ pc'[t] = "c.init"
      BY <1>2, <1>m DEF TcpConnected, t
    <2>2. Ours(a)' /\ g'["channel"] = 0
      BY <1>2, <1>o, <2>1 DEF TcpConnected, Ours
    <2> QED BY <1>c, <2>1, <2>2
  <1>3. CASE TcpFailed(a)
    <2>1. pc[t] = "c.tcp" /\ pc'[t] \in {"x.clean", "failed"}
      BY <1>3, <1>m DEF TcpFailed, t
    <2>2. Ours(a)' /\ g'["channel"] = 0
      BY <1>3, <1>o, <2>1 DEF TcpFailed, Ours
    <2> QED BY <1>c, <2>1, <2>2
  <1>4. CASE SessionInit(a)
    <2>1. pc[t] = "c.init" /\ pc'[t] = "c.hs0"
      BY <1>4, <1>m DEF SessionInit, t
    <2>2. Ours(a)' /\ g'["channel"] = 0
      BY <1>4, <1>o, <2>1 DEF SessionInit, Ours
    <2> QED BY <1>c, <2>1, <2>2
  <1>5. CASE SessionInitFailed(a)
    <2>1. pc[t] = "c.init" /\ pc'[t] = "c.fail"
      BY <1>5, <1>m DEF SessionInitFailed, t
    <2>2. Ours(a)' /\ g'["channel"] = 0
      BY <1>5, <1>o, <2>1 DEF SessionInitFailed, Ours
    <2> QED BY <1>c, <2>1, <2>2
  <1>6. CASE Handshake(a)
    <2>1. pc[t] = "c.hs0" /\ pc'[t] = "c.hs"
      BY <1>6, <1>m DEF Handshake, t
    <2>2. Ours(a)' /\ g'["channel"] = 0
      BY <1>6, <1>o, <2>1 DEF Handshake, Ours
    <2> QED BY <1>c, <2>1, <2>2
  <1>7. CASE HandshakeDone(a)
    <2>1. pc[t] = "c.hs" /\ pc'[t] \in {"c.hash", "c.fail"}
      BY <1>7, <1>m DEF HandshakeDone, t
    <2>2. Ours(a)' /\ g'["channel"] = 0
      BY <1>7, <1>o, <2>1 DEF HandshakeDone, Ours, natives
    <2> QED BY <1>c, <2>1, <2>2
  <1>8. CASE HashAndAuth(a)
    <2>1. pc[t] = "c.hash" /\ pc'[t] = "c.auth"
      BY <1>8, <1>m DEF HashAndAuth, t
    <2>2. Ours(a)' /\ g'["channel"] = 0
      BY <1>8, <1>o, <2>1 DEF HashAndAuth, Ours
    <2> QED BY <1>c, <2>1, <2>2
  <1>9. CASE AuthDone(a)
    <2>1. pc[t] = "c.auth" /\ pc'[t] \in {"x.open0", "up", "c.fail"}
      BY <1>9, <1>m DEF AuthDone, t
    <2>2. Ours(a)' /\ g'["channel"] = 0
      BY <1>9, <1>o, <2>1 DEF AuthDone, Ours, natives
    <2> QED BY <1>c, <2>1, <2>2
  <1> QED BY <1>1, <1>2, <1>3, <1>4, <1>5, <1>6, <1>7, <1>8, <1>9 DEF DoConnect

LEMMA ShellOwn ==
    ASSUME TypeOK, Locals, NEW a \in Attempts, DoShell(a), OwnOf(a)
    PROVE  OwnOf(a)' /\ sent' = sent /\ \E i \in {0, a} : seen' \in {seen, [seen EXCEPT ![a] = i]}
  <1> DEFINE t == Worker(a)
  <1>0. /\ t \in Threads /\ a \in Ids /\ t[1] = a
        /\ ThreadsTypeOK /\ g \in [Kinds -> Ids] /\ on \in [Ids -> Ids]
        /\ held \in [Threads -> SUBSET Objects] /\ seen \in [Attempts -> Ids]
    BY ThreadFacts, IdFacts DEF TypeOK, NativesTypeOK, ThreadsTypeOK, HistoryTypeOK
  <1>m. ASSUME NEW l, NEW m, Step(t, l, m) PROVE pc[t] = l /\ pc'[t] = m
    BY <1>0, <1>m, Moved DEF Step
  <1>o. ASSUME pc[t] \in Chanless PROVE Ours(a) /\ g["channel"] = 0
    BY <1>o, OwnPlaceFacts DEF OwnOf
  <1>p. ASSUME pc[t] \in {"s.pty0", "s.pty", "s.shell", "spawn"} PROVE Ours(a)
    BY <1>p, OwnPlaceFacts DEF OwnOf
  <1>c. ASSUME pc'[t] \in Chanless, pc'[t] \notin {"s.open0", "s.open"}, Ours(a)', g'["channel"] = 0
        PROVE  OwnOf(a)'
    BY <1>c, OwnPlaceFacts DEF OwnOf
  <1>d. ASSUME pc'[t] \in {"s.pty0", "s.pty", "s.shell", "spawn"}, Ours(a)' PROVE OwnOf(a)'
    BY <1>d, OwnPlaceFacts DEF OwnOf
  <1> HIDE DEF t
  <1> USE <1>0, KindFacts, IdFacts, OwnPlaceFacts DEF history
  <1>1. CASE GetFingerprint(a)
    <2>1. pc[t] = "up" /\ pc'[t] = "trust" /\ sent' = sent
      BY <1>1, <1>m DEF GetFingerprint, t
    <2>2. Ours(a)' /\ g'["channel"] = 0 /\ fp \in {0, a} /\ seen' = [seen EXCEPT ![a] = fp]
      BY <1>1, <1>o, <2>1 DEF GetFingerprint, Ours, natives
    <2>3. OwnOf(a)'
      BY <1>c, <2>1, <2>2
    <2>4. \E i \in {0, a} : seen' \in {seen, [seen EXCEPT ![a] = i]}
      BY <2>2
    <2> QED BY <2>1, <2>3, <2>4
  <1>2. CASE OpenShell(a)
    <2>1. pc[t] = "trust"
      BY <1>2, <1>m DEF OpenShell, t
    <2>2. Ours(a)' /\ g' = g /\ g["channel"] = 0 /\ UNCHANGED history /\ g["session"] \in {0, a}
      BY <1>2, <1>o, <2>1 DEF OpenShell, Ours
    <2>3. CASE g["session"] = 0
      <3>1. pc'[t] = "spawn"
        BY <1>2, <1>m, <2>3 DEF OpenShell, t
      <3> QED BY <1>d, <2>2, <3>1
    <2>4. CASE g["session"] # 0
      <3>1. pc'[t] = "s.open0"
        BY <1>2, <1>m, <2>4 DEF OpenShell, t
      <3>2. OwnOf(a)'
        BY <2>2, <2>4, <3>1 DEF OwnOf, t
      <3> QED BY <2>2, <3>2
    <2> QED BY <2>3, <2>4
  <1>3. CASE ChannelOpen(a)
    <2>1. pc[t] \in Chanless
      BY <1>3, <1>m DEF ChannelOpen, t
    <2>2. Ours(a)' /\ g' = g /\ g["channel"] = 0 /\ UNCHANGED history
      BY <1>3, <1>o, <2>1 DEF ChannelOpen, Ours
    <2>3. CASE Step(t, "s.open0", "s.open")
      <3>1. pc[t] = "s.open0" /\ pc'[t] = "s.open" /\ g["session"] = a
        BY <1>m, <2>3 DEF OwnOf, t
      <3>2. held'[t] = {<<"session", a>>}
        BY <1>3, <3>1 DEF ChannelOpen, Enter, Using, t
      <3>3. OwnOf(a)'
        BY <2>2, <3>1, <3>2 DEF OwnOf, t
      <3> QED BY <2>2, <3>3
    <2>4. CASE Step(t, "x.open0", "x.open")
      <3>1. pc'[t] = "x.open"
        BY <1>m, <2>4
      <3> QED BY <1>c, <2>2, <3>1
    <2> QED BY <1>3, <2>3, <2>4 DEF ChannelOpen, t
  <1>4. CASE ChannelOpened(a)
    <2>1. pc[t] \in Chanless /\ UNCHANGED history /\ fp' = fp
      BY <1>4, <1>m DEF ChannelOpened, t
    <2>2. CASE Step(t, "s.open", "s.pty0")
      <3>1. pc[t] = "s.open" /\ pc'[t] = "s.pty0" /\ held[t] = {<<"session", a>>}
        BY <1>m, <2>2 DEF OwnOf, t
      <3>2. g' = [g EXCEPT !["channel"] = a]
        BY <1>4, <3>1 DEF ChannelOpened, Step, t
      <3>3. on'[a] = a
        BY <1>4, <3>1 DEF ChannelOpened, t
      <3>4. Ours(a)'
        BY <1>o, <2>1, <3>2, <3>3 DEF Ours
      <3> QED BY <1>d, <2>1, <3>1, <3>4
    <2>3. CASE Step(t, "x.open", "x.run0")
      <3>1. pc[t] = "x.open" /\ pc'[t] = "x.run0"
        BY <1>m, <2>3
      <3>2. g' = g
        BY <1>4, <3>1 DEF ChannelOpened, Step, t
      <3>4. Ours(a)' /\ g'["channel"] = 0
        BY <1>o, <2>1, <3>2 DEF Ours
      <3> QED BY <1>c, <2>1, <3>1, <3>4
    <2> QED BY <1>4, <2>2, <2>3 DEF ChannelOpened, t
  <1>5. CASE ChannelRefused(a)
    <2>1. pc[t] \in Chanless /\ UNCHANGED history /\ fp' = fp /\ pc'[t] \in {"spawn", "x.clean"}
      BY <1>5, <1>m DEF ChannelRefused, t
    <2>2. Ours(a)' /\ g'["channel"] = 0
      BY <1>5, <1>o, <2>1 DEF ChannelRefused, Ours
    <2> QED BY <1>c, <1>d, <2>1, <2>2
  <1>6. CASE RequestPty(a)
    <2>1. pc[t] = "s.pty0" /\ pc'[t] = "s.pty" /\ UNCHANGED history
      BY <1>6, <1>m DEF RequestPty, t
    <2>2. Ours(a)'
      BY <1>6, <1>p, <2>1 DEF RequestPty, Ours
    <2> QED BY <1>d, <2>1, <2>2
  <1>7. CASE PtyFailed(a)
    <2>1. pc[t] = "s.pty" /\ pc'[t] = "spawn" /\ UNCHANGED history
      BY <1>7, <1>m DEF PtyFailed, t
    <2>2. Ours(a)'
      BY <1>7, <1>p, <2>1 DEF PtyFailed, Ours
    <2> QED BY <1>d, <2>1, <2>2
  <1>8. CASE RequestShell(a)
    <2>1. pc[t] = "s.pty" /\ pc'[t] = "s.shell" /\ UNCHANGED history
      BY <1>8, <1>m DEF RequestShell, t
    <2>2. Ours(a)'
      BY <1>8, <1>p, <2>1 DEF RequestShell, Ours
    <2> QED BY <1>d, <2>1, <2>2
  <1>9. CASE ShellStarted(a) \/ ShellRefused(a)
    <2>1. pc[t] = "s.shell" /\ pc'[t] = "spawn" /\ UNCHANGED history
      BY <1>9, <1>m DEF ShellStarted, ShellRefused, t
    <2>2. Ours(a)'
      BY <1>9, <1>p, <2>1 DEF ShellStarted, ShellRefused, Ours, natives
    <2> QED BY <1>d, <2>1, <2>2
  <1>10. CASE ExecRun(a)
    <2>1. pc[t] = "x.run0" /\ pc'[t] = "x.run" /\ UNCHANGED history
      BY <1>10, <1>m DEF ExecRun, t
    <2>2. Ours(a)' /\ g'["channel"] = 0
      BY <1>10, <1>o, <2>1 DEF ExecRun, Ours
    <2> QED BY <1>c, <2>1, <2>2
  <1>11. CASE ExecDone(a)
    <2>1. pc[t] = "x.run" /\ pc'[t] = "x.clean" /\ UNCHANGED history
      BY <1>11, <1>m DEF ExecDone, t
    <2>2. Ours(a)' /\ g'["channel"] = 0
      BY <1>11, <1>o, <2>1 DEF ExecDone, Ours
    <2> QED BY <1>c, <2>1, <2>2
  <1> QED BY <1>1, <1>2, <1>3, <1>4, <1>5, <1>6, <1>7, <1>8, <1>9, <1>10, <1>11 DEF DoShell

\* The worker's io and the close: the writes of the attempt go to its session.
LEMMA IoOwn ==
    ASSUME TypeOK, Locals, NEW a \in Attempts, OwnOf(a),
           Write(a) \/ WriteDone(a) \/ Spawn(a) \/ Close(a) \/ Start(a)
    PROVE  OwnOf(a)' /\ seen' = seen /\ (sent' = sent \/ sent' = sent \cup {<<a, a>>})
  <1> DEFINE t == Worker(a)
  <1>0. /\ t \in Threads /\ a \in Ids
        /\ ThreadsTypeOK /\ g \in [Kinds -> Ids] /\ pc \in [Threads -> Locations]
        /\ held \in [Threads -> SUBSET Objects] /\ Reader(a) \in Threads /\ t # Reader(a)
    BY ThreadFacts, IdFacts DEF TypeOK, NativesTypeOK, ThreadsTypeOK
  <1>m. ASSUME NEW l, NEW m, Step(t, l, m) PROVE pc[t] = l /\ pc'[t] = m
    BY <1>0, <1>m, Moved DEF Step
  <1>o. ASSUME pc[t] \notin Before, UNCHANGED <<g, fp, on>>
        PROVE  Ours(a)'
    BY <1>o DEF OwnOf, Ours
  <1>d. ASSUME pc'[t] \in {"loop", "k.clean"}, Ours(a)' PROVE OwnOf(a)'
    BY <1>d, OwnPlaceFacts DEF OwnOf
  <1> HIDE DEF t
  <1> USE <1>0, KindFacts, IdFacts, OwnPlaceFacts
  <1>1. CASE Write(a)
    <2>1. pc[t] = "loop" /\ pc'[t] = "w.in0" /\ UNCHANGED <<g, fp, on, seen, sent>> /\ g["channel"] # 0
      BY <1>1, <1>m DEF Write, natives, history, t
    <2>2. Ours(a)'
      BY <1>o, <2>1
    <2>3. g["channel"] = a
      BY <2>1, <2>2 DEF Ours
    <2> QED BY <2>1, <2>2, <2>3 DEF OwnOf, t
  <1>2. CASE WriteDone(a)
    <2>1. pc[t] = "w.in" /\ pc'[t] = "loop" /\ UNCHANGED <<g, fp, on, seen>>
      BY <1>2, <1>m DEF WriteDone, natives, t
    <2>2. OwnOf(a)'
      BY <1>d, <1>o, <2>1
    <2>3. \A o \in held[t] : o[1] = "session" => o[2] = a
      BY <2>1 DEF OwnOf, t
    <2>4. sent' = sent \cup {<<a, o[2]>> : o \in {p \in held[t] : p[1] = "session"}}
      BY <1>2 DEF WriteDone, t
    <2>5. {<<a, o[2]>> : o \in {p \in held[t] : p[1] = "session"}} \in {{}, {<<a, a>>}}
      BY <2>3
    <2> QED BY <2>1, <2>2, <2>4, <2>5
  <1>3. CASE Spawn(a)
    <2>1. pc[t] = "spawn" /\ pc'[t] \in {"loop", "crashed"} /\ UNCHANGED <<g, fp, on, seen, sent>>
      BY <1>3 DEF Spawn, Goto, natives, history, t
    <2>2. Ours(a)'
      BY <1>o, <2>1
    <2>3. OwnOf(a)'
      BY <1>d, <2>1, <2>2 DEF OwnOf, t
    <2> QED BY <2>1, <2>3
  <1>4. CASE Close(a)
    <2>1. pc[t] \in {"failed", "trust", "loop"} /\ pc'[t] = "k.clean" /\ UNCHANGED <<g, fp, on, seen, sent>>
      BY <1>4, <1>m DEF Close, natives, history, t
    <2>2. OwnOf(a)'
      BY <1>d, <1>o, <2>1
    <2> QED BY <2>1, <2>2
  <1>5. CASE Start(a)
    <2>1. pc'[t] = "start" /\ UNCHANGED <<seen, sent>>
      BY <1>5, <1>m DEF Start, history, t
    <2> QED BY <2>1 DEF OwnOf, t
  <1> QED BY <1>1, <1>2, <1>3, <1>4, <1>5

\* The reader's steps, and stop_session.
LEMMA ReaderOwn ==
    ASSUME TypeOK, NEW a \in Attempts, OwnOf(a), pc[Reader(a)] \in ReaderPlaces,
           Read(a) \/ ReadDone(a) \/ CheckFlags(a) \/ ChannelIo(Reader(a)) \/ Stop(a)
    PROVE  OwnOf(a)' /\ UNCHANGED history /\ pc'[Reader(a)] \in ReaderPlaces
  <1>0. /\ Worker(a) \in Threads /\ Reader(a) \in Threads /\ Worker(a) # Reader(a)
        /\ pc \in [Threads -> Locations] /\ held \in [Threads -> SUBSET Objects]
    BY ThreadFacts DEF TypeOK, ThreadsTypeOK
  <1>1. /\ UNCHANGED <<at, g, fp, on, unblocked>> /\ UNCHANGED history
        /\ pc'[Worker(a)] = pc[Worker(a)] /\ held'[Worker(a)] = held[Worker(a)]
    BY <1>0 DEF Read, ReadDone, CheckFlags, ChannelIo, Stop, Step, Goto, Enter, Leave, natives
  <1>2. pc'[Reader(a)] \in {pc[Reader(a)], "check", "r.in0", "r.in", "ended", "call"}
    <2>1. CASE ChannelIo(Reader(a))
      BY <1>0, <2>1 DEF ChannelIo, Step, Goto, ReaderPlaces
    <2>2. CASE Stop(a)
      BY <2>2 DEF Stop
    <2>3. CASE Read(a) \/ ReadDone(a) \/ CheckFlags(a)
      BY <1>0, <2>3 DEF Read, ReadDone, CheckFlags, Step, Goto
    <2> QED BY <2>1, <2>2, <2>3
  <1> QED BY <1>1, <1>2 DEF OwnOf, Ours, Swept, ReaderPlaces

\* The worker is handed the channel, and its session, for a write.
LEMMA WriteOwn ==
    ASSUME TypeOK, NEW a \in Attempts, OwnOf(a), ChannelIo(Worker(a))
    PROVE  OwnOf(a)' /\ UNCHANGED history
  <1> DEFINE t == Worker(a)
  <1>0. /\ t \in Threads /\ ThreadsTypeOK /\ held \in [Threads -> SUBSET Objects]
        /\ a # 0
    BY ThreadFacts, IdFacts DEF TypeOK, ThreadsTypeOK
  <1>m. ASSUME NEW l, NEW m, Step(t, l, m) PROVE pc[t] = l /\ pc'[t] = m
    BY <1>0, <1>m, Moved DEF Step
  <1>1. UNCHANGED <<at, g, fp, on, unblocked>> /\ UNCHANGED history
    BY DEF ChannelIo
  <1> HIDE DEF t
  <1>2. CASE Step(t, "w.in0", "w.in")
    <2>1. pc[t] = "w.in0" /\ pc'[t] = "w.in"
      BY <1>m, <1>2
    <2>2. g["channel"] = a /\ Ours(a)
      BY <2>1, OwnPlaceFacts DEF OwnOf, t
    <2>3. held'[t] = {<<"channel", a>>, <<"session", a>>}
      BY <1>0, <2>2 DEF ChannelIo, Enter, Using, Ours, t
    <2>4. \A o \in held'[t] : o[1] = "session" => o[2] = a
      BY <2>3
    <2> QED BY <1>1, <2>1, <2>2, <2>4, OwnPlaceFacts DEF OwnOf, Ours, t
  <1>3. CASE Step(t, "r.in0", "r.in")
    <2>1. pc[t] = "r.in0" /\ pc'[t] = "r.in"
      BY <1>m, <1>3
    <2>2. Ours(a)'
      BY <1>1, <2>1, OwnPlaceFacts DEF OwnOf, Ours, t
    <2> QED BY <1>1, <2>1, <2>2, OwnPlaceFacts DEF OwnOf, t
  <1> QED BY <1>2, <1>3 DEF ChannelIo, t

LEMMA SweepOwn ==
    ASSUME TypeOK, Locals, NEW a \in Attempts, OwnOf(a), Cleanup(Worker(a))
    PROVE  OwnOf(a)' /\ UNCHANGED history
  <1> DEFINE t == Worker(a)
  <1>0. /\ t \in Threads /\ ThreadsTypeOK /\ a \in Ids /\ t[1] = a
        /\ g \in [Kinds -> Ids] /\ pc[t] \in Cleaning
        /\ at \in [Threads -> [k : Kinds \cup {"fp"}, part : Parts]]
        /\ at[t].k \in Kinds \cup {"fp"}
        /\ at[t].k = "fp" => at[t].part = "test"
    BY ThreadFacts, IdFacts, PlaceType
       DEF TypeOK, NativesTypeOK, ThreadsTypeOK, Cleanup, CleanTest, CleanFree, CleanNull, CleanFp,
           Locals, LocalInv
  <1>1. CASE CleanFp(t)
    <2>1. pc'[t] = IF pc[t] = "c.fail" /\ mode[a] = "exec" THEN "x.clean" ELSE AfterClean[pc[t]]
      BY <1>0, <1>1, Moved DEF CleanFp
    <2>2. fp' = 0 /\ UNCHANGED <<g, on, history>> /\ at[t].k = "fp"
      BY <1>1 DEF CleanFp
    <2>3. CASE pc[t] = "c.clean"
      <3>1. pc'[t] = "c.tcp"
        BY <1>0, <2>1, <2>3, AfterCleanFacts
      <3>2. \A k \in Kinds : g[k] = 0
        BY <2>2, <2>3, KindFacts DEF OwnOf, Swept
      <3>3. Ours(a)' /\ g'["channel"] = 0
        BY <2>2, <3>2, KindFacts DEF Ours
      <3> QED BY <2>2, <3>1, <3>3, OwnPlaceFacts DEF OwnOf
    <2>4. CASE pc[t] = "c.fail"
      <3>1. pc'[t] \in {"x.clean", "failed"}
        BY <1>0, <2>1, <2>4, AfterCleanFacts
      <3>2. Ours(a) /\ g["channel"] = 0
        BY <2>4, OwnPlaceFacts DEF OwnOf
      <3>3. Ours(a)' /\ g'["channel"] = 0
        BY <2>2, <3>2 DEF Ours
      <3> QED BY <2>2, <3>1, <3>3, OwnPlaceFacts DEF OwnOf
    <2>5. CASE pc[t] \notin {"c.clean", "c.fail"}
      <3>1. pc'[t] = "ended"
        BY <1>0, <2>1, <2>5, AfterCleanFacts DEF Cleaning
      <3> QED BY <2>2, <3>1, OwnPlaceFacts DEF OwnOf
    <2> QED BY <2>3, <2>4, <2>5
  <1>2. ASSUME CleanTest(t) \/ CleanFree(t) \/ CleanNull(t)
        PROVE  /\ pc' = pc /\ UNCHANGED history /\ UNCHANGED <<fp, on, unblocked>>
               /\ g' = g \/ (at[t].part = "null" /\ g' = [g EXCEPT ![at[t].k] = 0])
               /\ \/ at'[t].k = at[t].k
                  \/ /\ at[t].k \in Kinds /\ at'[t].k = After[at[t].k]
                     /\ g'[at[t].k] = 0
    <2>1. CASE CleanTest(t)
      <3>1. at[t].k \in Kinds
        BY <1>0, <2>1 DEF CleanTest
      <3>2. CASE g[at[t].k] = 0
        BY <1>0, <2>1, <3>1, <3>2 DEF CleanTest, ToNext
      <3>3. CASE g[at[t].k] # 0
        BY <1>0, <2>1, <3>1, <3>3 DEF CleanTest, ToPart
      <3> QED BY <3>2, <3>3
    <2>2. CASE CleanFree(t)
      BY <1>0, <2>2 DEF CleanFree, ToPart
    <2>3. CASE CleanNull(t)
      <3>1. at[t].k \in Kinds
        BY <1>0, <2>3 DEF CleanNull
      <3> QED BY <1>0, <2>3, <3>1 DEF CleanNull, ToNext
    <2> QED BY <1>2, <2>1, <2>2, <2>3
  <1>3. ASSUME CleanTest(t) \/ CleanFree(t) \/ CleanNull(t) PROVE OwnOf(a)'
    <2>0. /\ pc' = pc /\ UNCHANGED <<fp, on, unblocked>> /\ pc[t] \notin {"s.open0", "s.open", "w.in0", "w.in"}
      BY <1>0, <1>2, <1>3 DEF Cleaning
    <2>1. \A k \in Kinds : g'[k] \in {0, g[k]}
      BY <1>0, <1>2, <1>3
    <2>2. Ours(a) => Ours(a)'
      BY <2>0, <2>1, KindFacts DEF Ours
    <2>3. g["channel"] = 0 => g'["channel"] = 0
      BY <2>1, KindFacts
    <2>4. Swept(at[t].k) => Swept(at[t].k)'
      <3>1. CASE at'[t].k = at[t].k
        BY <2>1, <3>1, KindFacts DEF Swept
      <3>2. CASE at[t].k \in Kinds /\ at'[t].k = After[at[t].k] /\ g'[at[t].k] = 0
        <4>1. CASE at[t].k = "channel"
          BY <2>1, <3>2, <4>1, KindFacts DEF Swept, After
        <4>2. CASE at[t].k = "session"
          BY <2>1, <3>2, <4>2, KindFacts DEF Swept, After
        <4>3. CASE at[t].k = "sock"
          BY <2>1, <3>2, <4>3, KindFacts DEF Swept, After
        <4> QED BY <3>2, <4>1, <4>2, <4>3, KindFacts
      <3> QED BY <1>2, <1>3, <3>1, <3>2
    <2> QED BY <2>0, <2>2, <2>3, <2>4 DEF OwnOf
  <1> QED BY <1>1, <1>2, <1>3 DEF Cleanup, CleanFp

Acts(a) ==
    \/ Cleanup(Worker(a)) \/ ChannelIo(Worker(a)) \/ ChannelIo(Reader(a))
    \/ Call(a) \/ Start(a)

\* Every step is one attempt's: no reader thread ever cleans up.
LEMMA OneActs ==
    ASSUME Moves, \A a \in Attempts : pc[Reader(a)] \in ReaderPlaces
    PROVE  \E a \in Attempts : Acts(a) \/ Stop(a)
  <1>1. ASSUME NEW t \in Threads, Cleanup(t) \/ ChannelIo(t)
        PROVE  \E a \in Attempts : Acts(a)
    <2>1. PICK a \in Attempts : t \in {Worker(a), Reader(a)}
      BY DEF Threads, Worker, Reader
    <2>2. ~Cleanup(Reader(a))
      BY DEF Cleanup, CleanTest, CleanFree, CleanNull, CleanFp, Cleaning, ReaderPlaces
    <2> QED BY <1>1, <2>1, <2>2 DEF Acts
  <1> QED BY <1>1 DEF Moves, Acts

\* What the attempt that acts does to itself and to the history.
LEMMA ActsOwn ==
    ASSUME TypeOK, Locals, NEW a \in Attempts, OwnOf(a), pc[Reader(a)] \in ReaderPlaces, Acts(a)
    PROVE  /\ OwnOf(a)'
           /\ sent' \in {sent, sent \cup {<<a, a>>}}
           /\ \E i \in {0, a} : seen' \in {seen, [seen EXCEPT ![a] = i]}
  <1>1. CASE DoConnect(a)
    BY <1>1, ConnectOwn DEF history
  <1>2. CASE DoShell(a)
    BY <1>2, ShellOwn
  <1>3. CASE Write(a) \/ WriteDone(a) \/ Spawn(a) \/ Close(a) \/ Start(a)
    BY <1>3, IoOwn
  <1>4. CASE Read(a) \/ ReadDone(a) \/ CheckFlags(a) \/ ChannelIo(Reader(a))
    BY <1>4, ReaderOwn DEF history
  <1>5. CASE ChannelIo(Worker(a))
    BY <1>5, WriteOwn DEF history
  <1>6. CASE Cleanup(Worker(a))
    BY <1>6, SweepOwn DEF history
  <1> QED BY <1>1, <1>2, <1>3, <1>4, <1>5, <1>6 DEF Acts, Call, DoIo

\* Only the threads of the attempt that acts move, and it is under way.
LEMMA ActsAlone ==
    ASSUME TypeOK, NEW a \in Attempts, pc[Reader(a)] \in ReaderPlaces, Acts(a)
    PROVE  /\ \A t \in Threads : t[1] # a => pc'[t] = pc[t]
           /\ Underway(a) \/ Underway(a)'
           /\ pc'[Reader(a)] \in ReaderPlaces
  <1> DEFINE w == Worker(a)
             r == Reader(a)
  <1>0. /\ w \in Threads /\ r \in Threads /\ w # r /\ w[1] = a /\ r[1] = a
        /\ ThreadsTypeOK /\ pc \in [Threads -> Locations]
    BY ThreadFacts DEF TypeOK, ThreadsTypeOK
  <1> HIDE DEF w, r
  <1>1. ASSUME NEW l, Goto(w, l), pc[w] \notin Over, pc[w] = "off" => l \notin {"off"} \cup Over
        PROVE  /\ \A t \in Threads : t[1] # a => pc'[t] = pc[t]
               /\ Underway(a) \/ Underway(a)'
               /\ pc'[r] = pc[r]
    <2>1. pc'[w] = l /\ \A u \in Threads : u # w => pc'[u] = pc[u]
      BY <1>0, <1>1, Moved
    <2> QED BY <1>0, <1>1, <2>1 DEF Underway, w, r
  <1>2. CASE DoConnect(a) \/ DoShell(a) \/ Write(a) \/ WriteDone(a) \/ Close(a) \/ Start(a)
    <2>1. PICK l, m \in Locations : Step(w, l, m)
      BY <1>2, ConnectWithin, ShellWithin, IoWithin DEF Within, w
    <2>2. pc[w] \notin Over /\ (pc[w] = "off" => m \notin {"off"} \cup Over)
      BY <1>2, <2>1, <1>0, Moved
         DEF Over, DoConnect, Connect, TcpConnected, TcpFailed, SessionInit, SessionInitFailed,
             Handshake, HandshakeDone, HashAndAuth, AuthDone, DoShell, GetFingerprint, OpenShell,
             ChannelOpen, ChannelOpened, ChannelRefused, RequestPty, PtyFailed, RequestShell,
             ShellStarted, ShellRefused, ExecRun, ExecDone, Write, WriteDone, Close, Start, Step, w
    <2>3. Goto(w, m)
      BY <2>1 DEF Step
    <2> QED BY <1>1, <2>1, <2>2, <2>3 DEF r
  <1>3. CASE ChannelIo(w)
    <2>1. \E m \in {"w.in", "r.in"} : Goto(w, m) /\ pc[w] \in {"w.in0", "r.in0"}
      BY <1>3 DEF ChannelIo, Step
    <2> QED BY <1>1, <2>1 DEF Over, r
  <1>4. CASE Cleanup(w)
    <2>1. pc[w] \in Cleaning
      BY <1>4 DEF Cleanup, CleanTest, CleanFree, CleanNull, CleanFp
    <2>2. pc[w] \notin {"off"} \cup Over
      BY <2>1 DEF Cleaning, Over
    <2>3. CASE pc' = pc
      BY <2>2, <2>3 DEF Underway, w, r
    <2>4. CASE \E l : Goto(w, l)
      BY <1>1, <2>2, <2>4 DEF r
    <2> QED BY <1>4, <2>3, <2>4 DEF Cleanup, CleanTest, CleanFree, CleanNull, CleanFp
  <1>5. ASSUME Read(a) \/ ReadDone(a) \/ CheckFlags(a) \/ ChannelIo(r)
        PROVE  (\A t \in Threads : t[1] # a => pc'[t] = pc[t]) /\ Underway(a)
    <2>1. pc[r] \in {"call", "r.in", "check", "r.in0", "w.in0"}
      BY <1>5 DEF Read, ReadDone, CheckFlags, ChannelIo, Step, r
    <2>2. \E l : Goto(r, l)
      BY <1>5 DEF Read, ReadDone, CheckFlags, ChannelIo, Step, r
    <2>3. \A u \in Threads : u # r => pc'[u] = pc[u]
      BY <1>0, <2>2, Moved
    <2> QED BY <1>0, <2>1, <2>3 DEF Underway, Over, r
  <1>6. CASE Spawn(a)
    <2>1. pc[w] = "spawn" /\ \A u \in Threads : u \notin {w, r} => pc'[u] = pc[u]
      BY <1>0, <1>6 DEF Spawn, Goto, w, r
    <2>2. pc'[r] \in {pc[r], "check"}
      BY <1>0, <1>6 DEF Spawn, Goto, w, r
    <2> QED BY <1>0, <2>1, <2>2 DEF Underway, Over, ReaderPlaces, w, r
  <1>7. ASSUME Read(a) \/ ReadDone(a) \/ CheckFlags(a) \/ ChannelIo(r) PROVE pc'[r] \in ReaderPlaces
    <2>1. CASE ChannelIo(r)
      BY <1>0, <2>1, Moved DEF ChannelIo, Step, ReaderPlaces, r
    <2>2. CASE Read(a) \/ ReadDone(a) \/ CheckFlags(a)
      BY <1>0, <2>2, Moved DEF Read, ReadDone, CheckFlags, Step, ReaderPlaces, r
    <2> QED BY <1>7, <2>1, <2>2
  <1> QED BY <1>1, <1>2, <1>3, <1>4, <1>5, <1>6, <1>7 DEF Acts, Call, DoIo, w, r

LEMMA OwnStep == IndInv /\ OwnInv /\ [Next]_vars => OwnInv'
  <1>1. ASSUME IndInv, OwnInv, Next PROVE OwnInv'
    <2>1. /\ Moves /\ mixed' = (mixed \/ MixedNow') /\ TypeOK /\ Locals /\ ThreadsTypeOK
          /\ seen \in [Attempts -> Ids]
          /\ \A a \in Attempts : pc[Reader(a)] \in ReaderPlaces
      BY <1>1 DEF Next, Moves, IndInv, TypeOK, OwnInv, HistoryTypeOK
    <2>2. MixedNow' => mixed'
      BY <2>1
    <2>3. PICK a \in Attempts : Acts(a) \/ Stop(a)
      BY <2>1, OneActs
    <2>4. CASE Stop(a)
      <3>1. UNCHANGED <<pc, at, held, natives, history>>
        BY <2>4 DEF Stop
      <3>2. \A b \in Attempts : OwnOf(b) => OwnOf(b)'
        BY <3>1 DEF OwnOf, Ours, Swept, natives
      <3> QED BY <1>1, <2>1, <2>2, <3>1, <3>2 DEF OwnInv, OwnSession, history
    <2>5. CASE Acts(a)
      <3>1. /\ \A t \in Threads : t[1] # a => pc'[t] = pc[t]
            /\ Underway(a) \/ Underway(a)'
            /\ pc'[Reader(a)] \in ReaderPlaces
        BY <2>1, <2>5, ActsAlone
      <3>2. \A b \in Attempts : pc'[Reader(b)] \in ReaderPlaces
        <4> SUFFICES ASSUME NEW b \in Attempts PROVE pc'[Reader(b)] \in ReaderPlaces
          OBVIOUS
        <4>1. CASE b = a
          BY <3>1, <4>1
        <4>2. CASE b # a
          BY <2>1, <3>1, <4>2, ThreadFacts
        <4> QED BY <4>1, <4>2
      <3>3. ASSUME ~mixed' PROVE (\A b \in Attempts : OwnOf(b)') /\ OwnSession'
        <4>0. ~mixed /\ OwnOf(a) /\ OwnSession
          BY <1>1, <2>1, <3>3 DEF OwnInv
        <4>1. /\ OwnOf(a)'
              /\ sent' \in {sent, sent \cup {<<a, a>>}}
              /\ \E i \in {0, a} : seen' \in {seen, [seen EXCEPT ![a] = i]}
          BY <2>1, <2>5, <4>0, ActsOwn
        <4>2. \A b \in Attempts \ {a} : pc'[Worker(b)] \in {"off"} \cup Over
          BY <1>1, <2>1, <3>1, <3>3, MovesKept, OwnAlone DEF OwnInv, Kept
        <4>3. \A b \in Attempts \ {a} : OwnOf(b)'
          BY <4>2, OwnPlaceFacts DEF OwnOf, Over
        <4>4. \A p \in sent' : p[1] = p[2]
          BY <4>0, <4>1 DEF OwnSession
        <4>5. \A b \in Attempts : seen'[b] \in {0, b}
          BY <2>1, <4>0, <4>1 DEF OwnSession
        <4> QED BY <4>1, <4>3, <4>4, <4>5 DEF OwnSession
      <3> QED BY <2>2, <3>2, <3>3 DEF OwnInv, OwnSession
    <2> QED BY <2>3, <2>4, <2>5
  <1>2. ASSUME OwnInv, UNCHANGED vars PROVE OwnInv'
    <2>1. UNCHANGED <<pc, at, held, g, fp, on, mixed, sent, seen>>
      BY <1>2 DEF vars, natives, history
    <2>2. \A b \in Attempts : OwnOf(b) => OwnOf(b)'
      BY <2>1 DEF OwnOf, Ours, Swept
    <2>3. MixedNow' <=> MixedNow
      BY <2>1 DEF MixedNow, Underway
    <2> QED BY <1>2, <2>1, <2>2, <2>3 DEF OwnInv, OwnSession
  <1> QED BY <1>1, <1>2

\* For any number of attempts, also when the calls of one attempt overlap each
\* other: while attempts run one at a time the keys typed in one go to its own
\* server and the key shown is its own (worker.py 121-134, modssh.c 57-73).
THEOREM OwnSessionHolds == Spec => []OwnSession
  <1>1. Init => OwnInv
    <2> SUFFICES ASSUME Init PROVE OwnInv
      OBVIOUS
    <2>1. \A t \in Threads : pc[t] = "off"
      BY DEF Init
    <2>2. ~MixedNow
      BY <2>1, ThreadFacts DEF MixedNow, Underway
    <2>3. \A a \in Attempts : OwnOf(a) /\ pc[Reader(a)] \in ReaderPlaces
      BY <2>1, ThreadFacts, OwnPlaceFacts DEF OwnOf, ReaderPlaces
    <2> QED BY <2>2, <2>3 DEF OwnInv, OwnSession, Init
  <1>2. OwnInv => OwnSession
    BY DEF OwnInv
  <1> QED BY <1>1, <1>2, OwnStep, Invariant, PTL DEF Spec

=============================================================================
