---------------------------- MODULE ProcessProofs ----------------------------
(***************************************************************************)
(* Proofs about the two programs around the server.  The server process,   *)
(* for every set of connections and of databases, with and without a TTL:  *)
(* the invariants of the server hold in the process that runs it, and on   *)
(* them rest what the deferred calls rely on.  The client processes, for   *)
(* every set of them and every command line, tool and token: the exit code *)
(* tells what the server did, and the server asked is the one named.       *)
(***************************************************************************)
EXTENDS ServeTool, RoundTrip, ServerProofs

-----------------------------------------------------------------------------
(***************************************************************************)
(* The server process: the inductive invariant.                            *)
(***************************************************************************)

\* What the process holds at each step of its life: connections queue only at an
\* open listener; handlers live only while srv.Serve runs or in a killed process;
\* the pools are open from the end of dbconn.New until registry.Close(); and while
\* srv.Serve runs, signals are caught until the TTL, if there is one, has fired.
ProcessInv ==
  /\ \A c \in Conns : sock[c] = "backlog" => lnOpen
  /\ step \in {"configure", "databases", "listen", "closeRegistry", "exited"} => ~lnOpen
  /\ step \notin {"serving", "killed"} => LiveHandlers = {} /\ held = NoConn
  /\ step \in {"listen", "notify", "serving", "stop", "closeListener", "closeRegistry"} =>
       pools = DBs
  /\ step \in {"configure", "exited"} => pools = {}
  /\ ttlArmed => TTL
  /\ step = "serving" => sigHandled \/ (TTL /\ ~ttlArmed)

\* What the type invariant, PoolsOutliveHandlers and GracefulUntilTTL rest on.
ServeInv ==
  /\ ServeTypeOK /\ Lifecycle /\ Counting
  /\ ProcessInv /\ PoolsOutliveHandlers /\ GracefulUntilTTL

-----------------------------------------------------------------------------
\* What the server and its clients do in the process are steps of module Server.
LEMMA ServerStepsAreNext == ServerStep \/ ClientStep => Next
BY DEF ServerStep, ClientStep, Next

\* The start-up steps of the tool leave the server alone.
LEMMA ToolStepsLeaveServer ==
  ASSUME \/ Configure \/ (\E a \in DBs : OpenDatabase(a)) \/ DatabasesOpen \/ Notify
         \/ ServeDone \/ DeferCloseRegistry \/ ProcessOver
  PROVE  UNCHANGED vars
BY DEF Configure, OpenDatabase, DatabasesOpen, Notify, ServeDone, DeferCloseRegistry,
       ProcessOver, serveVars

\* The invariant of the server holds at the start of the process and is kept by
\* every step of it, those outside module Server included.
LEMMA ServeConcurrency ==
  /\ ServeInit => ConcurrencyInv
  /\ ConcurrencyInv /\ [ServeNext]_serveVars => ConcurrencyInv'
<1>1. ServeInit => ConcurrencyInv
  <2> SUFFICES ASSUME ServeInit PROVE ConcurrencyInv
    OBVIOUS
  <2>1. SlotHolders = {} /\ LiveHandlers = {}
    BY DEF ServeInit, IdleInit, SlotHolders, LiveHandlers
  <2>2. Counting
    BY <2>1, FS_EmptySet DEF Counting, ServeInit, IdleInit
  <2>3. acceptDelay \in 0..BackoffMax /\ sem \in 0..MaxConns /\ wg \in Int
    BY MaxConnsAssumption, BackoffAssumption DEF ServeInit, IdleInit
  <2>4. resp \in [Conns -> Seq(Responses)] /\ audit \in [Conns -> Nat]
    BY DEF ServeInit, IdleInit
  <2> QED
    BY <2>2, <2>3, <2>4 DEF ConcurrencyInv, TypeOK, Lifecycle, ServeInit, IdleInit
<1>2. ASSUME ConcurrencyInv, [ServeNext]_serveVars PROVE ConcurrencyInv'
  <2>1. CASE [Next]_vars
    BY <1>2, <2>1, ConcurrencyStep
  <2>2. CASE /\ ctxDone' \in BOOLEAN /\ lnOpen' \in BOOLEAN
             /\ sock' = sock \/ ShutListener
             /\ UNCHANGED <<loopVars, semVars, inVars, pc, outVars>>
    <3> USE DEF loopVars, semVars, inVars, outVars
    <3>1. TypeOK'
      BY <1>2, <2>2 DEF ConcurrencyInv, TypeOK, ShutListener
    <3>2. Lifecycle'
      BY <1>2, <2>2 DEF ConcurrencyInv, TypeOK, Lifecycle, ShutListener
    <3>3. SlotHolders' = SlotHolders /\ LiveHandlers' = LiveHandlers
      BY <2>2 DEF SlotHolders, LiveHandlers
    <3>4. Counting'
      BY <1>2, <2>2, <3>3 DEF ConcurrencyInv, Counting
    <3> QED
      BY <3>1, <3>2, <3>4 DEF ConcurrencyInv
  <2>3. CASE Listen \/ Signal \/ TTLFires \/ DeferStop \/ DeferCloseListener
    <3>1. ctxDone \in BOOLEAN /\ lnOpen \in BOOLEAN
      BY <1>2 DEF ConcurrencyInv, TypeOK
    <3> QED
      BY <2>2, <2>3, <3>1
         DEF Listen, Signal, TTLFires, DeferStop, DeferCloseListener, ShutListener
  <2>4. CASE UNCHANGED serveVars
    BY <2>1, <2>4 DEF serveVars
  <2> QED
    BY <1>2, <2>1, <2>3, <2>4, ServerStepsAreNext, ToolStepsLeaveServer DEF ServeNext
<1> QED
  BY <1>1, <1>2

\* A handler that takes a step is alive before it, and every other stays what it is.
LEMMA HandlersAreLive ==
  ASSUME TypeOK, NEW c \in Conns, HandlerStep(c)
  PROVE  /\ c \in LiveHandlers
         /\ UNCHANGED <<ctxDone, lnOpen, held>>
         /\ \A d \in Conns : sock'[d] = "backlog" => sock[d] = "backlog"
BY DEF HandlerStep, ScanLine, ReadEnds, ToolReturns, ToolCtxDone, ToolPanics, WriteEnds,
       CloseConn, ReleaseSlot, WgDone, LiveHandlers, TypeOK, loopVars

\* A step of the server in a process whose handlers are all gone only closes the
\* listener.
LEMMA IdleServerStep ==
  ASSUME ServeInv, ServerStep, step # "serving"
  PROVE  CloseListener
BY HandlersAreLive DEF ServeInv, ServeTypeOK, ProcessInv, ServerStep

\* The process starts with nothing in its hands.
LEMMA ServeInvInit == ServeInit => ServeInv
<1> SUFFICES ASSUME ServeInit PROVE ServeInv
  OBVIOUS
<1>1. LiveHandlers = {}
  BY DEF ServeInit, IdleInit, LiveHandlers
<1>2. ServeTypeOK /\ Lifecycle /\ Counting
  BY ServeConcurrency DEF ConcurrencyInv, ServeTypeOK, ServeInit
<1>3. ProcessInv
  BY <1>1 DEF ProcessInv, ServeInit, IdleInit
<1> QED
  BY <1>1, <1>2, <1>3 DEF ServeInv, PoolsOutliveHandlers, GracefulUntilTTL, ServeInit

\* Every step keeps the invariant of the process.
LEMMA ServeInvStep == ServeInv /\ [ServeNext]_serveVars => ServeInv'
<1> SUFFICES ASSUME ServeInv, [ServeNext]_serveVars PROVE ServeInv'
  OBVIOUS
<1>0. ConcurrencyInv /\ ConcurrencyInv'
  BY ServeConcurrency DEF ServeInv, ServeTypeOK, ConcurrencyInv
<1> SUFFICES /\ ServeTypeOK' /\ ProcessInv' /\ PoolsOutliveHandlers' /\ GracefulUntilTTL'
  BY <1>0 DEF ServeInv, ConcurrencyInv
<1>t. TypeOK /\ TypeOK'
  BY <1>0 DEF ConcurrencyInv
<1> USE DEF ServeInv, ServeTypeOK, ProcessInv, PoolsOutliveHandlers, GracefulUntilTTL
<1> USE TTLAssumption
<1>1. CASE Configure \/ DatabasesOpen \/ Notify \/ ServeDone \/ DeferCloseRegistry
  <2>1. LiveHandlers' = LiveHandlers /\ UNCHANGED <<lnOpen, sock, held>>
    BY <1>1, ToolStepsLeaveServer DEF LiveHandlers, vars, loopVars
  <2>2. loop = "returned" => LiveHandlers = {} /\ held = NoConn
    BY <1>0 DEF ConcurrencyInv, Counting, Lifecycle
  <2>3. CASE Configure \/ DatabasesOpen
    BY <1>t, <2>1, <2>3 DEF Configure, DatabasesOpen
  <2>4. CASE Notify
    BY <1>t, <2>1, <2>4 DEF Notify
  <2>5. CASE ServeDone
    BY <1>t, <2>1, <2>2, <2>5 DEF ServeDone
  <2>6. CASE DeferCloseRegistry
    BY <1>t, <2>1, <2>6 DEF DeferCloseRegistry
  <2> QED
    BY <1>1, <2>3, <2>4, <2>5, <2>6
<1>2. ASSUME NEW a \in DBs, OpenDatabase(a)
      PROVE  ServeTypeOK' /\ ProcessInv' /\ PoolsOutliveHandlers' /\ GracefulUntilTTL'
  <2>1. LiveHandlers' = LiveHandlers /\ UNCHANGED <<lnOpen, sock, held>>
    BY <1>2 DEF OpenDatabase, LiveHandlers, vars, loopVars
  <2> QED
    BY <1>2, <1>t, <2>1 DEF OpenDatabase
<1>3. CASE Listen \/ Signal \/ TTLFires \/ DeferStop
  <2>1. LiveHandlers' = LiveHandlers /\ UNCHANGED <<sock, held>>
    BY <1>3 DEF Listen, Signal, TTLFires, DeferStop, LiveHandlers, loopVars
  <2>2. CASE Listen
    BY <1>t, <2>1, <2>2 DEF Listen
  <2>3. CASE Signal
    BY <1>t, <2>1, <2>3 DEF Signal, Alive, toolVars
  <2>4. CASE TTLFires
    BY <1>t, <2>1, <2>4 DEF TTLFires, Alive
  <2>5. CASE DeferStop
    BY <1>t, <2>1, <2>5 DEF DeferStop
  <2> QED
    BY <1>3, <2>2, <2>3, <2>4, <2>5
<1>4. CASE DeferCloseListener
  <2>1. LiveHandlers' = LiveHandlers /\ UNCHANGED held
    BY <1>4 DEF DeferCloseListener, LiveHandlers, loopVars
  <2> QED
    BY <1>4, <1>t, <2>1 DEF DeferCloseListener, ShutListener, TypeOK
<1>5. CASE ServerStep
  <2>1. CASE step = "serving"
    <3>1. \A c \in Conns : sock'[c] = "backlog" => lnOpen'
      <4>1. CASE LoopStep
        BY <1>t, <4>1 DEF TypeOK, LoopStep, Accept, AcceptError, BackoffElapsed,
             BackoffCancelled, AcquireSlot, DropHeld, ServeReturns
      <4>2. ASSUME NEW c \in Conns, HandlerStep(c)
            PROVE  \A d \in Conns : sock'[d] = "backlog" => lnOpen'
        BY <1>t, <4>2, HandlersAreLive
      <4>3. CASE CloseListener
        BY <4>3 DEF CloseListener, ShutListener
      <4> QED
        BY <1>5, <4>1, <4>2, <4>3 DEF ServerStep
    <3> QED
      BY <1>5, <1>t, <2>1, <3>1 DEF ServerStep, toolVars
  <2>2. CASE step # "serving"
    <3>1. CloseListener
      BY <1>5, <2>2, IdleServerStep
    <3>2. LiveHandlers' = LiveHandlers /\ UNCHANGED held
      BY <3>1 DEF CloseListener, LiveHandlers, loopVars
    <3> QED
      BY <1>5, <1>t, <2>2, <3>1, <3>2 DEF ServerStep, CloseListener, ShutListener, toolVars
  <2> QED
    BY <2>1, <2>2
<1>6. CASE ClientStep
  <2>1. LiveHandlers' = LiveHandlers /\ UNCHANGED <<lnOpen, held>>
    BY <1>6 DEF ClientStep, Dial, ClientSend, LiveHandlers, loopVars
  <2>2. \A c \in Conns : sock'[c] = "backlog" => lnOpen'
    BY <1>6, <1>t DEF ClientStep, Dial, ClientSend, TypeOK
  <2> QED
    BY <1>6, <1>t, <2>1, <2>2 DEF ClientStep, toolVars
<1>7. CASE UNCHANGED serveVars
  <2>1. LiveHandlers' = LiveHandlers /\ UNCHANGED <<lnOpen, sock, held>>
    BY <1>7 DEF serveVars, LiveHandlers, vars, loopVars
  <2> QED
    BY <1>7, <1>t, <2>1 DEF serveVars, toolVars
<1> QED
  BY <1>1, <1>2, <1>3, <1>4, <1>5, <1>6, <1>7 DEF ServeNext, ProcessOver

\* The process keeps its invariant for ever.
THEOREM ServeInvariant == ServeSpec => []ServeInv
BY ServeInvInit, ServeInvStep, PTL DEF ServeSpec

\* No handler works on a closed pool: when registry.Close() runs, deferred in a
\* function that knows nothing of the handlers, wg.Wait() of Serve has seen them go.
THEOREM PoolsOutlive == ServeSpec => []PoolsOutliveHandlers
<1>1. ServeInv => PoolsOutliveHandlers
  BY DEF ServeInv
<1> QED
  BY <1>1, ServeInvariant, PTL

\* A process that exits, however it does, leaves no pool, listener, queued or open
\* connection behind.
THEOREM ExitLeaksNothing == ServeSpec => []NothingLeaks
<1>1. ASSUME ServeInv PROVE NothingLeaks
  <2> SUFFICES ASSUME step = "exited", NEW c \in Conns
               PROVE  pools = {} /\ ~lnOpen /\ sock[c] \notin {"backlog", "open"}
    BY <1>1 DEF NothingLeaks, ServeInv, ProcessInv
  <2>1. pools = {} /\ ~lnOpen /\ sock[c] # "backlog"
    BY <1>1 DEF ServeInv, ProcessInv
  <2>2. pc[c] \in {"none", "gone"} /\ held = NoConn
    BY <1>1 DEF ServeInv, ProcessInv, LiveHandlers
  <2>3. sock[c] # "open"
    BY <1>1, <2>2, SentinelAssumption DEF ServeInv, Lifecycle
  <2> QED
    BY <2>1, <2>3
<1> QED
  BY <1>1, ServeInvariant, PTL

\* A signal that kills the process while it serves requests comes after the TTL.
THEOREM KilledOnlyAfterTTL == ServeSpec => []GracefulUntilTTL
<1>1. ServeInv => GracefulUntilTTL
  BY DEF ServeInv
<1> QED
  BY <1>1, ServeInvariant, PTL

-----------------------------------------------------------------------------
(***************************************************************************)
(* Client processes and server: the inductive invariant.                   *)
(***************************************************************************)

\* The client is on its way to the server or there.
Called(c) == cpc[c] \in {"start", "dialing", "writing", "reading"}

\* What ExitTells and AddressedServerAnswers rest on, besides the server. A client
\* goes to the network only when both settings are there, its socket is untouched
\* until it dials, the server has received nothing but what it sent, and what it has
\* received is the response of a handler that is through with it.
CallInv(c) ==
  /\ Called(c) => Resolve(inv[c].host) # "" /\ Resolve(inv[c].token) # ""
  /\ Called(c) => inv[c].tool \in RemoteTools
  /\ cpc[c] \in {"argv", "start"} \/ code[c] = ExitUsage => sock[c] = "idle"
  /\ sock[c] # "idle" => Resolve(inv[c].host) = "server"
  /\ inbox[c] \in {NoLine, Malformed, Want(c)}
  /\ wire[c] # "part" => pc[c] \in {"closing", "release", "done", "gone"} /\ resp[c] # <<>>
  /\ "remote" \in shown[c] => code[c] = ExitOK /\ wire[c] = "all" /\ resp[c] = <<"ok">>
  /\ code[c] = ExitServer => wire[c] = "all" /\ resp[c] # <<"ok">>
  /\ code[c] \notin {NoCode, ExitOK} => shown[c] = {}
  /\ /\ code[c] = ExitOK
     /\ Resolve(inv[c].host) # "" /\ Resolve(inv[c].token) # "" /\ inv[c].tool \in RemoteTools
     => shown[c] \cap {"remote", "help"} # {}

TripInv ==
  /\ TripTypeOK /\ Lifecycle /\ Counting /\ AnswersInv
  /\ \A c \in Conns : CallInv(c)

-----------------------------------------------------------------------------
(***************************************************************************)
(* Settings.                                                               *)
(***************************************************************************)

\* conf.Resolve finds the setting that was meant.
LEMMA ResolveIsMeant ==
  ASSUME NEW s PROVE Meant(s) = Resolve(s)
<1> DEFINE given == <<FlagValue(s), s.env>>
           told == {k \in 1..2 : given[k] # ""}
           first == CHOOSE k \in told : \A j \in told : k <= j
<1>1. Meant(s) = IF told = {} THEN "" ELSE given[first]
  BY Zenon DEF Meant, FlagValue
<1>2. given[1] = FlagValue(s) /\ given[2] = s.env
  OBVIOUS
<1> HIDE DEF given
<1>3. told \subseteq {1, 2} /\ (1 \in told <=> FlagValue(s) # "") /\ (2 \in told <=> s.env # "")
  <2>1. 1 \in 1..2 /\ 2 \in 1..2 /\ \A k \in 1..2 : k = 1 \/ k = 2
    OBVIOUS
  <2> QED
    BY <1>2, <2>1, Zenon
<1> HIDE DEF told
<1>4. told # {} => first \in told /\ \A j \in told : first <= j
  <2>1. ASSUME told # {} PROVE \E k \in told : \A j \in told : k <= j
    <3>1. CASE 1 \in told
      <4>1. told \subseteq {1, 2}
        BY <1>3, Zenon
      <4>2. \A j \in told : 1 <= j
        BY <4>1
      <4> QED
        BY <3>1, <4>2
    <3>2. CASE told = {2}
      BY <3>2
    <3> QED
      BY <1>3, <2>1, <3>1, <3>2
  <2> QED
    BY <2>1, Zenon
<1> HIDE DEF first
<1>5. CASE FlagValue(s) # ""
  <2>1. first \in {1, 2} /\ first <= 1
    BY <1>3, <1>4, <1>5, Zenon
  <2>2. first = 1
    BY <2>1
  <2> QED
    BY <1>1, <1>2, <1>3, <1>5, <2>2 DEF Resolve
<1>6. CASE FlagValue(s) = "" /\ s.env # ""
  <2>1. first = 2
    BY <1>3, <1>4, <1>6
  <2> QED
    BY <1>1, <1>2, <1>3, <1>6, <2>1 DEF Resolve
<1>7. CASE FlagValue(s) = "" /\ s.env = ""
  BY <1>1, <1>3, <1>7 DEF Resolve
<1> QED
  BY <1>5, <1>6, <1>7

\* A token that is not empty is one of the tokens, so that what a client sends is a line.
LEMMA WantIsLine ==
  ASSUME NEW c \in Conns, inv[c] \in Invocations[c], Resolve(inv[c].token) # ""
  PROVE  Want(c) \in Lines
<1>1. InvocationOK(inv[c])
  BY ClientAssumption
<1>2. /\ inv[c].token.after \in Tokens \cup {"", NotGiven}
      /\ inv[c].token.before \in Tokens \cup {""}
      /\ inv[c].token.env \in Tokens \cup {""}
  BY <1>1 DEF InvocationOK, Settings
<1>3. Resolve(inv[c].token) \in Tokens
  BY <1>2 DEF Resolve, FlagValue
<1> QED
  BY <1>1, <1>3 DEF Want, InvocationOK, Lines, Request

-----------------------------------------------------------------------------
(***************************************************************************)
(* The server's invariants, in the composition.                            *)
(***************************************************************************)

\* The server does not choose what clients send: any line keeps its invariants.
LEMMA SendKeepsServer ==
  ASSUME ConcurrencyInv, AnswersInv, NEW c \in Conns, NEW l \in Lines,
         NEW done \in BOOLEAN, ClientSend(c, l, done)
  PROVE  ConcurrencyInv' /\ AnswersInv'
<1> USE DEF loopVars, semVars, inVars, outVars
<1>1. TypeOK'
  BY DEF ConcurrencyInv, TypeOK, ClientSend
<1>2. Lifecycle'
  BY DEF ConcurrencyInv, Lifecycle, ClientSend
<1>3. SlotHolders' = SlotHolders /\ LiveHandlers' = LiveHandlers
  BY DEF ClientSend, SlotHolders, LiveHandlers
<1>4. Counting'
  BY <1>3 DEF ConcurrencyInv, Counting, ClientSend
<1>5. ASSUME NEW d \in Conns PROVE AnswerInv(d)'
  <2>1. TypeOK /\ AnswerInv(d)
    BY DEF ConcurrencyInv, AnswersInv
  <2>2. CASE d = c
    <3>1. l # NoLine
      BY SentinelAssumption
    <3>2. /\ inbox'[c] = l /\ pc'[c] = pc[c] /\ resp'[c] = resp[c]
          /\ audit'[c] = audit[c] /\ pc[c] \in {"none", "reading"}
      BY <2>1 DEF ClientSend, TypeOK
    <3> QED
      BY <2>1, <2>2, <3>1, <3>2 DEF AnswerInv
  <2>3. CASE d # c
    BY <2>1, <2>3, OthersAnswers DEF ClientSend, TypeOK
  <2> QED
    BY <2>2, <2>3
<1> QED
  BY <1>1, <1>2, <1>4, <1>5 DEF ConcurrencyInv, AnswersInv

\* A client that writes sends a line.
LEMMA WritesLine ==
  ASSUME NEW c \in Conns, inv[c] \in Invocations[c], CallInv(c), CallWrite(c)
  PROVE  \E l \in Lines \cap {Malformed, Want(c)}, done \in BOOLEAN : ClientSend(c, l, done)
<1>1. Want(c) \in Lines
  BY WantIsLine DEF CallInv, Called, CallWrite
<1> QED
  BY <1>1 DEF CallWrite, Lines

\* All steps but the writing of a request are steps of module Server, or leave it alone.
LEMMA OtherStepsAreNext ==
  ASSUME [TripNext]_tripVars, ~\E c \in Conns : CallWrite(c)
  PROVE  [Next]_vars
<1>1. CASE ServerMoves
  BY <1>1 DEF ServerMoves, Next
<1>2. ASSUME NEW c \in Conns, ServerWrite(c) PROVE Next
  BY <1>2 DEF ServerWrite, HandlerStep, Next
<1>3. ASSUME NEW c \in Conns, CallStep(c) PROVE [Next]_vars
  <2>1. CASE CallDial(c)
    BY <2>1 DEF CallDial, Next
  <2>2. CASE ~CallDial(c)
    BY <1>3, <2>2
       DEF CallStep, ParseArgs, LocalFails, RunLocalOnly, RunRemoteTool, RunLocalRemote,
           CallDialFails, CallHandshake, CallWritten, CallWriteFails, CallRead,
           CallReadTooLong, CallReadEnds, CallTimesOut
  <2> QED
    BY <2>1, <2>2
<1>4. CASE TripOver \/ UNCHANGED tripVars
  BY <1>4 DEF TripOver, tripVars
<1> QED
  BY <1>1, <1>2, <1>3, <1>4 DEF TripNext

\* The invariants of the server hold in the composition.
LEMMA TripKeepsServer ==
  ASSUME TripInv, [TripNext]_tripVars
  PROVE  ConcurrencyInv' /\ AnswersInv'
<1>1. ConcurrencyInv /\ AnswersInv
  BY DEF TripInv, TripTypeOK, ConcurrencyInv
<1>2. ASSUME NEW c \in Conns, CallWrite(c) PROVE ConcurrencyInv' /\ AnswersInv'
  BY <1>1, <1>2, WritesLine, SendKeepsServer DEF TripInv, TripTypeOK
<1> QED
  BY <1>1, <1>2, OtherStepsAreNext, ConcurrencyStep, AnswersStep

-----------------------------------------------------------------------------
(***************************************************************************)
(* The invariant of the clients.                                           *)
(***************************************************************************)

\* What the server does to a connection: it leaves the socket of a client that has
\* not dialled and the request alone, and a handler that is through has answered.
LEMMA ServerKeepsCall ==
  ASSUME ConcurrencyInv, NEW d \in Conns,
         ServerMoves \/ \E c \in Conns : ServerWrite(c)
  PROVE  /\ sock'[d] = "idle" <=> sock[d] = "idle"
         /\ inbox' = inbox
         /\ pc[d] \in {"closing", "release", "done", "gone"} =>
              pc'[d] \in {"closing", "release", "done", "gone"} /\ resp'[d] = resp[d]
<1> USE DEF ConcurrencyInv, TypeOK, Lifecycle, loopVars, inVars, outVars
<1>1. CASE Cancel \/ CloseListener
  BY <1>1 DEF Cancel, CloseListener, ShutListener
<1>2. CASE LoopStep
  <2>1. CASE AcquireSlot \/ DropHeld
    <3>1. held \in Conns /\ sock[held] = "open" /\ pc[held] = "none"
      BY <2>1, SentinelAssumption DEF AcquireSlot, DropHeld
    <3> QED
      BY <2>1, <3>1 DEF AcquireSlot, DropHeld
  <2>2. CASE ~(AcquireSlot \/ DropHeld)
    BY <1>2, <2>2 DEF LoopStep, Accept, AcceptError, BackoffElapsed, BackoffCancelled,
         ServeReturns
  <2> QED
    BY <2>1, <2>2
<1>3. ASSUME NEW c \in Conns, HandlerStep(c)
      PROVE  /\ sock'[d] = "idle" <=> sock[d] = "idle"
             /\ inbox' = inbox
             /\ pc[d] \in {"closing", "release", "done", "gone"} =>
                  pc'[d] \in {"closing", "release", "done", "gone"} /\ resp'[d] = resp[d]
  <2>1. CASE ScanLine(c) \/ ReadEnds(c)
    <3>1. UNCHANGED <<sock, inbox>> /\ pc[c] = "reading"
      BY <2>1 DEF ScanLine, ReadEnds
    <3>2. d # c => pc'[d] = pc[d] /\ resp'[d] = resp[d]
      BY <2>1 DEF ScanLine, ReadEnds, HandleLine, RunRemote, Respond
    <3> QED
      BY <3>1, <3>2
  <2>2. CASE ToolReturns(c) \/ ToolCtxDone(c) \/ ToolPanics(c)
    <3>1. UNCHANGED <<sock, inbox>> /\ pc[c] = "running"
      BY <2>2 DEF ToolReturns, ToolCtxDone, ToolPanics
    <3>2. d # c => pc'[d] = pc[d] /\ resp'[d] = resp[d]
      BY <2>2 DEF ToolReturns, ToolCtxDone, ToolPanics, Respond
    <3> QED
      BY <3>1, <3>2
  <2>3. CASE WriteEnds(c) \/ CloseConn(c) \/ ReleaseSlot(c) \/ WgDone(c)
    BY <2>3 DEF WriteEnds, CloseConn, ReleaseSlot, WgDone
  <2> QED
    BY <1>3, <2>1, <2>2, <2>3 DEF HandlerStep
<1> QED
  BY <1>1, <1>2, <1>3 DEF ServerMoves, ServerWrite, HandlerStep

\* A client that nothing happens to keeps its invariant.
LEMMA OthersCall ==
  ASSUME NEW d, CallInv(d),
         inv'[d] = inv[d], cpc'[d] = cpc[d], code'[d] = code[d], shown'[d] = shown[d],
         wire'[d] = wire[d], inbox'[d] = inbox[d],
         sock'[d] = "idle" <=> sock[d] = "idle",
         pc[d] \in {"closing", "release", "done", "gone"} =>
           pc'[d] \in {"closing", "release", "done", "gone"} /\ resp'[d] = resp[d]
  PROVE  CallInv(d)'
<1>1. Called(d)' = Called(d)
  BY DEF Called
<1>2. Want(d)' = Want(d)
  BY DEF Want
<1>3. ("remote" \in shown[d] \/ code[d] = ExitServer) =>
        pc[d] \in {"closing", "release", "done", "gone"}
  BY DEF CallInv
<1> QED
  BY <1>1, <1>2, <1>3 DEF CallInv

\* Every step of a client makes it exit, moves it on, or puts a part of its request on
\* the wire.
LEMMA CallStepForms ==
  ASSUME NEW c \in Conns, CallStep(c)
  PROVE  \/ \E e \in {ExitOK, ExitError, ExitServer, ExitUsage},
              what \in SUBSET {"help", "local", "remote"} : ExitPrinting(c, e, what)
         \/ \E from, to \in {"argv", "start", "dialing", "writing", "reading"} : Move(c, from, to)
         \/ UNCHANGED <<clientVars, wire>>
<1> DEFINE Forms ==
      \/ \E e \in {ExitOK, ExitError, ExitServer, ExitUsage},
           what \in SUBSET {"help", "local", "remote"} : ExitPrinting(c, e, what)
      \/ \E from, to \in {"argv", "start", "dialing", "writing", "reading"} : Move(c, from, to)
      \/ UNCHANGED <<clientVars, wire>>
<1>0. {} \in SUBSET {"help", "local", "remote"}
  OBVIOUS
<1>1. CASE ParseArgs(c) \/ LocalFails(c) \/ RunLocalOnly(c)
  <2>1. {"help"} \in SUBSET {"help", "local", "remote"} /\ {"local"} \in SUBSET {"help", "local", "remote"}
    OBVIOUS
  <2> QED
    BY <1>0, <1>1, <2>1, Zenon DEF ParseArgs, LocalFails, RunLocalOnly, Exit
<1>2. CASE RunRemoteTool(c) \/ RunLocalRemote(c)
  <2>1. {"local"} \in SUBSET {"help", "local", "remote"}
    OBVIOUS
  <2> QED
    BY <1>0, <1>2, <2>1, Zenon DEF RunRemoteTool, RunLocalRemote, Exit
<1>3. CASE CallDial(c) \/ CallHandshake(c) \/ CallWritten(c)
  BY <1>3, Zenon DEF CallDial, CallHandshake, CallWritten
<1>4. CASE CallWrite(c)
  BY <1>4 DEF CallWrite
<1>5. CASE CallRead(c)
  <2>1. Results(c) \in SUBSET {"help", "local", "remote"}
    BY DEF Results
  <2> QED
    BY <1>0, <1>5, <2>1, Zenon DEF CallRead, Exit
<1>6. CASE \/ CallDialFails(c) \/ CallWriteFails(c) \/ CallReadTooLong(c)
           \/ CallReadEnds(c) \/ CallTimesOut(c)
  BY <1>0, <1>6, Zenon
     DEF CallDialFails, CallWriteFails, CallReadTooLong, CallReadEnds, CallTimesOut, Exit
<1> QED
  BY <1>1, <1>2, <1>3, <1>4, <1>5, <1>6 DEF CallStep

\* The types are kept.
LEMMA TripTypes ==
  ASSUME TripInv, [TripNext]_tripVars
  PROVE  TripTypeOK'
<1>0. TripTypeOK /\ TypeOK'
  BY TripKeepsServer DEF TripInv, ConcurrencyInv
<1> USE DEF TripTypeOK, clientVars, NoCode, ExitOK, ExitError, ExitServer, ExitUsage
<1>1. CASE UNCHANGED clientVars /\ wire' \in [Conns -> {"part", "all", "long"}]
  BY <1>0, <1>1
<1>2. CASE ServerMoves \/ TripOver \/ UNCHANGED tripVars
  BY <1>0, <1>1, <1>2 DEF ServerMoves, TripOver, tripVars
<1>3. ASSUME NEW c \in Conns, ServerWrite(c) PROVE TripTypeOK'
  <2>1. UNCHANGED clientVars /\ \E w \in {"part", "all", "long"} : wire' = [wire EXCEPT ![c] = w]
    BY <1>3 DEF ServerWrite
  <2> QED
    BY <1>0, <1>1, <2>1
<1>4. ASSUME NEW c \in Conns, CallStep(c) PROVE TripTypeOK'
  <2>1. CASE \E e \in {ExitOK, ExitError, ExitServer, ExitUsage},
               what \in SUBSET {"help", "local", "remote"} : ExitPrinting(c, e, what)
    BY <1>0, <2>1 DEF ExitPrinting
  <2>2. CASE \E from, to \in {"argv", "start", "dialing", "writing", "reading"} : Move(c, from, to)
    BY <1>0, <2>2 DEF Move
  <2>3. CASE UNCHANGED <<clientVars, wire>>
    BY <1>0, <1>1, <2>3
  <2> QED
    BY <1>4, <2>1, <2>2, <2>3, CallStepForms
<1> QED
  BY <1>2, <1>3, <1>4 DEF TripNext

\* The write of a handler reaches the client of its connection only.
LEMMA WriteKeepsCall ==
  ASSUME TripInv, NEW c \in Conns, ServerWrite(c), NEW d \in Conns
  PROVE  CallInv(d)'
<1>0. ConcurrencyInv /\ TripTypeOK /\ CallInv(d) /\ AnswerInv(c)
  BY DEF TripInv, TripTypeOK, ConcurrencyInv, AnswersInv
<1>1. /\ sock'[d] = "idle" <=> sock[d] = "idle"
      /\ inbox' = inbox
      /\ pc[d] \in {"closing", "release", "done", "gone"} =>
           pc'[d] \in {"closing", "release", "done", "gone"} /\ resp'[d] = resp[d]
  BY <1>0, ServerKeepsCall
<1>2. CASE d # c
  BY <1>0, <1>1, <1>2, OthersCall DEF ServerWrite, TripTypeOK, clientVars
<1>3. CASE d = c
  <2>1. /\ pc[c] = "writing" /\ pc'[c] = "closing" /\ resp' = resp /\ resp[c] # <<>>
        /\ UNCHANGED clientVars
    BY <1>0, <1>3 DEF ServerWrite, WriteEnds, AnswerInv, TripTypeOK, TypeOK
  <2>2. wire[c] = "part"
    BY <1>0, <1>3, <2>1 DEF CallInv
  <2>3. Called(c)' = Called(c) /\ Want(c)' = Want(c)
    BY <2>1 DEF Called, Want, clientVars
  <2> QED
    BY <1>0, <1>1, <1>3, <2>1, <2>2, <2>3 DEF CallInv, clientVars
<1> QED
  BY <1>2, <1>3

\* A client may exit with code e, printing what, if they fit what has happened.
LEMMA ExitKeepsCall ==
  ASSUME TripTypeOK, NEW c \in Conns, CallInv(c), NEW e, NEW what, ExitPrinting(c, e, what),
         UNCHANGED vars,
         e \in {ExitOK, ExitError, ExitServer, ExitUsage},
         e = ExitUsage => cpc[c] = "argv",
         "remote" \in what => e = ExitOK /\ wire[c] = "all" /\ resp[c] = <<"ok">>,
         e = ExitServer => wire[c] = "all" /\ resp[c] # <<"ok">>,
         e # ExitOK => what = {},
         /\ e = ExitOK
         /\ Resolve(inv[c].host) # "" /\ Resolve(inv[c].token) # "" /\ inv[c].tool \in RemoteTools
         => what \cap {"remote", "help"} # {}
  PROVE  CallInv(c)'
<1>1. /\ cpc'[c] = "exited" /\ code'[c] = e /\ shown'[c] = what
      /\ UNCHANGED <<inv, wire, sock, inbox, pc, resp>>
  BY DEF ExitPrinting, TripTypeOK, vars, inVars, outVars
<1>2. ~Called(c)' /\ Want(c)' = Want(c)
  BY <1>1 DEF Called, Want
<1> QED
  BY <1>1, <1>2 DEF CallInv

\* A client keeps its own invariant.
LEMMA ClientKeepsCall ==
  ASSUME TripInv, NEW c \in Conns, CallStep(c)
  PROVE  CallInv(c)'
<1>0. TripTypeOK /\ CallInv(c) /\ AnswerInv(c)
  BY DEF TripInv, AnswersInv
<1>c. /\ ExitOK # ExitError /\ ExitOK # ExitServer /\ ExitOK # ExitUsage
      /\ ExitError # ExitServer /\ ExitError # ExitUsage /\ ExitServer # ExitUsage
  BY DEF ExitOK, ExitError, ExitServer, ExitUsage
<1>1. inv' = inv
  BY CallStepForms DEF ExitPrinting, Move, clientVars
<1>2. Want(c)' = Want(c)
  BY <1>1 DEF Want
<1>3. CASE ParseArgs(c) \/ LocalFails(c) \/ RunLocalOnly(c)
  <2>1. CASE ParseArgs(c)
    BY <1>0, <2>1, <1>c, ExitKeepsCall, Zenon DEF ParseArgs, Exit
  <2>2. CASE LocalFails(c)
    BY <1>0, <2>2, <1>c, ExitKeepsCall, Zenon DEF LocalFails, Exit
  <2>3. CASE RunLocalOnly(c)
    BY <1>0, <2>3, <1>c, ExitKeepsCall, Zenon DEF RunLocalOnly, Runs
  <2> QED
    BY <1>3, <2>1, <2>2, <2>3
<1>4. CASE RunRemoteTool(c) \/ RunLocalRemote(c)
  <2>1. CASE /\ Move(c, "argv", "start") /\ UNCHANGED vars /\ Runs(c, RemoteTools)
             /\ Resolve(inv[c].host) # "" /\ Resolve(inv[c].token) # ""
    BY <1>0, <1>1, <1>2, <2>1
       DEF Move, Runs, CallInv, Called, TripTypeOK, vars, inVars, outVars
  <2>2. CASE Exit(c, ExitUsage) /\ UNCHANGED vars /\ cpc[c] = "argv"
    BY <1>0, <2>2, <1>c, ExitKeepsCall, Zenon DEF Exit
  <2>3. CASE /\ ExitPrinting(c, ExitOK, {"local"}) /\ UNCHANGED vars
             /\ Resolve(inv[c].host) = "" \/ Resolve(inv[c].token) = ""
    BY <1>0, <2>3, <1>c, ExitKeepsCall, Zenon
  <2> QED
    BY <1>4, <2>1, <2>2, <2>3 DEF RunRemoteTool, RunLocalRemote, Runs
<1>5. CASE CallDial(c)
  <2>1. /\ cpc[c] = "start" /\ cpc'[c] = "dialing" /\ Resolve(inv[c].host) = "server"
        /\ UNCHANGED <<wire, code, shown, inbox, pc, resp>>
    BY <1>0, <1>5 DEF CallDial, Dial, Move, TripTypeOK, inVars, outVars
  <2>2. code[c] = NoCode /\ NoCode # ExitUsage
    BY <1>0, <2>1 DEF TripTypeOK, NoCode, ExitUsage
  <2> QED
    BY <1>0, <1>1, <1>2, <2>1, <2>2 DEF CallInv, Called
<1>6. CASE CallHandshake(c) \/ CallWritten(c)
  BY <1>0, <1>1, <1>2, <1>6
     DEF CallHandshake, CallWritten, Move, CallInv, Called, TripTypeOK, vars, inVars, outVars
<1>7. CASE CallWrite(c)
  <2>1. PICK l \in Lines \cap {Malformed, Want(c)}, done \in BOOLEAN : ClientSend(c, l, done)
    BY <1>0, <1>7, WritesLine DEF TripTypeOK
  <2> QED
    BY <1>0, <1>1, <1>2, <1>7, <2>1
       DEF CallWrite, ClientSend, CallInv, Called, TripTypeOK, TypeOK, clientVars, outVars
<1>8. CASE CallRead(c)
  <2>1. wire[c] = "all" /\ resp[c] # <<>> /\ \E r \in Responses : resp[c] = <<r>>
    BY <1>0, <1>8 DEF CallRead, CallInv, AnswerInv
  <2>2. resp[c] = <<"ok">> <=> resp[c][1] = "ok"
    BY <2>1
  <2>3. "remote" \in Results(c)
    BY DEF Results
  <2>4. CASE resp[c][1] = "ok"
    BY <1>0, <1>8, <2>1, <2>2, <2>3, <2>4, <1>c, ExitKeepsCall, Zenon DEF CallRead
  <2>5. CASE resp[c][1] # "ok"
    BY <1>0, <1>8, <2>1, <2>2, <2>5, <1>c, ExitKeepsCall, Zenon DEF CallRead, Exit
  <2> QED
    BY <2>4, <2>5
<1>9. CASE \/ CallDialFails(c) \/ CallWriteFails(c) \/ CallReadTooLong(c)
           \/ CallReadEnds(c) \/ CallTimesOut(c)
  <2>1. Exit(c, ExitError) /\ UNCHANGED vars
    BY <1>9 DEF CallDialFails, CallWriteFails, CallReadTooLong, CallReadEnds, CallTimesOut
  <2> QED
    BY <1>0, <2>1, <1>c, ExitKeepsCall, Zenon DEF Exit
<1> QED
  BY <1>3, <1>4, <1>5, <1>6, <1>7, <1>8, <1>9 DEF CallStep

\* Nor does it touch another client.
LEMMA ClientKeepsOthers ==
  ASSUME TripInv, NEW c \in Conns, CallStep(c), NEW d \in Conns, d # c
  PROVE  CallInv(d)'
<1>0. TripTypeOK /\ CallInv(d)
  BY DEF TripInv
<1>1. /\ inv'[d] = inv[d] /\ cpc'[d] = cpc[d] /\ code'[d] = code[d]
      /\ shown'[d] = shown[d] /\ wire'[d] = wire[d]
  BY <1>0, CallStepForms DEF ExitPrinting, Move, clientVars, TripTypeOK
<1>2. CASE CallWrite(c)
  <2>1. \E l, done : ClientSend(c, l, done)
    BY <1>2, Zenon DEF CallWrite
  <2> QED
    BY <1>0, <1>1, <2>1, OthersCall DEF ClientSend, TripTypeOK, TypeOK, outVars
<1>3. CASE CallDial(c)
  BY <1>0, <1>1, <1>3, OthersCall DEF CallDial, Dial, TripTypeOK, TypeOK, inVars, outVars
<1>4. CASE ~(CallWrite(c) \/ CallDial(c))
  <2>1. UNCHANGED vars
    BY <1>4
       DEF CallStep, ParseArgs, LocalFails, RunLocalOnly, RunRemoteTool, RunLocalRemote,
           CallDialFails, CallHandshake, CallWritten, CallWriteFails, CallRead,
           CallReadTooLong, CallReadEnds, CallTimesOut
  <2> QED
    BY <1>0, <1>1, <2>1, OthersCall DEF vars, inVars, outVars
<1> QED
  BY <1>2, <1>3, <1>4

-----------------------------------------------------------------------------
(***************************************************************************)
(* Theorems.                                                               *)
(***************************************************************************)

\* The clients' and the server's invariants hold together in every reachable state.
THEOREM TripInvariant == TripSpec => []TripInv
<1>1. TripInit => TripInv
  <2> SUFFICES ASSUME TripInit PROVE TripInv
    OBVIOUS
  <2>1. Init
    BY DEF TripInit
  <2>2. SlotHolders = {} /\ LiveHandlers = {}
    BY <2>1 DEF Init, IdleInit, SlotHolders, LiveHandlers
  <2>3. Lifecycle /\ Counting /\ AnswersInv
    BY <2>1, <2>2, FS_EmptySet
       DEF Counting, Lifecycle, Init, IdleInit, AnswersInv, AnswerInv
  <2>4. TripTypeOK
    BY <2>1, InitType DEF TripInit, TripTypeOK, NoCode
  <2>5. ASSUME NEW c \in Conns PROVE CallInv(c)
    BY <2>1 DEF CallInv, Called, TripInit, Init, IdleInit, NoCode, ExitOK, ExitServer, ExitUsage
  <2> QED
    BY <2>3, <2>4, <2>5 DEF TripInv
<1>2. TripInv /\ [TripNext]_tripVars => TripInv'
  <2> SUFFICES ASSUME TripInv, [TripNext]_tripVars, NEW d \in Conns PROVE CallInv(d)'
    BY TripKeepsServer, TripTypes DEF TripInv, ConcurrencyInv
  <2>0. ConcurrencyInv /\ TripTypeOK /\ CallInv(d)
    BY DEF TripInv, TripTypeOK, ConcurrencyInv
  <2>1. CASE ServerMoves
    <3>1. /\ sock'[d] = "idle" <=> sock[d] = "idle"
          /\ inbox' = inbox
          /\ pc[d] \in {"closing", "release", "done", "gone"} =>
               pc'[d] \in {"closing", "release", "done", "gone"} /\ resp'[d] = resp[d]
      BY <2>0, <2>1, ServerKeepsCall
    <3> QED
      BY <2>0, <2>1, <3>1, OthersCall DEF ServerMoves, clientVars
  <2>2. ASSUME NEW c \in Conns, ServerWrite(c) PROVE CallInv(d)'
    BY <2>2, WriteKeepsCall
  <2>3. ASSUME NEW c \in Conns, CallStep(c) PROVE CallInv(d)'
    BY <2>3, ClientKeepsCall, ClientKeepsOthers
  <2>4. CASE UNCHANGED tripVars
    BY <2>0, <2>4, OthersCall DEF tripVars, vars, clientVars, inVars, outVars
  <2> QED
    BY <2>1, <2>2, <2>3, <2>4 DEF TripNext, TripOver
<1> QED
  BY <1>1, <1>2, PTL DEF TripSpec

\* The exit code and what is printed tell the truth about the server, whatever is cut
\* off, late or too long on the way.
THEOREM ExitCodesTell == TripSpec => []ExitTells
<1>1. ASSUME TripInv PROVE ExitTells
  <2> SUFFICES ASSUME NEW c \in Conns
               PROVE  /\ "remote" \in shown[c] =>
                           code[c] = ExitOK /\ Want(c) \in AuthorisedRequests /\ resp[c] = <<"ok">>
                      /\ code[c] = ExitServer => Len(resp[c]) = 1 /\ resp[c] # <<"ok">>
                      /\ code[c] = ExitUsage => sock[c] = "idle"
                      /\ code[c] \notin {NoCode, ExitOK} => shown[c] = {}
    BY DEF ExitTells
  <2>1. CallInv(c) /\ AnswerInv(c)
    BY <1>1 DEF TripInv, AnswersInv
  <2>2. ASSUME "remote" \in shown[c] PROVE Want(c) \in AuthorisedRequests
    <3>1. resp[c] = <<"ok">> /\ inbox[c] \in {NoLine, Malformed, Want(c)}
      BY <2>1, <2>2 DEF CallInv
    <3>2. inbox[c] \in AuthorisedRequests
      <4>1. PICK r \in Responses : resp[c] = <<r>> /\ (r \in ToolResults => inbox[c] \in AuthorisedRequests)
        BY <2>1, <3>1 DEF AnswerInv
      <4>2. r = "ok"
        BY <3>1, <4>1
      <4> QED
        BY <4>1, <4>2 DEF ToolResults
    <3>3. AuthorisedRequests \subseteq Request
      BY ToolsAssumption DEF AuthorisedRequests, Request
    <3> QED
      BY <3>1, <3>2, <3>3, SentinelAssumption DEF Lines
  <2>3. ASSUME code[c] = ExitServer PROVE Len(resp[c]) = 1
    <3>1. \E r \in Responses : resp[c] = <<r>>
      BY <2>1, <2>3 DEF CallInv, AnswerInv
    <3> QED
      BY <3>1
  <2> QED
    BY <2>1, <2>2, <2>3 DEF CallInv
<1> QED
  BY <1>1, TripInvariant, PTL

\* Only the server that was named is called, with the token that was named, and its
\* answer or a failure is what the caller gets.
THEOREM NamedServerAnswers == TripSpec => []AddressedServerAnswers
<1>1. ASSUME TripInv PROVE AddressedServerAnswers
  <2> SUFFICES ASSUME NEW c \in Conns
               PROVE  /\ code[c] = ExitOK /\ Resolve(inv[c].host) # "" /\ Resolve(inv[c].token) # ""
                           /\ inv[c].tool \in RemoteTools
                           => shown[c] \cap {"remote", "help"} # {}
                      /\ sock[c] # "idle" => Resolve(inv[c].host) = "server"
                      /\ inbox[c] \in Request => inbox[c].token = Resolve(inv[c].token)
    BY ResolveIsMeant DEF AddressedServerAnswers
  <2>1. CallInv(c)
    BY <1>1 DEF TripInv
  <2>2. ASSUME inbox[c] \in Request PROVE inbox[c].token = Resolve(inv[c].token)
    <3>1. inbox[c] = Want(c) /\ inbox[c] # Oversized
      BY <2>1, <2>2, SentinelAssumption DEF CallInv, Lines
    <3> QED
      BY <3>1 DEF Want
  <2> QED
    BY <2>1, <2>2 DEF CallInv
<1> QED
  BY <1>1, TripInvariant, PTL
=============================================================================
