------------------------------- MODULE Server -------------------------------
(***************************************************************************)
(* The rpeek serve transport (internal/server/server.go): the accept loop  *)
(* of Server.Serve, the semaphore that bounds the handlers, one handleConn *)
(* goroutine per connection, the goroutine that closes the listener when   *)
(* the context is cancelled, and Runner.RunRemote                          *)
(* (internal/tools/runner.go), through which a handler reaches a tool.     *)
(*                                                                         *)
(* A connection serves one request, so a handler goroutine is named by its *)
(* connection.  Bytes are abstracted to what the server can tell apart:    *)
(* whether the line is too long, whether it parses, its token and its tool.*)
(* Time is abstracted to the events the deadlines cause: each may fire as  *)
(* soon as it is armed, and fairness says that it does fire in the end.    *)
(***************************************************************************)
EXTENDS Integers, Sequences, FiniteSets

CONSTANTS
  Conns,           \* the connections clients may open
  MaxConns,        \* Server.maxConns, the capacity of the semaphore channel
  BackoffInitial,  \* acceptBackoffInitial
  BackoffMax,      \* acceptBackoffMax
  Token,           \* Server.token
  Tokens,          \* the tokens a request may present
  Tools,           \* the tool names a request may carry
  Registered,      \* the tools the registry knows
  Remote,          \* the registered tools with a server-side operation
  CtxAware,        \* the remote tools that watch their context
  ToolTimeout,     \* whether Limits.Timeout > 0
  Oversized,       \* a line longer than maxRequestLine
  Malformed,       \* a line json.Unmarshal rejects
  Offered,         \* the lines clients send
  NoLine,          \* no byte received
  NoConn           \* no connection in the accept loop's hand

Request == [token : Tokens, tool : Tools]

Lines == Request \cup {Oversized, Malformed}

ASSUME MaxConnsAssumption == MaxConns \in Nat \ {0}

ASSUME BackoffAssumption ==
  /\ BackoffInitial \in Nat \ {0}
  /\ BackoffMax \in Nat
  /\ BackoffInitial <= BackoffMax

ASSUME ToolsAssumption ==
  /\ Token \in Tokens
  /\ Registered \subseteq Tools
  /\ Remote \subseteq Registered
  /\ CtxAware \subseteq Remote
  /\ ToolTimeout \in BOOLEAN

ASSUME SentinelAssumption ==
  /\ NoConn \notin Conns
  /\ NoLine \notin Lines
  /\ Oversized # Malformed
  /\ {Oversized, Malformed} \cap Request = {}
  /\ Offered \subseteq Lines

(***************************************************************************)
(* The responses, by their Error text; "ok" is the one with OK: true.      *)
(***************************************************************************)
Responses == {"ok", "tool error", "internal error", "request too large",
              "invalid request", "unauthorized", "unknown tool",
              "no server-side operation"}

VARIABLES
  ctxDone,      \* the context of Serve is cancelled
  lnOpen,       \* the listener is open
  loop,         \* where the accept loop is
  held,         \* the connection accepted and not yet handed over
  acceptDelay,  \* the backoff before the next Accept
  sem,          \* the number of tokens in the semaphore channel
  wg,           \* the counter of the WaitGroup
  sock,         \* each connection's socket, as the server's kernel sees it
  inbox,        \* what the client has sent of its request line
  eol,          \* whether the line is complete: newline or buffer full
  pc,           \* where each handler goroutine is
  resp,         \* the responses handed to writeResponse, in order
  audit         \* the number of audit lines logged for a connection

loopVars == <<loop, held, acceptDelay>>
semVars == <<sem, wg>>
inVars == <<inbox, eol>>
outVars == <<resp, audit>>
vars == <<ctxDone, lnOpen, loopVars, semVars, sock, inVars, pc, outVars>>

\* No connection yet, the accept loop at its start.
IdleInit ==
  /\ ctxDone = FALSE
  /\ loop = "accept"
  /\ held = NoConn
  /\ acceptDelay = 0
  /\ sem = 0
  /\ wg = 0
  /\ sock = [c \in Conns |-> "idle"]
  /\ inbox = [c \in Conns |-> NoLine]
  /\ eol = [c \in Conns |-> FALSE]
  /\ pc = [c \in Conns |-> "none"]
  /\ resp = [c \in Conns |-> <<>>]
  /\ audit = [c \in Conns |-> 0]

\* Serve is called with an open listener.
Init == lnOpen = TRUE /\ IdleInit

-----------------------------------------------------------------------------
(***************************************************************************)
(* The environment: clients, the network, and whoever cancels the context. *)
(***************************************************************************)

\* A client connects; the kernel queues the connection in the backlog.
Dial(c) ==
  /\ sock[c] = "idle"
  /\ lnOpen
  /\ sock' = [sock EXCEPT ![c] = "backlog"]
  /\ UNCHANGED <<ctxDone, lnOpen, loopVars, semVars, inVars, pc, outVars>>

\* Bytes arrive before the handler is done reading. An unfinished line reads,
\* for now, as line l; more bytes may turn a prefix into anything, but not one
\* request into another.
ClientSend(c, l, done) ==
  /\ sock[c] \in {"backlog", "open"}
  /\ pc[c] \in {"none", "reading"}
  /\ ~eol[c]
  /\ <<inbox[c], eol[c]>> # <<l, done>>
  /\ inbox[c] \in Request => l \notin Request \ {inbox[c]}
  /\ l = Oversized => done
  /\ inbox' = [inbox EXCEPT ![c] = l]
  /\ eol' = [eol EXCEPT ![c] = done]
  /\ UNCHANGED <<ctxDone, lnOpen, loopVars, semVars, sock, pc, outVars>>

\* A signal, the TTL timer or the caller cancels the context.
Cancel ==
  /\ ~ctxDone
  /\ ctxDone' = TRUE
  /\ UNCHANGED <<lnOpen, loopVars, semVars, sock, inVars, pc, outVars>>

-----------------------------------------------------------------------------
(***************************************************************************)
(* Server.Serve.                                                           *)
(***************************************************************************)

\* ln.Close(): the kernel resets what is still queued.
ShutListener ==
  /\ lnOpen' = FALSE
  /\ sock' = [c \in Conns |-> IF sock[c] = "backlog" THEN "refused" ELSE sock[c]]

MutantCloseListener == FALSE /\ UNCHANGED vars

\* The goroutine that waits for ctx.Done() and closes the listener.
CloseListener ==
  /\ ctxDone
  /\ lnOpen
  /\ ShutListener
  /\ UNCHANGED <<ctxDone, loopVars, semVars, inVars, pc, outVars>>

MutantAcceptNoReset(c) ==
  /\ loop = "accept"
  /\ lnOpen
  /\ sock[c] = "backlog"
  /\ sock' = [sock EXCEPT ![c] = "open"]
  /\ held' = c
  /\ loop' = "acquire"
  /\ UNCHANGED <<ctxDone, lnOpen, acceptDelay, semVars, inVars, pc, outVars>>

\* ln.Accept() succeeds.
Accept(c) ==
  /\ loop = "accept"
  /\ lnOpen
  /\ sock[c] = "backlog"
  /\ sock' = [sock EXCEPT ![c] = "open"]
  /\ held' = c
  /\ acceptDelay' = 0
  /\ loop' = "acquire"
  /\ UNCHANGED <<ctxDone, lnOpen, semVars, inVars, pc, outVars>>

MutantNextDelay(d) == IF d = 0 THEN BackoffInitial ELSE d * 2

\* The capped exponential backoff.
NextDelay(d) ==
  LET doubled == IF d = 0 THEN BackoffInitial ELSE d * 2
  IN  IF doubled > BackoffMax THEN BackoffMax ELSE doubled

MutantAcceptError ==
  /\ loop = "accept"
  /\ loop' = "wait"
  /\ UNCHANGED <<ctxDone, lnOpen, held, acceptDelay, semVars, sock, inVars, pc, outVars>>

\* ln.Accept() fails: for good once the listener is closed, or transiently.
AcceptError ==
  /\ loop = "accept"
  /\ IF ctxDone
       THEN /\ loop' = "wait"
            /\ UNCHANGED acceptDelay
       ELSE /\ acceptDelay' = NextDelay(acceptDelay)
            /\ loop' = "backoff"
  /\ UNCHANGED <<ctxDone, lnOpen, held, semVars, sock, inVars, pc, outVars>>

\* case <-time.After(acceptDelay)
BackoffElapsed ==
  /\ loop = "backoff"
  /\ loop' = "accept"
  /\ UNCHANGED <<ctxDone, lnOpen, held, acceptDelay, semVars, sock, inVars, pc,
                 outVars>>

\* case <-ctx.Done() while backing off
BackoffCancelled ==
  /\ loop = "backoff"
  /\ ctxDone
  /\ loop' = "wait"
  /\ UNCHANGED <<ctxDone, lnOpen, held, acceptDelay, semVars, sock, inVars, pc,
                 outVars>>

MutantAcquireSlot ==
  /\ loop = "acquire"
  /\ sem <= MaxConns
  /\ sem' = sem + 1
  /\ wg' = wg + 1
  /\ pc' = [pc EXCEPT ![held] = "reading"]
  /\ held' = NoConn
  /\ loop' = "accept"
  /\ UNCHANGED <<ctxDone, lnOpen, acceptDelay, sock, inVars, outVars>>

\* case sem <- struct{}{}: then wg.Add(1) and the handler goroutine starts.
AcquireSlot ==
  /\ loop = "acquire"
  /\ sem < MaxConns
  /\ sem' = sem + 1
  /\ wg' = wg + 1
  /\ pc' = [pc EXCEPT ![held] = "reading"]
  /\ held' = NoConn
  /\ loop' = "accept"
  /\ UNCHANGED <<ctxDone, lnOpen, acceptDelay, sock, inVars, outVars>>

\* case <-ctx.Done() while waiting for a slot: the connection is dropped.
DropHeld ==
  /\ loop = "acquire"
  /\ ctxDone
  /\ sock' = [sock EXCEPT ![held] = "closed"]
  /\ held' = NoConn
  /\ loop' = "wait"
  /\ UNCHANGED <<ctxDone, lnOpen, acceptDelay, semVars, inVars, pc, outVars>>

MutantServeReturns ==
  /\ loop = "wait"
  /\ loop' = "returned"
  /\ UNCHANGED <<ctxDone, lnOpen, held, acceptDelay, semVars, sock, inVars, pc,
                 outVars>>

\* wg.Wait() and return
ServeReturns ==
  /\ loop = "wait"
  /\ wg = 0
  /\ loop' = "returned"
  /\ UNCHANGED <<ctxDone, lnOpen, held, acceptDelay, semVars, sock, inVars, pc,
                 outVars>>

-----------------------------------------------------------------------------
(***************************************************************************)
(* handleConn, one goroutine per connection.                               *)
(***************************************************************************)

\* The handler calls writeResponse(r): the write is under way.
Respond(c, r) ==
  /\ pc' = [pc EXCEPT ![c] = "writing"]
  /\ resp' = [resp EXCEPT ![c] = Append(@, r)]
  /\ UNCHANGED audit

\* RunRemote up to the call of remote.Remote: an unknown tool, or one without a
\* server-side operation, is an error at once.
RunRemote(c, tool) ==
  \/ /\ tool \notin Registered
     /\ Respond(c, "unknown tool")
  \/ /\ tool \in Registered \ Remote
     /\ Respond(c, "no server-side operation")
  \/ /\ tool \in Remote
     /\ pc' = [pc EXCEPT ![c] = "running"]
     /\ UNCHANGED outVars

MutantHandleLine(c, line) ==
  \/ line = Oversized /\ Respond(c, "request too large")
  \/ line = Malformed /\ Respond(c, "invalid request")
  \/ line \in Request /\ RunRemote(c, line.tool)

\* What handleConn does with the line the scanner returns.
HandleLine(c, line) ==
  \/ line = Oversized /\ Respond(c, "request too large")
  \/ line = Malformed /\ Respond(c, "invalid request")
  \/ /\ line \in Request
     /\ line.token # Token
     /\ Respond(c, "unauthorized")
  \/ /\ line \in Request
     /\ line.token = Token
     /\ RunRemote(c, line.tool)

\* scanner.Scan() with the whole line at hand
ScanLine(c) ==
  /\ pc[c] = "reading"
  /\ eol[c]
  /\ HandleLine(c, inbox[c])
  /\ UNCHANGED <<ctxDone, lnOpen, loopVars, semVars, sock, inVars>>

MutantReadEnds(c) == FALSE /\ UNCHANGED vars

\* The stream ends first: EOF, a reset, a failed handshake or the read deadline.
\* The scanner hands over an unfinished line as the last one; with no byte at
\* all Scan fails, and the handler logs and returns without a response.
ReadEnds(c) ==
  /\ pc[c] = "reading"
  /\ ~eol[c]
  /\ \/ /\ inbox[c] = NoLine
        /\ audit' = [audit EXCEPT ![c] = @ + 1]
        /\ pc' = [pc EXCEPT ![c] = "closing"]
        /\ UNCHANGED resp
     \/ /\ inbox[c] # NoLine
        /\ HandleLine(c, inbox[c])
  /\ UNCHANGED <<ctxDone, lnOpen, loopVars, semVars, sock, inVars>>

\* remote.Remote returns by itself, with a result or an error.
ToolReturns(c) ==
  /\ pc[c] = "running"
  /\ \E r \in {"ok", "tool error"} : Respond(c, r)
  /\ UNCHANGED <<ctxDone, lnOpen, loopVars, semVars, sock, inVars>>

MutantToolCtxDone(c) ==
  /\ pc[c] = "running"
  /\ inbox[c].tool \in CtxAware
  /\ ToolTimeout
  /\ Respond(c, "tool error")
  /\ UNCHANGED <<ctxDone, lnOpen, loopVars, semVars, sock, inVars>>

\* A tool that watches its context gives up when the context ends: at the
\* per-tool timeout, or when the server's own context is cancelled.
ToolCtxDone(c) ==
  /\ pc[c] = "running"
  /\ inbox[c].tool \in CtxAware
  /\ ToolTimeout \/ ctxDone
  /\ Respond(c, "tool error")
  /\ UNCHANGED <<ctxDone, lnOpen, loopVars, semVars, sock, inVars>>

MutantToolPanics(c) ==
  /\ pc[c] = "running"
  /\ pc' = [pc EXCEPT ![c] = "closing"]
  /\ UNCHANGED <<ctxDone, lnOpen, loopVars, semVars, sock, inVars, outVars>>

\* The tool panics; the deferred function recovers and answers.
ToolPanics(c) ==
  /\ pc[c] = "running"
  /\ Respond(c, "internal error")
  /\ UNCHANGED <<ctxDone, lnOpen, loopVars, semVars, sock, inVars>>

MutantWriteEnds(c) ==
  /\ pc[c] = "writing"
  /\ audit' = [audit EXCEPT ![c] = @ + 1]
  /\ pc' = [pc EXCEPT ![c] = IF resp[c] = <<"unauthorized">> THEN "running" ELSE "closing"]
  /\ UNCHANGED <<ctxDone, lnOpen, loopVars, semVars, sock, inVars, resp>>

\* conn.Write ends: the response is sent, or the peer is gone, or the write
\* deadline passes; the error is ignored either way and one line is logged.
WriteEnds(c) ==
  /\ pc[c] = "writing"
  /\ audit' = [audit EXCEPT ![c] = @ + 1]
  /\ pc' = [pc EXCEPT ![c] = "closing"]
  /\ UNCHANGED <<ctxDone, lnOpen, loopVars, semVars, sock, inVars, resp>>

MutantCloseConn(c) ==
  /\ pc[c] = "closing"
  /\ pc' = [pc EXCEPT ![c] = "release"]
  /\ UNCHANGED <<ctxDone, lnOpen, loopVars, semVars, sock, inVars, outVars>>

\* defer conn.Close()
CloseConn(c) ==
  /\ pc[c] = "closing"
  /\ sock' = [sock EXCEPT ![c] = "closed"]
  /\ pc' = [pc EXCEPT ![c] = "release"]
  /\ UNCHANGED <<ctxDone, lnOpen, loopVars, semVars, inVars, outVars>>

\* defer func() { <-sem }(): a receive, which blocks on an empty channel
ReleaseSlot(c) ==
  /\ pc[c] = "release"
  /\ sem > 0
  /\ sem' = sem - 1
  /\ pc' = [pc EXCEPT ![c] = "done"]
  /\ UNCHANGED <<ctxDone, lnOpen, loopVars, wg, sock, inVars, outVars>>

\* defer wg.Done()
WgDone(c) ==
  /\ pc[c] = "done"
  /\ wg' = wg - 1
  /\ pc' = [pc EXCEPT ![c] = "gone"]
  /\ UNCHANGED <<ctxDone, lnOpen, loopVars, sem, sock, inVars, outVars>>

-----------------------------------------------------------------------------

\* Serve has returned and the listener is closed: nothing is left to do.
Terminated ==
  /\ loop = "returned"
  /\ ~lnOpen
  /\ UNCHANGED vars

HandlerStep(c) ==
  \/ ScanLine(c)
  \/ ReadEnds(c)
  \/ ToolReturns(c)
  \/ ToolCtxDone(c)
  \/ ToolPanics(c)
  \/ WriteEnds(c)
  \/ CloseConn(c)
  \/ ReleaseSlot(c)
  \/ WgDone(c)

LoopStep ==
  \/ \E c \in Conns : Accept(c)
  \/ AcceptError
  \/ BackoffElapsed
  \/ BackoffCancelled
  \/ AcquireSlot
  \/ DropHeld
  \/ ServeReturns

Next ==
  \/ Cancel
  \/ CloseListener
  \/ LoopStep
  \/ \E c \in Conns : HandlerStep(c)
  \/ \E c \in Conns : Dial(c)
  \/ \E c \in Conns, l \in Offered, done \in BOOLEAN : ClientSend(c, l, done)
  \/ Terminated

Spec == Init /\ [][Next]_vars

(***************************************************************************)
(* Fairness.  A runnable goroutine is scheduled (loop, handlers, closer);  *)
(* the read deadline, the write deadline and the backoff timer fire; a     *)
(* tool that watches its context returns when the context ends, and one    *)
(* that does not (read, stat) does bounded local I/O and returns.  Clients *)
(* and the canceller owe nothing.  The errors of Accept are transient:     *)
(* while connections keep being queued, Accept succeeds again and again,   *)
(* and the backlog is a queue, so each connection gets its turn.           *)
(***************************************************************************)
PlainToolReturns(c) ==
  /\ pc[c] = "running"
  /\ inbox[c].tool \notin CtxAware
  /\ ToolReturns(c)

Fairness ==
  /\ WF_vars(CloseListener)
  /\ WF_vars(BackoffElapsed \/ BackoffCancelled)
  /\ WF_vars(AcquireSlot \/ DropHeld)
  /\ WF_vars(ServeReturns)
  /\ WF_vars(~lnOpen /\ AcceptError)
  /\ \A c \in Conns :
       /\ SF_vars(Accept(c))
       /\ WF_vars(ScanLine(c) \/ ReadEnds(c))
       /\ WF_vars(ToolCtxDone(c))
       /\ WF_vars(PlainToolReturns(c))
       /\ WF_vars(WriteEnds(c))
       /\ WF_vars(CloseConn(c) \/ ReleaseSlot(c) \/ WgDone(c))

FairSpec == Spec /\ Fairness

-----------------------------------------------------------------------------
(***************************************************************************)
(* Properties.                                                             *)
(***************************************************************************)

\* Every variable keeps its type.
TypeOK ==
  /\ ctxDone \in BOOLEAN
  /\ lnOpen \in BOOLEAN
  /\ loop \in {"accept", "backoff", "acquire", "wait", "returned"}
  /\ held \in Conns \cup {NoConn}
  /\ acceptDelay \in 0..BackoffMax
  /\ sem \in 0..MaxConns
  /\ wg \in Int
  /\ sock \in [Conns -> {"idle", "backlog", "refused", "open", "closed"}]
  /\ inbox \in [Conns -> Lines \cup {NoLine}]
  /\ eol \in [Conns -> BOOLEAN]
  /\ pc \in [Conns -> {"none", "reading", "running", "writing", "closing",
                       "release", "done", "gone"}]
  /\ resp \in [Conns -> Seq(Responses)]
  /\ audit \in [Conns -> Nat]

\* The handlers that hold a slot of the semaphore.
SlotHolders ==
  {c \in Conns : pc[c] \in {"reading", "running", "writing", "closing", "release"}}

\* The handlers the WaitGroup counts.
LiveHandlers == {c \in Conns : pc[c] \notin {"none", "gone"}}

OpenConns == {c \in Conns : sock[c] = "open"}

\* The semaphore holds exactly one token per handler between its acquisition
\* and its deferred receive, so that receive never blocks, and the WaitGroup
\* counts exactly the handlers that have not yet called Done (server.go:120-133).
SlotAccounting ==
  /\ sem = Cardinality(SlotHolders)
  /\ sem <= MaxConns
  /\ wg = Cardinality(LiveHandlers)

\* The server never has more than MaxConns accepted connections open, but for
\* the one the accept loop holds while it waits for a slot: a connection is
\* closed before its slot is given to another one (server.go:86-90).
OpenBound ==
  Cardinality(OpenConns) <= MaxConns + (IF held = NoConn THEN 0 ELSE 1)

\* When Serve has returned, no handler is alive and every connection it ever
\* accepted is closed, whatever the moment of the cancellation (server.go:77-79).
CleanReturn ==
  loop = "returned" => OpenConns = {} /\ LiveHandlers = {}

\* A handler that is through has logged one audit line and given one response,
\* or none if its client sent nothing, panics and dead peers included
\* (server.go:66, 139-140, 151-158).
OneAnswer ==
  \A c \in Conns : pc[c] \in {"closing", "release", "done", "gone"} =>
    /\ audit[c] = 1
    /\ Len(resp[c]) = (IF inbox[c] = NoLine THEN 0 ELSE 1)

\* What a handler answers only after its tool was started.
ToolResults == {"ok", "tool error", "internal error"}

\* The connections whose tool was started.
ToolStarted ==
  {c \in Conns :
     \/ pc[c] = "running"
     \/ \E i \in 1..Len(resp[c]) : resp[c][i] \in ToolResults}

\* The requests with the server's token for a tool with a server-side operation.
AuthorisedRequests == [token : {Token}, tool : Remote]

\* A tool runs, and a tool's result is sent, only for a request with the
\* server's token that names a tool with a server-side operation
\* (server.go:183-189, runner.go:26-33).
RunsOnlyAuthorised ==
  \A c \in ToolStarted : inbox[c] \in AuthorisedRequests

\* While the loop backs off its delay is within the two bounds, and an accepted
\* connection finds it reset (server.go:103-119).
BackoffBounded ==
  /\ loop = "backoff" => acceptDelay \in BackoffInitial..BackoffMax
  /\ loop = "acquire" => acceptDelay = 0

\* Nothing but a cancelled context ends the accept loop: no number of Accept
\* errors stops the server (server.go:99-118).
ServesUntilCancelled ==
  loop \in {"wait", "returned"} => ctxDone

\* Serve implements the abstract request service.
ConnPhase(c) ==
  IF pc[c] = "none" THEN "waiting"
  ELSE IF c \in SlotHolders THEN "active" ELSE "left"

AnswerOf(r) ==
  CASE r = <<>> -> "none"
    [] r = <<"ok">> -> "ok"
    [] Len(r) = 1 /\ r # <<"ok">> -> "error"
    [] OTHER -> "garbled"

Service == INSTANCE RequestService WITH
  Inputs <- Lines,
  Authorised <- AuthorisedRequests,
  NoInput <- NoLine,
  phase <- [c \in Conns |-> ConnPhase(c)],
  input <- inbox,
  executed <- ToolStarted,
  answer <- [c \in Conns |-> AnswerOf(resp[c])],
  stopped <- (loop = "returned")

\* Every behaviour of the server is one of the abstract service: bounded
\* admission, authorised execution at most once, one answer, graceful stop.
ImplementsService == Service!Spec

\* Once the context is cancelled, Serve returns: no stalled client, hung tool
\* or full semaphore can prevent the shutdown.
ShutdownCompletes == ctxDone ~> loop = "returned"

\* Every accepted connection is closed in the end, so a slot is never lost to a
\* client that stalls before authentication (server.go:22-26) or never reads.
ConnsReaped == \A c \in Conns : sock[c] = "open" ~> sock[c] = "closed"

\* No connection waits in the backlog for ever: it is accepted, or refused by
\* the shutdown.
BacklogDrains == \A c \in Conns : sock[c] = "backlog" ~> sock[c] # "backlog"
=============================================================================
