------------------------------ MODULE ServeTool ------------------------------
(***************************************************************************)
(* The serve tool (internal/tools/tool_serve.go, Serve): the life of a     *)
(* server process around Server.Serve.  Startup acquires the database      *)
(* pools (internal/dbconn/dbconn.go, New) and the listener, each step of   *)
(* which may fail; signals and the TTL timer cancel the context Serve runs *)
(* under; the deferred calls give everything back in reverse order.        *)
(***************************************************************************)
EXTENDS Server

CONSTANTS
  DBs,  \* the database aliases configured by --db and RPEEK_DB_<ALIAS>
  TTL   \* whether args.TTL > 0

ASSUME TTLAssumption == TTL \in BOOLEAN

VARIABLES
  step,        \* where serveTool.Serve is
  pools,       \* the aliases whose connection pool is open
  ttlArmed,    \* time.AfterFunc(args.TTL, stop) has been set and not fired
  sigHandled   \* signal.NotifyContext catches SIGINT and SIGTERM

toolVars == <<step, pools, ttlArmed, sigHandled>>
serveVars == <<vars, toolVars>>

ServeInit ==
  /\ lnOpen = FALSE
  /\ IdleInit
  /\ step = "configure"
  /\ pools = {}
  /\ ttlArmed = FALSE
  /\ sigHandled = FALSE

Alive == step \notin {"exited", "killed"}

-----------------------------------------------------------------------------
(***************************************************************************)
(* Startup.                                                                *)
(***************************************************************************)

\* Arguments, bind address, roots, jail and token: any may be rejected, and
\* nothing is held yet.
Configure ==
  /\ step = "configure"
  /\ step' \in {"databases", "exited"}
  /\ UNCHANGED <<vars, pools, ttlArmed, sigHandled>>

MutantOpenDatabase(a) ==
  /\ step = "databases"
  /\ a \in DBs \ pools
  /\ \/ pools' = pools \cup {a} /\ UNCHANGED step
     \/ step' = "exited" /\ UNCHANGED pools
  /\ UNCHANGED <<vars, ttlArmed, sigHandled>>

\* One turn of dbconn.New's loop over the aliases, in no particular order: the
\* pool is opened, or the alias or its DSN is rejected and New closes the pools
\* it has opened before it fails.
OpenDatabase(a) ==
  /\ step = "databases"
  /\ a \in DBs \ pools
  /\ \/ pools' = pools \cup {a} /\ UNCHANGED step
     \/ step' = "exited" /\ pools' = {}
  /\ UNCHANGED <<vars, ttlArmed, sigHandled>>

\* New returns, or there was no alias and no registry: from here on the deferred
\* registry.Close() runs on every way out.
DatabasesOpen ==
  /\ step = "databases"
  /\ pools = DBs
  /\ step' = "listen"
  /\ UNCHANGED <<vars, pools, ttlArmed, sigHandled>>

\* tlsutil.ServerTLSConfig and tls.Listen
Listen ==
  /\ step = "listen"
  /\ \/ lnOpen' = TRUE /\ step' = "notify"
     \/ UNCHANGED lnOpen /\ step' = "closeRegistry"
  /\ UNCHANGED <<ctxDone, loopVars, semVars, sock, inVars, pc, outVars>>
  /\ UNCHANGED <<pools, ttlArmed, sigHandled>>

MutantNotify ==
  /\ step = "notify"
  /\ ttlArmed' = TTL
  /\ step' = "serving"
  /\ UNCHANGED <<vars, pools, sigHandled>>

\* signal.NotifyContext, the TTL timer and the banner; then srv.Serve is called.
Notify ==
  /\ step = "notify"
  /\ sigHandled' = TRUE
  /\ ttlArmed' = TTL
  /\ step' = "serving"
  /\ UNCHANGED <<vars, pools>>

-----------------------------------------------------------------------------
(***************************************************************************)
(* Signals and the TTL.                                                    *)
(***************************************************************************)

\* SIGINT or SIGTERM: caught, it cancels the context (again, perhaps); not
\* caught, it ends the process there and then.
Signal ==
  /\ Alive
  /\ \/ /\ sigHandled
        /\ ~ctxDone
        /\ ctxDone' = TRUE
        /\ UNCHANGED toolVars
     \/ /\ ~sigHandled
        /\ step' = "killed"
        /\ UNCHANGED <<ctxDone, pools, ttlArmed, sigHandled>>
  /\ UNCHANGED <<lnOpen, loopVars, semVars, sock, inVars, pc, outVars>>

MutantTTLFires ==
  /\ step = "serving"
  /\ ttlArmed
  /\ ttlArmed' = FALSE
  /\ sigHandled' = FALSE
  /\ UNCHANGED <<vars, step, pools>>

\* The timer calls stop(): the context is cancelled and the signals get their
\* default effect back.
TTLFires ==
  /\ Alive
  /\ ttlArmed
  /\ ttlArmed' = FALSE
  /\ sigHandled' = FALSE
  /\ ctxDone' = TRUE
  /\ UNCHANGED <<lnOpen, loopVars, semVars, sock, inVars, pc, outVars, step, pools>>

-----------------------------------------------------------------------------
(***************************************************************************)
(* srv.Serve and the way out.                                              *)
(***************************************************************************)

\* A step of srv.Serve, of one of its handlers or of the goroutine that closes
\* the listener.
ServerStep ==
  /\ step \in {"serving", "stop", "closeListener", "closeRegistry"}
  /\ \/ step = "serving" /\ LoopStep
     \/ \E c \in Conns : HandlerStep(c)
     \/ CloseListener
  /\ UNCHANGED toolVars

\* A client acts on the listener or on its connection.
ClientStep ==
  /\ Alive
  /\ \/ \E c \in Conns : Dial(c)
     \/ \E c \in Conns, l \in Offered, done \in BOOLEAN : ClientSend(c, l, done)
  /\ UNCHANGED toolVars

\* srv.Serve has returned nil.
ServeDone ==
  /\ step = "serving"
  /\ loop = "returned"
  /\ step' = "stop"
  /\ UNCHANGED <<vars, pools, ttlArmed, sigHandled>>

\* defer t.Stop() and defer stop()
DeferStop ==
  /\ step = "stop"
  /\ ttlArmed' = FALSE
  /\ sigHandled' = FALSE
  /\ ctxDone' = TRUE
  /\ step' = "closeListener"
  /\ UNCHANGED <<lnOpen, loopVars, semVars, sock, inVars, pc, outVars, pools>>

\* defer ln.Close()
DeferCloseListener ==
  /\ step = "closeListener"
  /\ ShutListener
  /\ step' = "closeRegistry"
  /\ UNCHANGED <<ctxDone, loopVars, semVars, inVars, pc, outVars>>
  /\ UNCHANGED <<pools, ttlArmed, sigHandled>>

\* defer registry.Close(): every pool is closed, whatever the errors.
DeferCloseRegistry ==
  /\ step = "closeRegistry"
  /\ pools' = {}
  /\ step' = "exited"
  /\ UNCHANGED <<vars, ttlArmed, sigHandled>>

ProcessOver == ~Alive /\ UNCHANGED serveVars

ServeNext ==
  \/ Configure
  \/ \E a \in DBs : OpenDatabase(a)
  \/ DatabasesOpen
  \/ Listen
  \/ Notify
  \/ Signal
  \/ TTLFires
  \/ ServerStep
  \/ ClientStep
  \/ ServeDone
  \/ DeferStop
  \/ DeferCloseListener
  \/ DeferCloseRegistry
  \/ ProcessOver

ServeSpec == ServeInit /\ [][ServeNext]_serveVars

(***************************************************************************)
(* The fairness of Server, for a process that is alive, and: startup and   *)
(* the deferred calls run, and the TTL timer fires.  Signals are owed by   *)
(* nobody.                                                                 *)
(***************************************************************************)
FairServerStep(A) == A /\ ServerStep

ServeFairness ==
  /\ WF_serveVars(Configure \/ DatabasesOpen \/ Listen \/ Notify)
  /\ \A a \in DBs : WF_serveVars(OpenDatabase(a))
  /\ WF_serveVars(ServeDone \/ DeferStop \/ DeferCloseListener \/ DeferCloseRegistry)
  /\ WF_serveVars(TTLFires)
  /\ WF_serveVars(FairServerStep(BackoffElapsed \/ BackoffCancelled))
  /\ WF_serveVars(FairServerStep(CloseListener))
  /\ WF_serveVars(FairServerStep(AcquireSlot \/ DropHeld))
  /\ WF_serveVars(FairServerStep(ServeReturns))
  /\ WF_serveVars(FairServerStep(~lnOpen /\ AcceptError))
  /\ \A c \in Conns :
       /\ WF_serveVars(FairServerStep(ScanLine(c) \/ ReadEnds(c)))
       /\ WF_serveVars(FairServerStep(ToolCtxDone(c)))
       /\ WF_serveVars(FairServerStep(PlainToolReturns(c)))
       /\ WF_serveVars(FairServerStep(WriteEnds(c)))
       /\ WF_serveVars(FairServerStep(CloseConn(c) \/ ReleaseSlot(c) \/ WgDone(c)))

FairServeSpec == ServeSpec /\ ServeFairness

-----------------------------------------------------------------------------
(***************************************************************************)
(* Properties.                                                             *)
(***************************************************************************)

\* Every variable keeps its type.
ServeTypeOK ==
  /\ TypeOK
  /\ step \in {"configure", "databases", "listen", "notify", "serving", "stop",
               "closeListener", "closeRegistry", "exited", "killed"}
  /\ pools \subseteq DBs
  /\ ttlArmed \in BOOLEAN
  /\ sigHandled \in BOOLEAN

\* No handler ever works on a closed or missing pool: all configured pools are
\* open as long as a handler is alive, although the handlers are goroutines the
\* deferred registry.Close() (tool_serve.go:180) does not know of.
PoolsOutliveHandlers ==
  LiveHandlers # {} => pools = DBs

\* However the tool returns, from a failed startup step or after a shutdown, no
\* pool, listener, queued or accepted connection is left (tool_serve.go:176-212).
NothingLeaks ==
  step = "exited" =>
    /\ pools = {}
    /\ ~lnOpen
    /\ \A c \in Conns : sock[c] \notin {"backlog", "open"}

\* A signal interrupts requests in flight only after the TTL has fired, whose
\* stop() gives the signals their default effect back (tool_serve.go:203-208).
GracefulUntilTTL ==
  step = "killed" /\ LiveHandlers # {} => TTL /\ ~ttlArmed

\* A server with a TTL goes away, even with stalled clients, hung tools and no
\* per-tool timeout (tool_serve.go:205-208).
TTLEndsServer ==
  TTL => (step = "serving" ~> step \in {"exited", "killed"})

\* A signal the server catches ends the process, with or without a TTL.
SignalEndsServer ==
  ctxDone ~> step \in {"exited", "killed"}
=============================================================================
