------------------------------ MODULE RoundTrip ------------------------------
(***************************************************************************)
(* The client against the server: the command line (cmd/rpeek/main.go,     *)
(* tool.go, internal/conf) and client.Call (internal/client/client.go),    *)
(* one client process per connection, composed with every goroutine of     *)
(* module Server.  A client process runs one tool and exits; its exit code *)
(* and what it prints are all its caller learns.                           *)
(*                                                                         *)
(* tls.Dial returns only after the TLS handshake, and the server takes its *)
(* part in the handshake in the first read of handleConn, so a dial waits  *)
(* for a slot of the server's semaphore.                                   *)
(***************************************************************************)
EXTENDS Server

CONSTANTS
  Invocations,   \* the command lines and environments of each client, see InvocationOK
  KnownTools,    \* the tools of the client's own registry, but for serve
  LocalTools,    \* those with a Local half
  RemoteTools    \* those with a Remote half

(***************************************************************************)
(* A setting is a record of the flag after the tool's name, the one before *)
(* it and the environment variable.  A flag that is not given is NotGiven, *)
(* one given as an empty string is "".  The address of this server is      *)
(* "server"; nobody listens at "elsewhere", and "invalid" is no address.   *)
(***************************************************************************)
NotGiven == "not given"

Hosts == {"", "server", "elsewhere", "invalid"}

Settings(values) == [after : values \cup {NotGiven}, before : values, env : values]

\* args is what parsing makes of the flags and of the arguments of the tool.
InvocationOK(i) ==
  /\ i.args \in {"good", "bad", "help"}
  /\ i.tool \in Tools
  /\ i.host \in Settings(Hosts)
  /\ i.token \in Settings(Tokens \cup {""})
  /\ i.big \in BOOLEAN

ASSUME ClientAssumption ==
  /\ \A c \in Conns : \A i \in Invocations[c] : InvocationOK(i)
  /\ KnownTools = LocalTools \cup RemoteTools
  /\ "" \notin Tokens /\ NotGiven \notin Tokens

VARIABLES
  inv,   \* how each client was called
  cpc,   \* where each client is
  wire,  \* whether a part of the response, perhaps none, has come, or all of it,
         \* or more than maxResponseLine
  code,  \* the exit code of each client, NoCode while it runs
  shown  \* what it has printed: the results of its halves, or help

NoCode == 9
ExitOK == 0
ExitError == 1
ExitServer == 2
ExitUsage == 3

clientVars == <<inv, cpc, code, shown>>
tripVars == <<vars, clientVars, wire>>

TripInit ==
  /\ Init
  /\ inv \in {f \in [Conns -> UNION {Invocations[c] : c \in Conns}] :
                \A c \in Conns : f[c] \in Invocations[c]}
  /\ cpc = [c \in Conns |-> "argv"]
  /\ wire = [c \in Conns |-> "part"]
  /\ code = [c \in Conns |-> NoCode]
  /\ shown = [c \in Conns |-> {}]

\* A client prints and leaves with exit code e, closing its end.
ExitPrinting(c, e, what) ==
  /\ cpc' = [cpc EXCEPT ![c] = "exited"]
  /\ code' = [code EXCEPT ![c] = e]
  /\ shown' = [shown EXCEPT ![c] = what]
  /\ UNCHANGED <<inv, wire>>

Exit(c, e) == ExitPrinting(c, e, {})

\* The client moves on.
Move(c, from, to) ==
  /\ cpc[c] = from
  /\ cpc' = [cpc EXCEPT ![c] = to]
  /\ UNCHANGED <<inv, wire, code, shown>>

-----------------------------------------------------------------------------
(***************************************************************************)
(* The command line.                                                       *)
(***************************************************************************)

\* A flag before the tool's name is the default of the one after it.
FlagValue(s) == IF s.after = NotGiven THEN s.before ELSE s.after

MutantResolve(s) == IF s.env # "" THEN s.env ELSE FlagValue(s)

\* conf.Resolve: the flag, else the environment.
Resolve(s) == IF FlagValue(s) # "" THEN FlagValue(s) ELSE s.env

\* Help is printed, or an unknown tool, bad flags or bad arguments are refused.
ParseArgs(c) ==
  LET i == inv[c] IN
  /\ cpc[c] = "argv"
  /\ \/ i.args = "help" /\ ExitPrinting(c, ExitOK, {"help"})
     \/ i.args # "help" /\ (i.args = "bad" \/ i.tool \notin KnownTools) /\ Exit(c, ExitUsage)
  /\ UNCHANGED vars

Runs(c, tools) == cpc[c] = "argv" /\ inv[c].args = "good" /\ inv[c].tool \in tools

\* The Local half fails, in runLocalOnly and in runLocalRemote.
LocalFails(c) ==
  /\ Runs(c, LocalTools)
  /\ Exit(c, ExitError)
  /\ UNCHANGED vars

\* runLocalOnly.
RunLocalOnly(c) ==
  /\ Runs(c, LocalTools \ RemoteTools)
  /\ ExitPrinting(c, ExitOK, {"local"})
  /\ UNCHANGED vars

\* NormalizeAddr: an address, or not.
Addressable(host) == host # "invalid"

\* runRemote up to the call: resolveHostToken refuses a missing setting.
RunRemoteTool(c) ==
  LET host == Resolve(inv[c].host)
      token == Resolve(inv[c].token)
  IN
  /\ Runs(c, RemoteTools \ LocalTools)
  /\ IF host = "" \/ token = "" \/ ~Addressable(host) THEN Exit(c, ExitUsage)
     ELSE Move(c, "argv", "start")
  /\ UNCHANGED vars

MutantRunLocalRemote(c) ==
  LET host == Resolve(inv[c].host)
      token == Resolve(inv[c].token)
  IN
  /\ Runs(c, LocalTools \cap RemoteTools)
  /\ IF host = "" \/ token = "" \/ ~Addressable(host) THEN ExitPrinting(c, ExitOK, {"local"})
     ELSE Move(c, "argv", "start")
  /\ UNCHANGED vars

\* runLocalRemote behind its local half, up to the call: if no server is addressed,
\* the local result is all.
RunLocalRemote(c) ==
  LET host == Resolve(inv[c].host)
      token == Resolve(inv[c].token)
  IN
  /\ Runs(c, LocalTools \cap RemoteTools)
  /\ IF host = "" \/ token = "" THEN ExitPrinting(c, ExitOK, {"local"})
     ELSE IF ~Addressable(host) THEN Exit(c, ExitUsage)
     ELSE Move(c, "argv", "start")
  /\ UNCHANGED vars

\* The request line that Call sends: the arguments may make it too long.
Want(c) ==
  IF inv[c].big THEN Oversized ELSE [token |-> Resolve(inv[c].token), tool |-> inv[c].tool]

-----------------------------------------------------------------------------
(***************************************************************************)
(* client.Call.                                                            *)
(***************************************************************************)

\* tls.Dial, the TCP part: the kernel of a listening server answers at once.
CallDial(c) ==
  /\ Resolve(inv[c].host) = "server"
  /\ Move(c, "start", "dialing")
  /\ Dial(c)

\* tls.Dial fails: no one listens, or listens any more, or the server resets or closes the
\* connection before the handshake is over.
CallDialFails(c) ==
  /\ \/ cpc[c] = "start" /\ (Resolve(inv[c].host) # "server" \/ ~lnOpen)
     \/ cpc[c] = "dialing" /\ sock[c] \in {"refused", "closed"}
  /\ Exit(c, ExitError)
  /\ UNCHANGED vars

\* The handshake completes with a handler that is reading; tls.Dial returns and
\* only now is the deadline of the call set.
CallHandshake(c) ==
  /\ pc[c] = "reading"
  /\ Move(c, "dialing", "writing")
  /\ UNCHANGED vars

\* conn.Write puts the request on the wire, all of it or, for one of several TLS
\* records, a part that does not parse.
CallWrite(c) ==
  /\ cpc[c] = "writing"
  /\ \/ ClientSend(c, Want(c), TRUE)
     \/ Want(c) # Oversized /\ ClientSend(c, Malformed, FALSE)
  /\ UNCHANGED <<clientVars, wire>>

\* conn.Write returns once the whole line is sent.
CallWritten(c) ==
  /\ eol[c]
  /\ Move(c, "writing", "reading")
  /\ UNCHANGED vars

\* conn.Write fails because the server has closed the connection.
CallWriteFails(c) ==
  /\ cpc[c] = "writing"
  /\ sock[c] = "closed"
  /\ Exit(c, ExitError)
  /\ UNCHANGED vars

\* What callRemote's caller prints: the remote result, below the local one if the
\* tool has both halves.
Results(c) == {"remote"} \cup (IF inv[c].tool \in LocalTools THEN {"local"} ELSE {})

MutantCallRead(c) ==
  /\ cpc[c] = "reading"
  /\ wire[c] # "part"
  /\ ExitPrinting(c, ExitOK, Results(c))
  /\ UNCHANGED vars

\* The scanner returns the response line, and callRemote maps it to a code.
CallRead(c) ==
  /\ cpc[c] = "reading"
  /\ wire[c] = "all"
  /\ IF resp[c][1] = "ok" THEN ExitPrinting(c, ExitOK, Results(c)) ELSE Exit(c, ExitServer)
  /\ UNCHANGED vars

\* The response does not fit the scanner's buffer: JSON escapes make it several times
\* as long as the output, whose cap is the server's affair.
CallReadTooLong(c) ==
  /\ cpc[c] = "reading"
  /\ wire[c] = "long"
  /\ Exit(c, ExitError)
  /\ UNCHANGED vars

\* The connection ends before the response does: there is no line, or only a
\* prefix of the JSON object, which does not parse.
CallReadEnds(c) ==
  /\ cpc[c] = "reading"
  /\ wire[c] = "part"
  /\ sock[c] = "closed"
  /\ Exit(c, ExitError)
  /\ UNCHANGED vars

\* callTimeout passes while the client writes or reads.
CallTimesOut(c) ==
  /\ cpc[c] \in {"writing", "reading"}
  /\ Exit(c, ExitError)
  /\ UNCHANGED vars

-----------------------------------------------------------------------------

\* The write of a handler, seen from the client: all of the response arrives, a
\* result perhaps longer than the client takes, or the write deadline or a dead
\* connection cuts it off.
ServerWrite(c) ==
  /\ WriteEnds(c)
  /\ \E w \in {"part", "all"} \cup (IF resp[c][1] = "ok" THEN {"long"} ELSE {}) :
       wire' = [wire EXCEPT ![c] = w]
  /\ UNCHANGED clientVars

\* Any other step of the server.
ServerMoves ==
  /\ \/ Cancel
     \/ CloseListener
     \/ LoopStep
     \/ \E c \in Conns : HandlerStep(c) /\ ~WriteEnds(c)
  /\ UNCHANGED <<clientVars, wire>>

CallStep(c) ==
  \/ ParseArgs(c)
  \/ LocalFails(c)
  \/ RunLocalOnly(c)
  \/ RunRemoteTool(c)
  \/ RunLocalRemote(c)
  \/ CallDial(c)
  \/ CallDialFails(c)
  \/ CallHandshake(c)
  \/ CallWrite(c)
  \/ CallWritten(c)
  \/ CallWriteFails(c)
  \/ CallRead(c)
  \/ CallReadTooLong(c)
  \/ CallReadEnds(c)
  \/ CallTimesOut(c)

TripOver ==
  /\ loop = "returned"
  /\ \A c \in Conns : cpc[c] = "exited"
  /\ UNCHANGED tripVars

TripNext ==
  \/ ServerMoves
  \/ \E c \in Conns : ServerWrite(c) \/ CallStep(c)
  \/ TripOver

TripSpec == TripInit /\ [][TripNext]_tripVars

(***************************************************************************)
(* The server's fairness carried over, and the client's: its goroutine     *)
(* runs, its kernel delivers, and the deadline fires once it is set.       *)
(***************************************************************************)
ServerWF(A) == A /\ UNCHANGED <<clientVars, wire>>

TripFairness ==
  /\ WF_tripVars(ServerWF(CloseListener))
  /\ WF_tripVars(ServerWF(BackoffElapsed \/ BackoffCancelled))
  /\ WF_tripVars(ServerWF(AcquireSlot \/ DropHeld))
  /\ WF_tripVars(ServerWF(ServeReturns))
  /\ WF_tripVars(ServerWF(~lnOpen /\ AcceptError))
  /\ \A c \in Conns :
       /\ SF_tripVars(ServerWF(Accept(c)))
       /\ WF_tripVars(ServerWF(ScanLine(c) \/ ReadEnds(c)))
       /\ WF_tripVars(ServerWF(ToolCtxDone(c)))
       /\ WF_tripVars(ServerWF(PlainToolReturns(c)))
       /\ WF_tripVars(ServerWrite(c))
       /\ WF_tripVars(ServerWF(CloseConn(c) \/ ReleaseSlot(c) \/ WgDone(c)))
       /\ WF_tripVars(CallDialFails(c))
       /\ WF_tripVars(CallHandshake(c))
       /\ WF_tripVars(CallTimesOut(c))

FairTripSpec == TripSpec /\ TripFairness

-----------------------------------------------------------------------------
(***************************************************************************)
(* Properties.                                                             *)
(***************************************************************************)

\* Every variable keeps its type, and a client has a code exactly when it is over.
TripTypeOK ==
  /\ TypeOK
  /\ \A c \in Conns : inv[c] \in Invocations[c]
  /\ cpc \in [Conns -> {"argv", "start", "dialing", "writing", "reading", "exited"}]
  /\ wire \in [Conns -> {"part", "all", "long"}]
  /\ code \in [Conns -> {NoCode, ExitOK, ExitError, ExitServer, ExitUsage}]
  /\ shown \in [Conns -> SUBSET {"help", "local", "remote"}]
  /\ \A c \in Conns : cpc[c] = "exited" <=> code[c] # NoCode

\* The exit code tells the truth about the server, whatever was lost, cut off, late
\* or too long: a remote result is shown, with code 0, only if the request was
\* authorised and its tool ran and succeeded; 2 only if the server answered with an
\* error; 3 only if no server was called (main.go:20-25, tool.go:26-134).
ExitTells ==
  \A c \in Conns :
    /\ "remote" \in shown[c] =>
         code[c] = ExitOK /\ Want(c) \in AuthorisedRequests /\ resp[c] = <<"ok">>
    /\ code[c] = ExitServer => Len(resp[c]) = 1 /\ resp[c] # <<"ok">>
    /\ code[c] = ExitUsage => sock[c] = "idle"
    /\ code[c] \notin {NoCode, ExitOK} => shown[c] = {}

\* The setting that counts, read off the list of those given: the flag after the tool's
\* name hides the one before it, and an empty value is none.
Meant(s) ==
  LET given == <<IF s.after = NotGiven THEN s.before ELSE s.after, s.env>>
      told == {k \in 1..2 : given[k] # ""}
  IN  IF told = {} THEN "" ELSE given[CHOOSE k \in told : \A j \in told : k <= j]

\* A caller who addresses a server gets an answer of that server or a failure, never
\* the local half alone, and no other server sees the token: a client connects only
\* to the address that was meant and presents the token that was meant
\* (main.go:72-92, tool.go:94-119, conf.go:23-31).
AddressedServerAnswers ==
  \A c \in Conns :
    LET i == inv[c]
        addressed == Meant(i.host) # "" /\ Meant(i.token) # "" /\ i.tool \in RemoteTools
    IN  /\ code[c] = ExitOK /\ addressed => shown[c] \cap {"remote", "help"} # {}
        /\ sock[c] # "idle" => Meant(i.host) = "server"
        /\ inbox[c] \in Request => inbox[c].token = Meant(i.token)

\* Every call comes to an end: "callTimeout bounds the whole dial/write/read round
\* trip" (client.go:17). A client that has begun to dial exits.
CallReturns ==
  \A c \in Conns : cpc[c] = "dialing" ~> cpc[c] = "exited"
=============================================================================
