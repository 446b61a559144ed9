--------------------------- MODULE RequestService ---------------------------
(***************************************************************************)
(* What the rpeek server promises, without goroutines, sockets, semaphores *)
(* or deadlines: at most MaxConns requests are in service at once, a tool  *)
(* is executed at most once per connection and only for an authorised      *)
(* request, a connection gets at most one answer, a positive one only      *)
(* after the execution, and the service stops only when nothing is left in *)
(* service, after which nothing happens any more.                          *)
(* Promised by the comments of Serve (server.go:77-79), handleConn         *)
(* (server.go:139-140) and maxConcurrentConns (server.go:35-38).           *)
(***************************************************************************)
EXTENDS Integers, FiniteSets

CONSTANTS
  Conns,       \* the connections
  MaxConns,    \* how many may be in service at once
  Inputs,      \* what a client may submit
  Authorised,  \* the submitted requests that may reach a tool
  NoInput      \* nothing submitted

VARIABLES
  phase,     \* of each connection: "waiting", "active" or "left"
  input,     \* what each client has submitted
  executed,  \* the connections whose tool has been started
  answer,    \* the answer given: "none", "ok" or "error"
  stopped    \* the service has stopped

vars == <<phase, input, executed, answer, stopped>>

Init ==
  /\ phase = [c \in Conns |-> "waiting"]
  /\ input = [c \in Conns |-> NoInput]
  /\ executed = {}
  /\ answer = [c \in Conns |-> "none"]
  /\ stopped = FALSE

Active == {c \in Conns : phase[c] = "active"}

\* What a client submits counts until the service acts on it.
Submit(c, i) ==
  /\ phase[c] # "left"
  /\ c \notin executed
  /\ answer[c] = "none"
  /\ input' = [input EXCEPT ![c] = i]
  /\ UNCHANGED <<phase, executed, answer, stopped>>

Admit(c) ==
  /\ ~stopped
  /\ phase[c] = "waiting"
  /\ Cardinality(Active) < MaxConns
  /\ phase' = [phase EXCEPT ![c] = "active"]
  /\ UNCHANGED <<input, executed, answer, stopped>>

Execute(c) ==
  /\ phase[c] = "active"
  /\ answer[c] = "none"
  /\ c \notin executed
  /\ input[c] \in Authorised
  /\ executed' = executed \cup {c}
  /\ UNCHANGED <<phase, input, answer, stopped>>

Answer(c, a) ==
  /\ phase[c] = "active"
  /\ answer[c] = "none"
  /\ input[c] # NoInput
  /\ a = "ok" => c \in executed
  /\ answer' = [answer EXCEPT ![c] = a]
  /\ UNCHANGED <<phase, input, executed, stopped>>

\* Silence is the right answer to a client that sent nothing, and to no other.
Leave(c) ==
  /\ phase[c] = "active"
  /\ answer[c] = "none" <=> input[c] = NoInput
  /\ phase' = [phase EXCEPT ![c] = "left"]
  /\ UNCHANGED <<input, executed, answer, stopped>>

Stop ==
  /\ ~stopped
  /\ Active = {}
  /\ stopped' = TRUE
  /\ UNCHANGED <<phase, input, executed, answer>>

Next ==
  \/ \E c \in Conns, i \in Inputs : Submit(c, i)
  \/ \E c \in Conns : Admit(c) \/ Execute(c) \/ Leave(c)
  \/ \E c \in Conns, a \in {"ok", "error"} : Answer(c, a)
  \/ Stop

Spec == Init /\ [][Next]_vars
=============================================================================
