---------------------------- MODULE ServerProofs ----------------------------
(***************************************************************************)
(* Proofs about the server, for every set of connections, every capacity   *)
(* of the semaphore, every set of tools and every choice of request lines. *)
(***************************************************************************)
EXTENDS Server, FiniteSetTheorems, TLAPS

-----------------------------------------------------------------------------
(***************************************************************************)
(* The inductive invariants.                                               *)
(***************************************************************************)

\* Where a connection is in its life: the accept loop holds one exactly while it
\* waits for a slot, an open socket belongs to the loop or to a live handler, and
\* a handler past its deferred conn.Close() has a closed one.
Lifecycle ==
  /\ held # NoConn <=> loop = "acquire"
  /\ held # NoConn => sock[held] = "open" /\ pc[held] = "none"
  /\ \A c \in Conns :
       /\ sock[c] = "open" /\ pc[c] = "none" => held = c
       /\ pc[c] \in {"reading", "running", "writing", "closing"} => sock[c] = "open"
       /\ pc[c] \in {"release", "done", "gone"} => sock[c] = "closed"

\* The two counters count handlers, of which there are finitely many, and after
\* wg.Wait() there are none.
Counting ==
  /\ IsFiniteSet(SlotHolders) /\ sem = Cardinality(SlotHolders)
  /\ IsFiniteSet(LiveHandlers) /\ wg = Cardinality(LiveHandlers)
  /\ loop = "returned" => LiveHandlers = {}

\* The inductive invariant behind SlotAccounting, OpenBound and CleanReturn.
ConcurrencyInv == TypeOK /\ Lifecycle /\ Counting

\* The inductive invariant behind OneAnswer and RunsOnlyAuthorised: what a handler
\* has answered and logged, phase by phase.
AnswerInv(c) ==
  /\ eol[c] => inbox[c] # NoLine
  /\ pc[c] \in {"none", "reading", "running"} => resp[c] = <<>> /\ audit[c] = 0
  /\ pc[c] = "running" => inbox[c] \in AuthorisedRequests
  /\ pc[c] = "writing" => audit[c] = 0 /\ resp[c] # <<>> /\ inbox[c] # NoLine
  /\ pc[c] \in {"closing", "release", "done", "gone"} =>
       audit[c] = 1 /\ (resp[c] = <<>> <=> inbox[c] = NoLine)
  /\ \/ resp[c] = <<>>
     \/ \E r \in Responses : /\ resp[c] = <<r>>
                             /\ r \in ToolResults => inbox[c] \in AuthorisedRequests

AnswersInv == \A c \in Conns : AnswerInv(c)

\* What BackoffBounded and ServesUntilCancelled rest on: a delay once begun is never below its
\* start, also while Accept is tried again.
AcceptInv ==
  /\ TypeOK /\ BackoffBounded /\ ServesUntilCancelled
  /\ acceptDelay = 0 \/ acceptDelay >= BackoffInitial

-----------------------------------------------------------------------------
(***************************************************************************)
(* Type correctness.                                                       *)
(***************************************************************************)

\* The backoff stays below its cap, and above its start once it has begun.
LEMMA NextDelayType ==
  ASSUME NEW d \in 0..BackoffMax
  PROVE  /\ NextDelay(d) \in 0..BackoffMax
         /\ d = 0 \/ d >= BackoffInitial => NextDelay(d) \in BackoffInitial..BackoffMax
BY BackoffAssumption DEF NextDelay

\* Recording a response keeps the responses, the audit counts and the program
\* counters in their types.
LEMMA RespondType ==
  ASSUME TypeOK, NEW c \in Conns, NEW r \in Responses, Respond(c, r)
  PROVE  /\ pc' \in [Conns -> {"none", "reading", "running", "writing", "closing",
                               "release", "done", "gone"}]
         /\ resp' \in [Conns -> Seq(Responses)]
         /\ audit' \in [Conns -> Nat]
BY DEF TypeOK, Respond

\* The same for a whole request line, whatever becomes of it.
LEMMA HandleLineType ==
  ASSUME TypeOK, NEW c \in Conns, NEW line, HandleLine(c, line)
  PROVE  /\ pc' \in [Conns -> {"none", "reading", "running", "writing", "closing",
                               "release", "done", "gone"}]
         /\ resp' \in [Conns -> Seq(Responses)]
         /\ audit' \in [Conns -> Nat]
<1>1. CASE \E r \in Responses : Respond(c, r)
  BY <1>1, RespondType
<1>2. CASE /\ pc' = [pc EXCEPT ![c] = "running"]
           /\ UNCHANGED outVars
  BY <1>2 DEF TypeOK, outVars
<1> QED
  BY <1>1, <1>2 DEF HandleLine, RunRemote, Responses

\* The initial state is well typed.
LEMMA InitType == Init => TypeOK
<1> SUFFICES ASSUME Init PROVE TypeOK
  OBVIOUS
<1>1. acceptDelay \in 0..BackoffMax /\ sem \in 0..MaxConns /\ wg \in Int
  BY MaxConnsAssumption, BackoffAssumption DEF Init, IdleInit
<1>2. resp \in [Conns -> Seq(Responses)] /\ audit \in [Conns -> Nat]
  BY DEF Init, IdleInit
<1> QED
  BY <1>1, <1>2 DEF Init, IdleInit, TypeOK

\* Every step keeps the types.
LEMMA NextType == TypeOK /\ [Next]_vars => TypeOK'
<1> SUFFICES ASSUME TypeOK, [Next]_vars PROVE TypeOK'
  OBVIOUS
<1> USE DEF TypeOK, loopVars, semVars, inVars, outVars
<1>1. CASE Cancel
  BY <1>1 DEF Cancel
<1>2. CASE CloseListener
  BY <1>2 DEF CloseListener, ShutListener
<1>3. ASSUME NEW c \in Conns, Accept(c) PROVE TypeOK'
  BY <1>3, BackoffAssumption DEF Accept
<1>4. CASE AcceptError
  BY <1>4, NextDelayType DEF AcceptError
<1>5. CASE BackoffElapsed \/ BackoffCancelled \/ ServeReturns
  BY <1>5 DEF BackoffElapsed, BackoffCancelled, ServeReturns
<1>6. CASE AcquireSlot
  <2>1. sem' \in 0..MaxConns /\ wg' \in Int
    BY <1>6, MaxConnsAssumption DEF AcquireSlot
  <2>2. pc' \in [Conns -> {"none", "reading", "running", "writing", "closing",
                           "release", "done", "gone"}]
    BY <1>6 DEF AcquireSlot
  <2> QED BY <1>6, <2>1, <2>2 DEF AcquireSlot
<1>7. CASE DropHeld
  BY <1>7 DEF DropHeld
<1>8. ASSUME NEW c \in Conns, ScanLine(c) PROVE TypeOK'
  BY <1>8, HandleLineType DEF ScanLine
<1>9. ASSUME NEW c \in Conns, ReadEnds(c) PROVE TypeOK'
  <2>1. CASE inbox[c] = NoLine
    <3>1. /\ audit' = [audit EXCEPT ![c] = @ + 1]
          /\ pc' = [pc EXCEPT ![c] = "closing"]
          /\ UNCHANGED resp
      BY <1>9, <2>1, Zenon DEF ReadEnds
    <3>2. audit' \in [Conns -> Nat]
      BY <3>1
    <3> QED BY <1>9, <3>1, <3>2 DEF ReadEnds
  <2>2. CASE inbox[c] # NoLine
    BY <1>9, <2>2, HandleLineType DEF ReadEnds
  <2> QED BY <2>1, <2>2
<1>10. ASSUME NEW c \in Conns, ToolReturns(c) \/ ToolCtxDone(c) \/ ToolPanics(c)
       PROVE TypeOK'
  <2>1. \E r \in Responses : Respond(c, r)
    BY <1>10 DEF ToolReturns, ToolCtxDone, ToolPanics, Responses
  <2> QED BY <1>10, <2>1, RespondType DEF ToolReturns, ToolCtxDone, ToolPanics
<1>11. ASSUME NEW c \in Conns, WriteEnds(c) PROVE TypeOK'
  BY <1>11 DEF WriteEnds
<1>12. ASSUME NEW c \in Conns, CloseConn(c) PROVE TypeOK'
  BY <1>12 DEF CloseConn
<1>13. ASSUME NEW c \in Conns, ReleaseSlot(c) PROVE TypeOK'
  BY <1>13, MaxConnsAssumption DEF ReleaseSlot
<1>14. ASSUME NEW c \in Conns, WgDone(c) PROVE TypeOK'
  BY <1>14 DEF WgDone
<1>15. ASSUME NEW c \in Conns, Dial(c) PROVE TypeOK'
  BY <1>15 DEF Dial
<1>16. ASSUME NEW c \in Conns, NEW l \in Offered, NEW done \in BOOLEAN,
              ClientSend(c, l, done)
       PROVE  TypeOK'
  BY <1>16, SentinelAssumption DEF ClientSend
<1>17. CASE UNCHANGED vars
  BY <1>17 DEF vars
<1> QED
  BY <1>1, <1>2, <1>3, <1>4, <1>5, <1>6, <1>7, <1>8, <1>9, <1>10, <1>11, <1>12,
     <1>13, <1>14, <1>15, <1>16, <1>17
     DEF Next, LoopStep, HandlerStep, Terminated

\* Every reachable state of the server is well typed; in particular the backoff
\* never exceeds its cap and the semaphore never exceeds its capacity.
THEOREM TypeCorrect == Spec => []TypeOK
BY InitType, NextType, PTL DEF Spec

-----------------------------------------------------------------------------
(***************************************************************************)
(* Concurrency: the counters, the open connections and the return.         *)
(***************************************************************************)

\* The seven steps a handler takes between the start of handleConn and its
\* deferred calls move its program counter among the phases that hold a slot
\* and an open socket, and leave the loop and the counters alone.
LEMMA HandlerMoves ==
  ASSUME TypeOK, NEW c \in Conns,
         \/ ScanLine(c) \/ ReadEnds(c) \/ ToolReturns(c) \/ ToolCtxDone(c)
         \/ ToolPanics(c) \/ WriteEnds(c)
  PROVE  /\ pc[c] \in {"reading", "running", "writing"}
         /\ \E x \in {"running", "writing", "closing"} : pc' = [pc EXCEPT ![c] = x]
         /\ UNCHANGED <<ctxDone, lnOpen, loop, held, acceptDelay, sem, wg, sock, inbox, eol>>
<1> USE DEF loopVars, semVars, inVars
<1>1. ASSUME NEW line, HandleLine(c, line)
      PROVE  \E x \in {"running", "writing", "closing"} : pc' = [pc EXCEPT ![c] = x]
  BY <1>1, Zenon DEF HandleLine, RunRemote, Respond
<1>2. CASE ScanLine(c)
  BY <1>1, <1>2, Zenon DEF ScanLine
<1>3. CASE ReadEnds(c)
  BY <1>1, <1>3, Zenon DEF ReadEnds
<1>4. CASE ToolReturns(c) \/ ToolCtxDone(c) \/ ToolPanics(c)
  BY <1>4, Zenon DEF ToolReturns, ToolCtxDone, ToolPanics, Respond
<1>5. CASE WriteEnds(c)
  BY <1>5, Zenon DEF WriteEnds
<1> QED BY <1>2, <1>3, <1>4, <1>5

\* A handler that moves between phases that hold a slot changes neither set.
LEMMA SameHolders ==
  ASSUME TypeOK, NEW c \in Conns, NEW x,
         pc[c] \in {"reading", "running", "writing", "closing", "release"},
         x \in {"reading", "running", "writing", "closing", "release"},
         pc' = [pc EXCEPT ![c] = x]
  PROVE  SlotHolders' = SlotHolders /\ LiveHandlers' = LiveHandlers
BY DEF TypeOK, SlotHolders, LiveHandlers

\* Every step keeps the inductive invariant.
LEMMA ConcurrencyStep == ConcurrencyInv /\ [Next]_vars => ConcurrencyInv'
<1> SUFFICES ASSUME ConcurrencyInv, [Next]_vars PROVE Lifecycle' /\ Counting'
  BY NextType DEF ConcurrencyInv
<1> USE DEF ConcurrencyInv, loopVars, semVars, inVars, outVars
<1>1. ASSUME UNCHANGED <<pc, sem, wg>>, loop' # "returned" \/ loop' = loop
      PROVE  Counting'
  <2>1. SlotHolders' = SlotHolders /\ LiveHandlers' = LiveHandlers
    BY <1>1 DEF SlotHolders, LiveHandlers
  <2> QED BY <1>1, <2>1 DEF Counting
<1>2. CASE Cancel \/ AcceptError \/ BackoffElapsed \/ BackoffCancelled
  <2>1. Lifecycle'
    BY <1>2 DEF Lifecycle, Cancel, AcceptError, BackoffElapsed, BackoffCancelled
  <2> QED BY <1>1, <1>2, <2>1
          DEF Cancel, AcceptError, BackoffElapsed, BackoffCancelled
<1>3. CASE CloseListener
  <2>1. Lifecycle'
    BY <1>3 DEF Lifecycle, CloseListener, ShutListener, TypeOK
  <2> QED BY <1>1, <1>3, <2>1 DEF CloseListener
<1>4. ASSUME NEW c \in Conns, Accept(c) PROVE Lifecycle' /\ Counting'
  <2>1. Lifecycle'
    BY <1>4, SentinelAssumption DEF Lifecycle, Accept, TypeOK
  <2> QED BY <1>1, <1>4, <2>1 DEF Accept
<1>5. CASE AcquireSlot
  <2>1. held \in Conns /\ pc[held] = "none"
    BY <1>5, SentinelAssumption DEF AcquireSlot, Lifecycle, TypeOK
  <2>2. Lifecycle'
    BY <1>5, <2>1 DEF Lifecycle, AcquireSlot, TypeOK
  <2>3. /\ SlotHolders' = SlotHolders \cup {held} /\ held \notin SlotHolders
        /\ LiveHandlers' = LiveHandlers \cup {held} /\ held \notin LiveHandlers
    BY <1>5, <2>1 DEF AcquireSlot, SlotHolders, LiveHandlers, TypeOK
  <2> QED BY <1>5, <2>2, <2>3, FS_AddElement DEF AcquireSlot, Counting
<1>6. CASE DropHeld
  <2>1. Lifecycle'
    BY <1>6 DEF Lifecycle, DropHeld, TypeOK
  <2> QED BY <1>1, <1>6, <2>1 DEF DropHeld
<1>7. CASE ServeReturns
  <2>1. Lifecycle'
    BY <1>7 DEF Lifecycle, ServeReturns
  <2>2. LiveHandlers = {}
    BY <1>7, FS_EmptySet DEF ServeReturns, Counting
  <2>3. SlotHolders' = SlotHolders /\ LiveHandlers' = LiveHandlers
    BY <1>7 DEF ServeReturns, SlotHolders, LiveHandlers
  <2> QED BY <1>7, <2>1, <2>2, <2>3 DEF ServeReturns, Counting
<1>8. ASSUME NEW c \in Conns,
             \/ ScanLine(c) \/ ReadEnds(c) \/ ToolReturns(c) \/ ToolCtxDone(c)
             \/ ToolPanics(c) \/ WriteEnds(c)
      PROVE  Lifecycle' /\ Counting'
  <2>1. PICK x \in {"running", "writing", "closing"} : pc' = [pc EXCEPT ![c] = x]
    BY <1>8, HandlerMoves
  <2>2. /\ pc[c] \in {"reading", "running", "writing"}
        /\ UNCHANGED <<loop, held, sem, wg, sock>>
    BY <1>8, HandlerMoves
  <2>3. Lifecycle'
    BY <2>1, <2>2 DEF Lifecycle, TypeOK
  <2>4. SlotHolders' = SlotHolders /\ LiveHandlers' = LiveHandlers
    BY <2>1, <2>2, SameHolders
  <2> QED BY <2>2, <2>3, <2>4 DEF Counting
<1>9. ASSUME NEW c \in Conns, CloseConn(c) PROVE Lifecycle' /\ Counting'
  <2>1. Lifecycle'
    BY <1>9 DEF Lifecycle, CloseConn, TypeOK
  <2>2. SlotHolders' = SlotHolders /\ LiveHandlers' = LiveHandlers
    BY <1>9, SameHolders DEF CloseConn
  <2> QED BY <1>9, <2>1, <2>2 DEF CloseConn, Counting
<1>10. ASSUME NEW c \in Conns, ReleaseSlot(c) PROVE Lifecycle' /\ Counting'
  <2>1. Lifecycle'
    BY <1>10 DEF Lifecycle, ReleaseSlot, TypeOK
  <2>2. /\ SlotHolders' = SlotHolders \ {c} /\ c \in SlotHolders
        /\ LiveHandlers' = LiveHandlers
    BY <1>10 DEF ReleaseSlot, SlotHolders, LiveHandlers, TypeOK
  <2> QED BY <1>10, <2>1, <2>2, FS_RemoveElement DEF ReleaseSlot, Counting
<1>11. ASSUME NEW c \in Conns, WgDone(c) PROVE Lifecycle' /\ Counting'
  <2>1. Lifecycle'
    BY <1>11 DEF Lifecycle, WgDone, TypeOK
  <2>2. /\ SlotHolders' = SlotHolders
        /\ LiveHandlers' = LiveHandlers \ {c} /\ c \in LiveHandlers
    BY <1>11 DEF WgDone, SlotHolders, LiveHandlers, TypeOK
  <2> QED BY <1>11, <2>1, <2>2, FS_RemoveElement DEF WgDone, Counting
<1>12. ASSUME NEW c \in Conns, Dial(c) PROVE Lifecycle' /\ Counting'
  <2>1. Lifecycle'
    BY <1>12 DEF Lifecycle, Dial, TypeOK
  <2> QED BY <1>1, <1>12, <2>1 DEF Dial
<1>13. ASSUME NEW c \in Conns, NEW l \in Offered, NEW done \in BOOLEAN,
              ClientSend(c, l, done)
       PROVE  Lifecycle' /\ Counting'
  BY <1>1, <1>13 DEF Lifecycle, ClientSend
<1>14. CASE UNCHANGED vars
  BY <1>1, <1>14 DEF Lifecycle, vars
<1> QED
  BY <1>2, <1>3, <1>4, <1>5, <1>6, <1>7, <1>8, <1>9, <1>10, <1>11, <1>12, <1>13, <1>14
     DEF Next, LoopStep, HandlerStep, Terminated

\* The inductive invariant holds of every reachable state.
THEOREM Concurrency == Spec => []ConcurrencyInv
<1>1. Init => ConcurrencyInv
  <2> SUFFICES ASSUME Init PROVE Lifecycle /\ Counting
    BY InitType DEF ConcurrencyInv
  <2>1. SlotHolders = {} /\ LiveHandlers = {}
    BY DEF Init, IdleInit, SlotHolders, LiveHandlers
  <2>2. Counting
    BY <2>1, FS_EmptySet DEF Counting, Init, IdleInit
  <2> QED BY <2>2 DEF Lifecycle, Init, IdleInit
<1> QED
  BY <1>1, ConcurrencyStep, PTL DEF Spec

\* The semaphore and the WaitGroup count exactly the handlers that hold a slot
\* and those that have not called Done, and at most MaxConns hold a slot.
THEOREM SlotsCounted == Spec => []SlotAccounting
<1>1. ConcurrencyInv => SlotAccounting
  BY MaxConnsAssumption DEF ConcurrencyInv, TypeOK, Counting, SlotAccounting
<1> QED BY <1>1, Concurrency, PTL

\* The open connections are those of the handlers before their conn.Close() and
\* the one the loop holds.
LEMMA OpenAreHeld ==
  ASSUME ConcurrencyInv
  PROVE  OpenConns \subseteq SlotHolders \cup (IF held = NoConn THEN {} ELSE {held})
BY SentinelAssumption DEF ConcurrencyInv, TypeOK, Lifecycle, OpenConns, SlotHolders

\* At most MaxConns connections are open, plus the one the loop holds.
THEOREM OpenBounded == Spec => []OpenBound
<1>1. ASSUME ConcurrencyInv PROVE OpenBound
  <2>1. /\ IsFiniteSet(SlotHolders)
        /\ Cardinality(SlotHolders) \in Nat
        /\ Cardinality(SlotHolders) <= MaxConns
    BY <1>1, MaxConnsAssumption DEF ConcurrencyInv, TypeOK, Counting
  <2>2. CASE held = NoConn
    <3>1. OpenConns \in SUBSET SlotHolders
      BY <1>1, <2>2, OpenAreHeld
    <3>2. /\ IsFiniteSet(OpenConns)
          /\ Cardinality(OpenConns) <= Cardinality(SlotHolders)
      BY <2>1, <3>1, FS_Subset
    <3>3. Cardinality(OpenConns) \in Nat
      BY <3>2, FS_CardinalityType
    <3> QED BY <2>1, <2>2, <3>2, <3>3, MaxConnsAssumption DEF OpenBound
  <2>3. CASE held # NoConn
    <3> DEFINE S == SlotHolders \cup {held}
    <3>1. OpenConns \in SUBSET S
      BY <1>1, <2>3, OpenAreHeld
    <3>2. IsFiniteSet(S) /\ Cardinality(S) <= MaxConns + 1 /\ Cardinality(S) \in Nat
      <4>1. /\ IsFiniteSet(S)
            /\ Cardinality(S) = IF held \in SlotHolders THEN Cardinality(SlotHolders)
                                ELSE Cardinality(SlotHolders) + 1
        BY <2>1, FS_AddElement
      <4> HIDE DEF S
      <4> QED BY <2>1, <4>1, MaxConnsAssumption
    <3> HIDE DEF S
    <3>3. /\ IsFiniteSet(OpenConns)
          /\ Cardinality(OpenConns) <= Cardinality(S)
      BY <3>1, <3>2, FS_Subset
    <3>4. Cardinality(OpenConns) \in Nat
      BY <3>3, FS_CardinalityType
    <3> QED BY <2>3, <3>2, <3>3, <3>4, MaxConnsAssumption DEF OpenBound
  <2> QED BY <2>2, <2>3
<1> QED BY <1>1, Concurrency, PTL

\* Serve returns only when every handler is gone and every accepted connection
\* is closed.
THEOREM ReturnIsClean == Spec => []CleanReturn
<1>1. ASSUME ConcurrencyInv PROVE CleanReturn
  <2> SUFFICES ASSUME loop = "returned" PROVE OpenConns = {} /\ LiveHandlers = {}
    BY DEF CleanReturn
  <2>1. LiveHandlers = {} /\ held = NoConn
    BY <1>1 DEF ConcurrencyInv, Counting, Lifecycle
  <2>2. SlotHolders \subseteq LiveHandlers
    BY DEF SlotHolders, LiveHandlers
  <2> QED BY <1>1, <2>1, <2>2, OpenAreHeld
<1> QED BY <1>1, Concurrency, PTL

-----------------------------------------------------------------------------
(***************************************************************************)
(* Answers: one per request, and results only for authorised requests.     *)
(***************************************************************************)

\* Giving the first response, for a line received, keeps the invariant.
LEMMA RespondAnswers ==
  ASSUME TypeOK, NEW c \in Conns, AnswerInv(c), NEW r \in Responses,
         pc[c] \in {"reading", "running"}, inbox[c] # NoLine,
         r \in ToolResults => pc[c] = "running",
         Respond(c, r), UNCHANGED <<inbox, eol>>
  PROVE  AnswerInv(c)'
<1>1. resp[c] = <<>> /\ audit[c] = 0
  BY DEF AnswerInv
<1>2. resp'[c] = <<r>> /\ pc'[c] = "writing" /\ audit'[c] = 0
  BY <1>1 DEF Respond, TypeOK
<1>3. r \in ToolResults => inbox[c] \in AuthorisedRequests
  BY DEF AnswerInv
<1> QED BY <1>2, <1>3 DEF AnswerInv

\* Handling a line received keeps the invariant: this is where the token is
\* compared and the tool is looked up.
LEMMA HandleLineAnswers ==
  ASSUME TypeOK, NEW c \in Conns, AnswerInv(c), pc[c] = "reading", inbox[c] # NoLine,
         HandleLine(c, inbox[c]), UNCHANGED <<inbox, eol>>
  PROVE  AnswerInv(c)'
<1>1. CASE \E r \in Responses \ ToolResults : Respond(c, r)
  BY <1>1, RespondAnswers
<1>2. CASE /\ inbox[c] \in Request
           /\ inbox[c].token = Token
           /\ inbox[c].tool \in Remote
           /\ pc' = [pc EXCEPT ![c] = "running"]
           /\ UNCHANGED outVars
  <2>1. inbox[c] \in AuthorisedRequests
    BY <1>2 DEF Request, AuthorisedRequests
  <2>2. pc'[c] = "running" /\ resp'[c] = resp[c] /\ audit'[c] = audit[c]
    BY <1>2 DEF TypeOK, outVars
  <2> QED BY <2>1, <2>2 DEF AnswerInv
<1> QED
  BY <1>1, <1>2 DEF HandleLine, RunRemote, Responses, ToolResults

\* A step that leaves everything about a connection alone keeps its invariant.
LEMMA OthersAnswers ==
  ASSUME NEW d, AnswerInv(d), resp'[d] = resp[d], audit'[d] = audit[d],
         inbox'[d] = inbox[d], eol'[d] = eol[d], pc'[d] = pc[d]
  PROVE  AnswerInv(d)'
BY DEF AnswerInv

\* Every step keeps what a handler has answered and logged.
LEMMA AnswersStep == ConcurrencyInv /\ AnswersInv /\ [Next]_vars => AnswersInv'
<1> SUFFICES ASSUME ConcurrencyInv, AnswersInv, [Next]_vars, NEW d \in Conns
             PROVE  AnswerInv(d)'
  BY DEF AnswersInv
<1>0. TypeOK /\ AnswerInv(d)
  BY DEF ConcurrencyInv, AnswersInv
<1> USE DEF loopVars, semVars, inVars, outVars
<1>1. CASE UNCHANGED <<inVars, pc, outVars>>
  BY <1>0, <1>1, OthersAnswers
<1>2. CASE AcquireSlot
  <2>1. held \in Conns /\ pc[held] = "none"
    BY <1>2, SentinelAssumption DEF AcquireSlot, ConcurrencyInv, Lifecycle, TypeOK
  <2>2. CASE d = held
    BY <1>0, <1>2, <2>1, <2>2 DEF AcquireSlot, AnswerInv, TypeOK
  <2>3. CASE d # held
    BY <1>0, <1>2, <2>1, <2>3, OthersAnswers DEF AcquireSlot, TypeOK
  <2> QED BY <2>2, <2>3
<1>3. ASSUME NEW c \in Conns, ScanLine(c) PROVE AnswerInv(d)'
  <2>1. CASE d = c
    BY <1>0, <1>3, <2>1, HandleLineAnswers DEF ScanLine, AnswerInv
  <2>2. CASE d # c
    BY <1>0, <1>3, <2>2, OthersAnswers
       DEF ScanLine, HandleLine, RunRemote, Respond, TypeOK
  <2> QED BY <2>1, <2>2
<1>4. ASSUME NEW c \in Conns, ReadEnds(c) PROVE AnswerInv(d)'
  <2>1. CASE d = c /\ inbox[c] # NoLine
    BY <1>0, <1>4, <2>1, HandleLineAnswers DEF ReadEnds
  <2>2. CASE d = c /\ inbox[c] = NoLine
    <3>1. /\ audit' = [audit EXCEPT ![c] = @ + 1]
          /\ pc' = [pc EXCEPT ![c] = "closing"]
          /\ UNCHANGED <<resp, inbox, eol>>
          /\ pc[c] = "reading"
      BY <1>4, <2>2, Zenon DEF ReadEnds
    <3>2. pc'[c] = "closing" /\ audit'[c] = 1 /\ resp'[c] = <<>>
      BY <1>0, <2>2, <3>1 DEF AnswerInv, TypeOK
    <3> QED BY <1>0, <2>2, <3>1, <3>2 DEF AnswerInv
  <2>3. CASE d # c
    BY <1>0, <1>4, <2>3, OthersAnswers
       DEF ReadEnds, HandleLine, RunRemote, Respond, TypeOK
  <2> QED BY <2>1, <2>2, <2>3
<1>5. ASSUME NEW c \in Conns, ToolReturns(c) \/ ToolCtxDone(c) \/ ToolPanics(c)
      PROVE  AnswerInv(d)'
  <2>1. /\ \E r \in Responses : Respond(c, r)
        /\ pc[c] = "running"
        /\ UNCHANGED <<inbox, eol>>
    BY <1>5 DEF ToolReturns, ToolCtxDone, ToolPanics, Responses
  <2>2. CASE d = c
    <3>1. inbox[c] # NoLine
      BY <1>0, <2>1, <2>2, ToolsAssumption, SentinelAssumption
         DEF AnswerInv, AuthorisedRequests, Lines, Request
    <3> QED BY <1>0, <2>1, <2>2, <3>1, RespondAnswers
  <2>3. CASE d # c
    BY <1>0, <2>1, <2>3, OthersAnswers DEF Respond, TypeOK
  <2> QED BY <2>2, <2>3
<1>6. ASSUME NEW c \in Conns, WriteEnds(c) PROVE AnswerInv(d)'
  <2>1. CASE d = c
    <3>1. pc'[c] = "closing" /\ audit'[c] = 1 /\ UNCHANGED <<resp, inbox, eol>>
      BY <1>0, <1>6, <2>1 DEF WriteEnds, AnswerInv, TypeOK
    <3> QED BY <1>0, <1>6, <2>1, <3>1 DEF WriteEnds, AnswerInv
  <2>2. CASE d # c
    BY <1>0, <1>6, <2>2, OthersAnswers DEF WriteEnds, TypeOK
  <2> QED BY <2>1, <2>2
<1>7. ASSUME NEW c \in Conns, CloseConn(c) \/ ReleaseSlot(c) \/ WgDone(c)
      PROVE  AnswerInv(d)'
  <2>1. CASE d = c
    BY <1>0, <1>7, <2>1 DEF CloseConn, ReleaseSlot, WgDone, AnswerInv, TypeOK
  <2>2. CASE d # c
    BY <1>0, <1>7, <2>2, OthersAnswers DEF CloseConn, ReleaseSlot, WgDone, TypeOK
  <2> QED BY <2>1, <2>2
<1>8. ASSUME NEW c \in Conns, NEW l \in Offered, NEW done \in BOOLEAN,
             ClientSend(c, l, done)
      PROVE  AnswerInv(d)'
  <2>1. CASE d = c
    <3>1. l # NoLine
      BY SentinelAssumption
    <3>2. /\ inbox'[c] = l /\ pc'[c] = pc[c] /\ resp'[c] = resp[c]
          /\ audit'[c] = audit[c] /\ pc[c] \in {"none", "reading"}
      BY <1>0, <1>8 DEF ClientSend, TypeOK
    <3> QED BY <1>0, <2>1, <3>1, <3>2 DEF AnswerInv
  <2>2. CASE d # c
    BY <1>0, <1>8, <2>2, OthersAnswers DEF ClientSend, TypeOK
  <2> QED BY <2>1, <2>2
<1>9. CASE \/ Cancel \/ CloseListener \/ (\E c \in Conns : Accept(c)) \/ AcceptError
           \/ BackoffElapsed \/ BackoffCancelled \/ DropHeld \/ ServeReturns
           \/ (\E c \in Conns : Dial(c)) \/ UNCHANGED vars
  BY <1>1, <1>9
     DEF Cancel, CloseListener, Accept, AcceptError, BackoffElapsed, BackoffCancelled,
         DropHeld, ServeReturns, Dial, vars
<1> QED
  BY <1>2, <1>3, <1>4, <1>5, <1>6, <1>7, <1>8, <1>9
     DEF Next, LoopStep, HandlerStep, Terminated

\* Every handler has answered and logged what its phase says.
THEOREM Answering == Spec => []AnswersInv
<1>1. Init => AnswersInv
  BY DEF Init, IdleInit, AnswersInv, AnswerInv
<1> QED
  BY <1>1, AnswersStep, Concurrency, PTL DEF Spec

\* A handler that is through has logged one line and given one response, or none
\* to a client that sent nothing.
THEOREM AnsweredOnce == Spec => []OneAnswer
<1>1. ASSUME AnswersInv PROVE OneAnswer
  <2> SUFFICES ASSUME NEW c \in Conns, pc[c] \in {"closing", "release", "done", "gone"}
               PROVE  audit[c] = 1 /\ Len(resp[c]) = IF inbox[c] = NoLine THEN 0 ELSE 1
    BY DEF OneAnswer
  <2>1. AnswerInv(c)
    BY <1>1 DEF AnswersInv
  <2>2. audit[c] = 1 /\ (resp[c] = <<>> <=> inbox[c] = NoLine)
    BY <2>1 DEF AnswerInv
  <2>3. resp[c] = <<>> \/ \E r \in Responses : resp[c] = <<r>>
    BY <2>1, Zenon DEF AnswerInv
  <2>4. CASE resp[c] = <<>>
    BY <2>2, <2>4
  <2>5. CASE \E r \in Responses : resp[c] = <<r>>
    <3>1. Len(resp[c]) = 1
      BY <2>5
    <3>2. Len(<<>>) = 0 /\ 0 # 1
      OBVIOUS
    <3>3. resp[c] # <<>>
      BY <3>1, <3>2, Zenon
    <3> QED BY <2>2, <3>1, <3>3
  <2> QED BY <2>3, <2>4, <2>5
<1> QED BY <1>1, Answering, PTL

\* No tool is started, and no tool's result is sent, without the token.
THEOREM OnlyAuthorisedRun == Spec => []RunsOnlyAuthorised
<1>1. AnswersInv => RunsOnlyAuthorised
  BY DEF AnswersInv, AnswerInv, RunsOnlyAuthorised, ToolStarted
<1> QED BY <1>1, Answering, PTL

-----------------------------------------------------------------------------
(***************************************************************************)
(* The accept loop.                                                        *)
(***************************************************************************)

\* The backoff and the end of the accept loop are right in every reachable state.
THEOREM Accepting == Spec => []AcceptInv
<1>1. Init => AcceptInv
  BY InitType DEF Init, IdleInit, AcceptInv, BackoffBounded, ServesUntilCancelled
<1>2. AcceptInv /\ [Next]_vars => AcceptInv'
  <2> SUFFICES ASSUME AcceptInv, [Next]_vars PROVE AcceptInv'
    OBVIOUS
  <2>0. TypeOK /\ TypeOK'
    BY NextType DEF AcceptInv
  <2> USE DEF loopVars, AcceptInv, BackoffBounded, ServesUntilCancelled
  <2>1. CASE Cancel
    BY <2>0, <2>1 DEF Cancel
  <2>2. ASSUME NEW c \in Conns, Accept(c) PROVE AcceptInv'
    BY <2>0, <2>2 DEF Accept
  <2>3. CASE AcceptError
    <3>1. CASE ctxDone
      BY <2>0, <2>3, <3>1 DEF AcceptError
    <3>2. CASE ~ctxDone
      <4>1. acceptDelay' = NextDelay(acceptDelay) /\ loop' = "backoff" /\ ctxDone' = ctxDone
        BY <2>3, <3>2 DEF AcceptError
      <4>2. acceptDelay' \in BackoffInitial..BackoffMax
        BY <2>0, <4>1, NextDelayType DEF TypeOK
      <4> QED
        BY <2>0, <4>1, <4>2, BackoffAssumption
    <3> QED
      BY <3>1, <3>2
  <2>4. CASE BackoffElapsed \/ BackoffCancelled \/ DropHeld \/ ServeReturns
    BY <2>0, <2>4 DEF BackoffElapsed, BackoffCancelled, DropHeld, ServeReturns
  <2>5. CASE AcquireSlot
    BY <2>0, <2>5 DEF AcquireSlot
  <2>6. CASE UNCHANGED <<ctxDone, loopVars>>
    BY <2>0, <2>6
  <2>7. ASSUME NEW c \in Conns,
               HandlerStep(c) \/ Dial(c) \/ (\E l \in Offered, done \in BOOLEAN : ClientSend(c, l, done))
        PROVE  UNCHANGED <<ctxDone, loopVars>>
    BY <2>7 DEF HandlerStep, Dial, ClientSend, ScanLine, ReadEnds, ToolReturns,
                ToolCtxDone, ToolPanics, WriteEnds, CloseConn, ReleaseSlot, WgDone
  <2>8. CASE CloseListener \/ Terminated \/ UNCHANGED vars
    BY <2>6, <2>8 DEF CloseListener, Terminated, vars
  <2> QED
    BY <2>1, <2>2, <2>3, <2>4, <2>5, <2>6, <2>7, <2>8 DEF Next, LoopStep
<1> QED
  BY <1>1, <1>2, PTL DEF Spec

\* A backing-off loop waits between acceptBackoffInitial and acceptBackoffMax, and
\* starts afresh after each accepted connection.
THEOREM BackoffInBounds == Spec => []BackoffBounded
<1>1. AcceptInv => BackoffBounded
  BY DEF AcceptInv
<1> QED
  BY <1>1, Accepting, PTL

\* No number of Accept errors ends the accept loop: only a cancelled context does.
THEOREM StopsOnlyWhenCancelled == Spec => []ServesUntilCancelled
<1>1. AcceptInv => ServesUntilCancelled
  BY DEF AcceptInv
<1> QED
  BY <1>1, Accepting, PTL

-----------------------------------------------------------------------------
(***************************************************************************)
(* Refinement.  The server implements the abstract request service: each   *)
(* step of the goroutines of Server is one step of RequestService or       *)
(* leaves its variables alone.                                             *)
(***************************************************************************)

\* The invariants the step simulation needs.
ServiceInv == ConcurrencyInv /\ AnswersInv

Simulates == [Service!Next]_(Service!vars)

\* A step that moves no connection between the phases, and changes no input, answer
\* or execution and does not return from Serve, is invisible to the service.
LEMMA Invisible ==
  ASSUME inbox' = inbox, resp' = resp,
         \A c \in Conns : ConnPhase(c)' = ConnPhase(c),
         ToolStarted' = ToolStarted,
         (loop = "returned")' <=> (loop = "returned")
  PROVE  Simulates
<1>1. [c \in Conns |-> ConnPhase(c)]' = [c \in Conns |-> ConnPhase(c)]
  OBVIOUS
<1>2. [c \in Conns |-> AnswerOf(resp[c])]' = [c \in Conns |-> AnswerOf(resp[c])]
  OBVIOUS
<1>3. (loop = "returned")' = (loop = "returned")
  OBVIOUS
<1> QED
  BY <1>1, <1>2, <1>3, Zenon DEF Simulates, Service!vars

\* The accept loop, the listener and the clients' sockets are invisible.
LEMMA LoopInvisible ==
  ASSUME pc' = pc, resp' = resp, inbox' = inbox,
         (loop = "returned")' <=> (loop = "returned")
  PROVE  Simulates
<1>1. \A c \in Conns : ConnPhase(c)' = ConnPhase(c)
  BY DEF ConnPhase, SlotHolders
<1>2. ToolStarted' = ToolStarted
  BY DEF ToolStarted
<1> QED
  BY <1>1, <1>2, Invisible

\* A handler that moves among the phases that hold a slot, answers nothing and
\* starts no tool is invisible too.
LEMMA HandlerInvisible ==
  ASSUME TypeOK, NEW c \in Conns, NEW x \in {"closing", "release", "gone"},
         pc' = [pc EXCEPT ![c] = x], pc[c] # "running", pc[c] # "none",
         x = "gone" <=> pc[c] \notin {"reading", "writing", "closing", "release"},
         resp' = resp, inbox' = inbox, loop' = loop
  PROVE  Simulates
<1>1. \A d \in Conns : pc'[d] = IF d = c THEN x ELSE pc[d]
  BY DEF TypeOK
<1>2. \A d \in Conns : ConnPhase(d)' = ConnPhase(d)
  BY <1>1 DEF ConnPhase, SlotHolders
<1>3. ToolStarted' = ToolStarted
  BY <1>1 DEF ToolStarted
<1> QED
  BY <1>2, <1>3, Invisible

\* A response of a handler is an answer of the service: the first, positive only
\* after an execution.
LEMMA RespondSimulates ==
  ASSUME ServiceInv, NEW c \in Conns, NEW r \in Responses, Respond(c, r),
         pc[c] \in {"reading", "running"}, inbox[c] # NoLine,
         r \in ToolResults <=> pc[c] = "running",
         inbox' = inbox, loop' = loop
  PROVE  Simulates
<1> DEFINE a == IF r = "ok" THEN "ok" ELSE "error"
<1>1. TypeOK /\ AnswerInv(c)
  BY DEF ServiceInv, ConcurrencyInv, AnswersInv
<1>2. resp[c] = <<>>
  BY <1>1 DEF AnswerInv
<1>3. /\ \A d \in Conns : pc'[d] = IF d = c THEN "writing" ELSE pc[d]
      /\ \A d \in Conns : resp'[d] = IF d = c THEN <<r>> ELSE resp[d]
  BY <1>1, <1>2 DEF TypeOK, Respond
<1>4. \A d \in Conns : ConnPhase(d)' = ConnPhase(d)
  BY <1>3 DEF ConnPhase, SlotHolders
<1>5. [d \in Conns |-> ConnPhase(d)]' = [d \in Conns |-> ConnPhase(d)]
  BY <1>4
<1>6. ToolStarted' = ToolStarted
  BY <1>2, <1>3 DEF ToolStarted
<1>7. AnswerOf(resp[c]) = "none" /\ AnswerOf(resp'[c]) = a
  BY <1>2, <1>3 DEF AnswerOf
<1>8. [d \in Conns |-> AnswerOf(resp[d])]' = [[d \in Conns |-> AnswerOf(resp[d])] EXCEPT ![c] = a]
  BY <1>3, <1>7
<1>9. ConnPhase(c) = "active"
  BY DEF ConnPhase, SlotHolders
<1>10. a = "ok" => c \in ToolStarted
  BY DEF ToolStarted, ToolResults
<1>11. Service!Answer(c, a)
  BY <1>5, <1>6, <1>7, <1>8, <1>9, <1>10 DEF Service!Answer
<1> QED
  BY <1>11 DEF Simulates, Service!Next

\* A handler that starts a tool executes an authorised request.
LEMMA RunSimulates ==
  ASSUME ServiceInv, NEW c \in Conns, pc[c] = "reading", inbox[c] \in AuthorisedRequests,
         pc' = [pc EXCEPT ![c] = "running"], resp' = resp, inbox' = inbox, loop' = loop
  PROVE  Simulates
<1>1. TypeOK /\ AnswerInv(c)
  BY DEF ServiceInv, ConcurrencyInv, AnswersInv
<1>2. resp[c] = <<>> /\ AnswerOf(resp[c]) = "none"
  BY <1>1 DEF AnswerInv, AnswerOf
<1>3. \A d \in Conns : pc'[d] = IF d = c THEN "running" ELSE pc[d]
  BY <1>1 DEF TypeOK
<1>4. \A d \in Conns : ConnPhase(d)' = ConnPhase(d)
  BY <1>3 DEF ConnPhase, SlotHolders
<1>5. [d \in Conns |-> ConnPhase(d)]' = [d \in Conns |-> ConnPhase(d)]
  BY <1>4
<1>6. c \notin ToolStarted /\ ToolStarted' = ToolStarted \cup {c}
  BY <1>2, <1>3 DEF ToolStarted
<1>7. [d \in Conns |-> AnswerOf(resp[d])]' = [d \in Conns |-> AnswerOf(resp[d])]
  OBVIOUS
<1>8. ConnPhase(c) = "active"
  BY DEF ConnPhase, SlotHolders
<1>9. Service!Execute(c)
  BY <1>2, <1>5, <1>6, <1>7, <1>8 DEF Service!Execute
<1> QED
  BY <1>9 DEF Simulates, Service!Next

\* What handleConn does with a line is an answer or an execution.
LEMMA HandleLineSimulates ==
  ASSUME ServiceInv, NEW c \in Conns, pc[c] = "reading", inbox[c] # NoLine,
         HandleLine(c, inbox[c]), inbox' = inbox, loop' = loop
  PROVE  Simulates
<1>1. CASE \E r \in Responses \ ToolResults : Respond(c, r)
  BY <1>1, RespondSimulates
<1>2. CASE /\ inbox[c] \in Request /\ inbox[c].token = Token /\ inbox[c].tool \in Remote
           /\ pc' = [pc EXCEPT ![c] = "running"] /\ resp' = resp
  <2>1. inbox[c] \in AuthorisedRequests
    BY <1>2 DEF Request, AuthorisedRequests
  <2> QED
    BY <1>2, <2>1, RunSimulates
<1> QED
  BY <1>1, <1>2 DEF HandleLine, RunRemote, Responses, ToolResults, outVars

\* The active connections of the service are the holders of slots.
LEMMA ActiveHoldSlots == Service!Active = SlotHolders
BY DEF Service!Active, ConnPhase, SlotHolders

\* The handler that takes a slot is admitted: the semaphore counts the holders of
\* slots, so fewer than MaxConns are active.
LEMMA AcquireSimulates ==
  ASSUME ServiceInv, AcquireSlot
  PROVE  Simulates
<1>1. TypeOK /\ held \in Conns /\ pc[held] = "none"
  BY DEF ServiceInv, ConcurrencyInv, Lifecycle, TypeOK, AcquireSlot
<1>2. PICK h \in Conns : h = held
  BY <1>1
<1>3. \A d \in Conns : pc'[d] = IF d = h THEN "reading" ELSE pc[d]
  BY <1>1, <1>2 DEF TypeOK, AcquireSlot
<1>4. ConnPhase(h) = "waiting"
  BY <1>1, <1>2 DEF ConnPhase
<1>5. \A d \in Conns : ConnPhase(d)' = IF d = h THEN "active" ELSE ConnPhase(d)
  BY <1>3 DEF ConnPhase, SlotHolders
<1>6. [d \in Conns |-> ConnPhase(d)]' = [[d \in Conns |-> ConnPhase(d)] EXCEPT ![h] = "active"]
  BY <1>5
<1>7. ToolStarted' = ToolStarted
  BY <1>1, <1>2, <1>3 DEF ToolStarted, AcquireSlot, outVars
<1>8. [d \in Conns |-> AnswerOf(resp[d])]' = [d \in Conns |-> AnswerOf(resp[d])]
  BY DEF AcquireSlot, outVars
<1>9. Service!Cardinality(Service!Active) < MaxConns
  <2>1. Service!Cardinality(SlotHolders) = Cardinality(SlotHolders)
    BY DEF Service!Cardinality, Cardinality
  <2> QED
    BY <2>1, ActiveHoldSlots DEF ServiceInv, ConcurrencyInv, Counting, AcquireSlot
<1>10. inbox' = inbox /\ ~(loop = "returned") /\ (loop = "returned")' = (loop = "returned")
  BY DEF AcquireSlot, inVars
<1>11. [d \in Conns |-> ConnPhase(d)][h] = "waiting"
  BY <1>4
<1>12. Service!Admit(h)
  BY <1>6, <1>7, <1>8, <1>9, <1>10, <1>11, Zenon DEF Service!Admit
<1> QED
  BY <1>12 DEF Simulates, Service!Next

\* The handler that gives its slot back leaves, having answered what it had to.
LEMMA ReleaseSimulates ==
  ASSUME ServiceInv, NEW c \in Conns, ReleaseSlot(c)
  PROVE  Simulates
<1>1. TypeOK /\ AnswerInv(c) /\ pc[c] = "release"
  BY DEF ServiceInv, ConcurrencyInv, AnswersInv, ReleaseSlot
<1>2. \A d \in Conns : pc'[d] = IF d = c THEN "done" ELSE pc[d]
  BY <1>1 DEF TypeOK, ReleaseSlot
<1>3. ConnPhase(c) = "active"
  BY <1>1 DEF ConnPhase, SlotHolders
<1>4. \A d \in Conns : ConnPhase(d)' = IF d = c THEN "left" ELSE ConnPhase(d)
  BY <1>2 DEF ConnPhase, SlotHolders
<1>5. [d \in Conns |-> ConnPhase(d)]' = [[d \in Conns |-> ConnPhase(d)] EXCEPT ![c] = "left"]
  BY <1>4
<1>6. ToolStarted' = ToolStarted
  BY <1>1, <1>2 DEF ToolStarted, ReleaseSlot, outVars
<1>7. [d \in Conns |-> AnswerOf(resp[d])]' = [d \in Conns |-> AnswerOf(resp[d])]
  BY DEF ReleaseSlot, outVars
<1>8. resp[c] = <<>> <=> inbox[c] = NoLine
  BY <1>1 DEF AnswerInv
<1>9. AnswerOf(resp[c]) = "none" <=> inbox[c] = NoLine
  BY <1>8 DEF AnswerOf
<1>10. inbox' = inbox /\ loop' = loop
  BY DEF ReleaseSlot, inVars, loopVars
<1>11. Service!Leave(c)
  BY <1>3, <1>5, <1>6, <1>7, <1>9, <1>10 DEF Service!Leave
<1> QED
  BY <1>11 DEF Simulates, Service!Next

\* What a client sends is submitted while the service has not acted on it.
LEMMA SendSimulates ==
  ASSUME ServiceInv, NEW c \in Conns, NEW l \in Offered, NEW done \in BOOLEAN,
         ClientSend(c, l, done)
  PROVE  Simulates
<1>1. AnswerInv(c) /\ pc[c] \in {"none", "reading"} /\ l \in Lines
  BY SentinelAssumption DEF ServiceInv, AnswersInv, ClientSend
<1>2. resp[c] = <<>> /\ AnswerOf(resp[c]) = "none"
  <2>1. resp[c] = <<>>
    BY <1>1 DEF AnswerInv
  <2> QED
    BY <2>1 DEF AnswerOf
<1>3. c \notin ToolStarted /\ ConnPhase(c) # "left"
  BY <1>1, <1>2 DEF ToolStarted, ConnPhase, SlotHolders
<1>4. pc' = pc /\ resp' = resp /\ loop' = loop
  BY DEF ClientSend, outVars, loopVars
<1>5. [d \in Conns |-> ConnPhase(d)]' = [d \in Conns |-> ConnPhase(d)]
  BY <1>4 DEF ConnPhase, SlotHolders
<1>6. ToolStarted' = ToolStarted
  BY <1>4 DEF ToolStarted
<1>7. [d \in Conns |-> AnswerOf(resp[d])]' = [d \in Conns |-> AnswerOf(resp[d])]
  BY <1>4
<1>8. Service!Submit(c, l)
  BY <1>2, <1>3, <1>4, <1>5, <1>6, <1>7 DEF Service!Submit, ClientSend
<1> QED
  BY <1>1, <1>8 DEF Simulates, Service!Next

\* Serve returns when the WaitGroup is at zero, and so with no connection active.
LEMMA ReturnSimulates ==
  ASSUME ServiceInv, ServeReturns
  PROVE  Simulates
<1>1. LiveHandlers = {}
  BY FS_EmptySet DEF ServiceInv, ConcurrencyInv, Counting, ServeReturns
<1>2. SlotHolders = {}
  BY <1>1 DEF SlotHolders, LiveHandlers
<1>3. Service!Active = {}
  BY <1>2, ActiveHoldSlots
<1>4. pc' = pc /\ resp' = resp /\ inbox' = inbox /\ loop # "returned" /\ loop' = "returned"
  BY DEF ServeReturns, outVars, inVars
<1>5. [d \in Conns |-> ConnPhase(d)]' = [d \in Conns |-> ConnPhase(d)]
  BY <1>4 DEF ConnPhase, SlotHolders
<1>6. ToolStarted' = ToolStarted
  BY <1>4 DEF ToolStarted
<1>7. [d \in Conns |-> AnswerOf(resp[d])]' = [d \in Conns |-> AnswerOf(resp[d])]
  BY <1>4
<1>8. Service!Stop
  BY <1>3, <1>4, <1>5, <1>6, <1>7 DEF Service!Stop
<1> QED
  BY <1>8 DEF Simulates, Service!Next

\* Every step of the server is a step of the service or invisible to it.
LEMMA StepSimulates == ServiceInv /\ [Next]_vars => Simulates
<1> SUFFICES ASSUME ServiceInv, [Next]_vars PROVE Simulates
  OBVIOUS
<1> USE DEF loopVars, semVars, inVars, outVars
<1>0. TypeOK
  BY DEF ServiceInv, ConcurrencyInv
<1>1. CASE Cancel
  BY <1>1, LoopInvisible DEF Cancel
<1>2. CASE CloseListener
  BY <1>2, LoopInvisible DEF CloseListener
<1>3. ASSUME NEW c \in Conns, Accept(c) PROVE Simulates
  BY <1>3, LoopInvisible DEF Accept
<1>4. CASE AcceptError
  BY <1>4, LoopInvisible DEF AcceptError
<1>5. CASE BackoffElapsed \/ BackoffCancelled
  BY <1>5, LoopInvisible DEF BackoffElapsed, BackoffCancelled
<1>6. CASE AcquireSlot
  BY <1>6, AcquireSimulates
<1>7. CASE DropHeld
  BY <1>7, LoopInvisible DEF DropHeld
<1>8. CASE ServeReturns
  BY <1>8, ReturnSimulates
<1>9. ASSUME NEW c \in Conns, ScanLine(c) PROVE Simulates
  <2>1. AnswerInv(c)
    BY DEF ServiceInv, AnswersInv
  <2>2. inbox[c] # NoLine
    BY <1>9, <2>1 DEF ScanLine, AnswerInv
  <2> QED
    BY <1>9, <2>2, HandleLineSimulates DEF ScanLine
<1>10. ASSUME NEW c \in Conns, ReadEnds(c) PROVE Simulates
  <2>1. CASE inbox[c] = NoLine
    <3>1. /\ pc[c] = "reading" /\ pc' = [pc EXCEPT ![c] = "closing"]
          /\ resp' = resp /\ inbox' = inbox /\ loop' = loop
      BY <1>10, <2>1, Zenon DEF ReadEnds
    <3> QED
      BY <1>0, <3>1, HandlerInvisible
  <2>2. CASE inbox[c] # NoLine
    BY <1>10, <2>2, HandleLineSimulates DEF ReadEnds
  <2> QED
    BY <2>1, <2>2
<1>11. ASSUME NEW c \in Conns, ToolReturns(c) \/ ToolCtxDone(c) \/ ToolPanics(c)
       PROVE  Simulates
  <2>1. AnswerInv(c) /\ pc[c] = "running" /\ inbox' = inbox /\ loop' = loop
    BY <1>11 DEF ServiceInv, AnswersInv, ToolReturns, ToolCtxDone, ToolPanics
  <2>2. inbox[c] # NoLine
    BY <2>1, SentinelAssumption, ToolsAssumption
       DEF AnswerInv, AuthorisedRequests, Lines, Request
  <2>3. \E r \in ToolResults : Respond(c, r)
    BY <1>11 DEF ToolReturns, ToolCtxDone, ToolPanics, ToolResults
  <2>4. ToolResults \subseteq Responses
    BY DEF ToolResults, Responses
  <2> QED
    BY <2>1, <2>2, <2>3, <2>4, RespondSimulates
<1>12. ASSUME NEW c \in Conns, WriteEnds(c) PROVE Simulates
  BY <1>0, <1>12, HandlerInvisible DEF WriteEnds
<1>13. ASSUME NEW c \in Conns, CloseConn(c) PROVE Simulates
  BY <1>0, <1>13, HandlerInvisible DEF CloseConn
<1>14. ASSUME NEW c \in Conns, ReleaseSlot(c) PROVE Simulates
  BY <1>14, ReleaseSimulates
<1>15. ASSUME NEW c \in Conns, WgDone(c) PROVE Simulates
  BY <1>0, <1>15, HandlerInvisible DEF WgDone
<1>16. ASSUME NEW c \in Conns, Dial(c) PROVE Simulates
  BY <1>16, LoopInvisible DEF Dial
<1>17. ASSUME NEW c \in Conns, NEW l \in Offered, NEW done \in BOOLEAN,
              ClientSend(c, l, done)
       PROVE  Simulates
  BY <1>17, SendSimulates
<1>18. CASE UNCHANGED vars
  BY <1>18, LoopInvisible DEF vars
<1> QED
  BY <1>1, <1>2, <1>3, <1>4, <1>5, <1>6, <1>7, <1>8, <1>9, <1>10, <1>11, <1>12, <1>13,
     <1>14, <1>15, <1>16, <1>17, <1>18 DEF Next, LoopStep, HandlerStep, Terminated

\* Every behaviour of Serve and its goroutines is one of the abstract service: at
\* most MaxConns requests in service, a tool started at most once and only for an
\* authorised request, one answer, and a stop with nothing left in service.
THEOREM ServerImplementsService == Spec => ImplementsService
<1>1. Init => Service!Init
  <2> SUFFICES ASSUME Init PROVE Service!Init
    OBVIOUS
  <2>1. [c \in Conns |-> ConnPhase(c)] = [c \in Conns |-> "waiting"]
    BY DEF Init, IdleInit, ConnPhase
  <2>2. ToolStarted = {}
    BY DEF Init, IdleInit, ToolStarted
  <2>3. [c \in Conns |-> AnswerOf(resp[c])] = [c \in Conns |-> "none"]
    BY DEF Init, IdleInit, AnswerOf
  <2>4. (loop = "returned") = FALSE
    BY DEF Init, IdleInit
  <2> QED
    BY <2>1, <2>2, <2>3, <2>4 DEF Service!Init, Init, IdleInit
<1>2. ServiceInv /\ [Next]_vars => [Service!Next]_(Service!vars)
  BY StepSimulates DEF Simulates
<1>3. Spec => []ServiceInv
  BY Concurrency, Answering, PTL DEF ServiceInv
<1> QED
  BY <1>1, <1>2, <1>3, PTL DEF Spec, ImplementsService, Service!Spec
=============================================================================
