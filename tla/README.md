# A verification project for rpeek

rpeek is one binary that is both a diagnostic server (`rpeek serve`) and its
client (`rpeek <host> <tool> …`). The server runs read-only tools on its host:
files below a set of root directories, processes, disks, the journal, databases
behind a small query language. This directory models the parts of it in which
something can go wrong that a test hardly reaches, checks them with TLC on small
instances, and proves the central results with TLAPS for all instances.
`PROJECT.json` is the index: components, runs, the source lines of every
definition, hazards, mutants, findings and theorems.

## 1. Inventory

| Component | State | Operations | Correct if |
|---|---|---|---|
| Request server (`server.go`, `runner.go`, `protocol.go`) | listener, semaphore channel, WaitGroup, one goroutine and socket per connection, accept backoff | `Serve`, `handleConn`, `writeResponse`, `RunRemote` | bounded concurrency, one answer and one audit line per request, no tool without the token, `Serve` returns after cancellation and leaves nothing open |
| Serve tool (`tool_serve.go`, parts of `dbconn.go`) | pools, listener, signal context, TTL timer, deferred calls | `Serve` | every path out gives back what it acquired, handlers never outlive the pools, TTL and signals end the process |
| Client (`client.go`) | one connection, a deadline | `Call` | the exit code tells what the server did; a call ends |
| Path jail (`jail.go`) | the resolved roots | `NewJailSet`, `Resolve`, `ResolveFile` | exactly the existing paths below a root are handed out, by their physical path |
| read, tail, grep (`tool_read.go`, `tool_tail.go`, `tool_grep.go`, `util.go`) | scanner, ring buffer, output buffer | `Remote` | pages join up, tail is a suffix of whole lines, an unmarked grep is complete |
| list (`tool_list.go`) | a bounded max-heap | `Remote` | the listing is the alphabetical prefix, and says so when it is cut |
| Query language (`sqlq/`) | text, tokens, `Query`, resolver scope | `lex`, `Parse`, `Resolve`, `Translate`; `applyRowLimit` of `tool_sql.go` | the statement sent means what the client wrote, with a row limit |
| Database registry, sql and db tools (`dbconn.go`, `tool_sql.go`, `tool_db*.go`, introspection in `catalog.go`) | pools of four connections, read-only transactions, open result sets | `BeginReadOnly`, `Remote` | no connection is lost, no handler waits for ever, an answer is true of the database and says what it leaves out |
| ps, disk, journal (`tool_ps.go`, `tool_disk.go`, `tool_journal.go`) | rows so far, mount points seen, a child process behind a capped writer | `Remote` | what stays is shown, what is left out is marked, memory is bounded |
| stat, hostname, version, help | none | `Remote`/`Local` | (formatting; on which side they run belongs to the command line) |
| Command line and configuration (`cmd/rpeek`, `conf`, `netutil`) | the flags before and after the tool's name, the environment | `run`, `runTool`, `callRemote`, `Resolve`, `NormalizeAddr` | the server asked is the one the caller named; exit codes and output of local, remote and two-sided tools |
| TLS (`tlsutil.go`) | none | certificate creation | (cryptography) |

Interactions: a client process dials, the accept loop takes the connection when it
holds a semaphore slot, the handler reads one line, checks the token, and calls the
tool through `RunRemote` under a context that the serve tool cancels on a signal or
when the TTL is over. The file tools go through the jail; the sql tool goes through
the query language to a pool of the registry. The components share only the
context, the semaphore, the WaitGroup, the pools and the host's file system.

What is hard here: cancellation at every point of accept, slot wait, backoff and
tool execution; panics in handlers; deadlines against slow peers; deferred clean-up
on every exit; file systems, processes, mounts and databases that change between and
during requests; more handlers than connections; caps that are met exactly;
three-valued logic under negation. The full list, at the line
where each one bites, is `hazards` in `PROJECT.json`.

## 2. Modules

| Module | Models | Used by |
|---|---|---|
| `RequestService` | abstract specification: what the server promises, without goroutines or sockets | `Server` (refinement) |
| `Server` | `server.go`, `runner.go` | `ServeTool`, `RoundTrip`, `ServerProofs`, `MCServer` |
| `ServeTool` | `Serve` of `tool_serve.go` around every action of `Server` | `ProcessProofs`, `MCServeTool` |
| `RoundTrip` | the command line, `client.Call` and the exit code, one client process per connection, composed with every action of `Server` | `ProcessProofs`, `MCRoundTrip` |
| `Jail` | `jail.go` over a file system that changes | `JailProofs`, `MCJail` |
| `ToolUtil` | `capOutput`, `capWriter` of `util.go` | `FileTools`, `HostTools`, `ToolUtilProofs` |
| `FileTools` | read, tail, grep on files that grow | `FileProofs`, `MCFileTools` |
| `ListTool` | list on a directory that changes | `HostProofs`, `MCHostTools` |
| `HostTools` | ps, disk, journal on a host that changes | `HostProofs`, `MCHostTools` |
| `Lexer` | `lexer.go` on texts of characters | `QueryProofs`, `MCQuery` |
| `Conditions` | predicates, their translation in `translate.go` and what the database makes of it | `Sqlq`, `QueryProofs` |
| `Sqlq` | `parser.go`, `catalog.go`, `translate.go`, the row limit of `tool_sql.go` | `MCSqlq`, `MCQuery` |
| `SqlTool` | the sql and db tools, statement by statement, on the pools of `dbconn.go` | `SqlToolProofs`, `MCSqlTool` |
| `ServerProofs` | theorems about `Server` and its refinement of `RequestService` | `ProcessProofs` |
| `ProcessProofs` | theorems about the two compositions `ServeTool` and `RoundTrip`, on top of the server's | |
| `ToolUtilProofs` | lemmas on least and greatest elements, elements of sequences and `capOutput` | `FileProofs`, `HostProofs`, `JailProofs`, `QueryProofs` |
| `FileProofs`, `HostProofs`, `JailProofs`, `QueryProofs`, `SqlToolProofs` | theorems about the tools, the jail, the lexer and the translation | |

### How state and actions correspond to the code

**Server.** `loop` is where the goroutine of `Serve` is (accept, backoff, slot wait,
`wg.Wait`, returned), `held` the connection it has accepted and not yet handed to a
handler, `sem` and `wg` the channel and the WaitGroup, `acceptDelay` the backoff,
`lnOpen` and `ctxDone` the listener and the context. `pc[c]` is where the handler of
connection `c` is; its deferred calls (close, release the slot, `Done`) are steps of
their own, in the order Go runs them, since other goroutines may run in between.
`inbox`/`eol` are what the client has sent and whether the line is complete, `resp`
the responses written, `audit` the number of log lines. A deadline is an action that
may happen as soon as the deadline is armed. A request line is too long, malformed,
or a token and a tool; a response is its kind. `Registered`, `Remote` and `CtxAware`
stand for the registry. A tool returns a result, an error, or panics.

**ServeTool.** One action per fallible start-up step, one per deferred call. Before
the TTL fires SIGINT and SIGTERM cancel the context; after `stop()` they kill the
process, as `signal.NotifyContext` prescribes.

**RoundTrip.** `inv` is how a client was called: what parsing makes of its flags and
arguments (good, bad, a request for help), the tool, and a setting each for host and
token, that is, the flag behind the tool's name, the one before it and the environment
variable. `ParseArgs`, `RunLocalOnly`, `RunLocalRemote` and `RunRemoteTool` are the ways
of `runTool`; what follows is `Call`. `tls.Dial` returns after the handshake, in which
the server takes part with the first read of `handleConn`; therefore a dialling client
waits for a slot. The deadline is set only after that. `wire` says whether a part of
the response has arrived, all of it, or more than `maxResponseLine`.

**Jail.** A name is a sequence of letters, so that one name can be a prefix of
another, and `contains` compares paths as the strings the code compares. `EvalSymlinks`
is a walk: a `Step` goes one name further, or puts the target of a symlink in front of
the names still to walk and starts from the root again. `StepsLeft` bounds the steps of
a walk, for a path has finitely many names, each target has at most `MaxTarget` and at
most `MaxLinks` are followed. The reference `RealLoc` does not walk: the place of a path
is the entry in its parent's place, and a symlink's place is its target's, found with
one link less (`LinkPlaces`). Check and use of a path are one step: a file system that changes between them is outside what the jail claims.
NUL bytes and over-long names are not modelled.

**FileTools.** Files are sequences of bytes; one byte kind is a UTF-8 continuation
byte. Every page, line and probe is one step, between which the host appends. Files
are not truncated while a tool reads them. `bufio.Scanner` is modelled by what the
code relies on: lines without their newline and without a carriage return in front of
it (`dropCR`), an error at an over-long one. So the lines that tail and grep return end
in a mere newline.

**ListTool.** Names are integers in their order, the heap the set of names in it.
`ReadDir` is external: it hands over an entry that is there all the time exactly
once, and one that comes or goes at most once. Looking a name up may fail for
any reason (it has gone, the directory may be read but not searched, an I/O error):
`SkipName` leaves it out unmarked, as the code does, and takes it out of `steady`, the
entries the property speaks of.

**HostTools.** `procs` numbers the lives of each process number, so that a row can show
which process each of its three files of `/proc` came from; ps reads the directory once
and then one file per step. Each of the three may fail to be read, whether the process
lives or not (it has exited, hidepid, no free descriptor): without its stat a process is
skipped unmarked, and `PsStatFails` takes it out of `stayed`; without its status its user
is `?`; without its command line it is shown by the name in its stat. `mounts` is
`/proc/mounts` with the usage behind each line; disk reads the table once and asks for
one mount point per step, while file systems are mounted (`NewMount`) and unmounted
(`Unmount`, not one that is busy). `statfs` finds the file system mounted last at a point
or above it; `Enclosing` says what is above. `statfs` may fail, too. `stdout` is the capped writer that the journalctl child
writes to. `stayed`, `lived` and `written` are history, for the properties. One request
runs in each behaviour: the tools share no state.

**Lexer.** A text is a sequence of characters, typed one by one; `lex` is a function of
it. The end of a word or of digits is found by `Skip`; a round of the loop of `lexString`
is `StringStep`, of which a text has at most as many as characters; the loop of `lex` is
the function `from` of the position. The reference `Cut` does not scan: it takes the
longest lexeme, from a definition of each lexeme as a set of texts, and goes on behind
it.

**Sqlq and Conditions.** A query is a sequence of tokens; a parse function maps a position to a node
and the position behind it, or to the position at which it fails. `Resolve` and
`Translate` map the query on. The builder (goqu v9) and the database are external:
the builder's `Eq`/`Neq` with NULL, TRUE or FALSE emit an `IS` test and its
`Limit(0)` clears the LIMIT clause; the database evaluates in three-valued logic.
What is sent for a predicate, and its truth value on a row, are in `Conditions`. LIKE is
equality, which is what it is for a pattern without wildcards. The
reference reads a condition off its tokens, without a tree: split at the last `OR`
outside parentheses, else at the last `AND` that does not belong to a `BETWEEN`, else
`NOT`, parentheses, or a predicate.

**SqlTool.** One handler goroutine per request; `tx` says whether it has a connection,
`todo` which statements are still to run (Resolve lists the tables and describes each
table of the query before the query itself), `rows` the open result set, `known` and
`cols` what Resolve has learnt. Every statement is executed and scanned in steps of its
own; each may fail, and a scan may break off with an error behind any of its rows. What
`database/sql` does on its own is external: it hands out connections up to
`MaxOpenConns` and rolls a transaction back when its context ends. A statement reads the
database as it is when it is executed, for `BeginTx` asks for no isolation level. What a
query means is left to `Sqlq`: here it reads one column of its first table. `Return`
stands for every way out, with the deferred `rows.Close`, `Rollback` and `cancel`.
`seen` is history: the contents of the database since `BeginTx`.

## 3. Runs

All passing runs finish within three minutes on two workers.

| Run | Instance | Shows |
|---|---|---|
| `server_safety` | 3 connections, 2 slots, backoff 2→3, two kinds of lines, symmetry | slot and WaitGroup accounting, open connections bounded, clean return, one answer, only authorised tools run, backoff bounds, only cancellation ends the loop, and `Server` implements `RequestService` |
| `server_liveness` | 2 connections, 1 slot, a line for every way through the handler | shutdown completes, accepted connections are closed, the backlog drains |
| `serve_tool` | 2 connections, 1 slot, 2 databases, a TTL, no tool timeout | pools outlive handlers, nothing leaks on any exit, graceful until the TTL, TTL and signals end the server |
| `round_trip` | 2 client processes with every kind of command line, 1 slot, a tool timeout | exit codes tell the truth, the server that answers is the one that was named, every call returns |
| `call_timeout` | the same with `--timeout 0` | *violation*, see findings |
| `jail` | all file systems of depth 2 over 2 names, changed between requests, 3 symlink targets, 3 sets of roots | what is resolved is inside and physical, resolution is exact, "no such file" only for paths inside |
| `file_tools` | files of up to 3 lines, also ending in a carriage return, growth by 3 bytes, limits 2/3, line cap 4, window 6 | pages join up, caps cut in front of a rune, tail is a suffix of whole lines, an unmarked grep is complete |
| `grep_overlong` | the same with growth by 2 | *violation*, see findings |
| `host_tools` | 5 names, one dotfile, heap of 2; 3 processes of which 2 fit; 5 mounts, two at one point, one below another, one more while disk runs; a child that writes 12 bytes at most | the heap is the alphabetical prefix at every moment, a listing is one, or marked; ps and disk show what stays and can be read, journal what was written, or they say that something is missing |
| `sql_query` | four typists (texts of up to 7 characters) and six clients: conditions token by token (to 12 tokens), nested (to 17), predicates below NOT, joins with aliases, select lists, grouping and sorting of joined tables with limits | a text is cut into the longest lexemes or refused; the statement has the meaning of the tokens on every row; exactly the grammar is accepted; names are resolved exactly if they have one meaning |
| `sql_tool` | 2 handlers on 1 connection, 10 requests, one change of the database by others, with and without a timeout | connections come back, answers are true of one moment and marked if cut, every handler returns |
| `sql_limit_zero` | limits 0 to 4, cap 3 | *violation*, see findings |

Why the bounds are enough. The server treats connections alike; three connections on
two slots give every situation of one waiting, one releasing and one working, and the
theorems below remove the bound. The backoff reaches its cap after one doubling.
Liveness uses the smallest instance in which somebody waits for a slot. In `jail` two
names with one a prefix of the other, and links that point up, across and below,
give every case of `contains` and `resolveExisting`. In `file_tools` each limit is
below, at and above the size of some file. In `host_tools` the heap
overflows by three, a process number is used twice, percentages round up and down, and
the child's output ends below, at and above the cap and inside a rune. In `sql_tool` two
handlers on one connection are the situation of five on four, and a table can vanish
between any two statements; limits are absent, 0, at and above the cap.
In `sql_query` every clause, predicate and operator occurs, conditions nest twice, a
bare column is ambiguous, an alias hides a table, and names differ in case only.

Every property is guarded by a mutant of the code that breaks it (`mutants`): a
pool left open by a failed start-up, a slot released too early, a wrong De Morgan step, and
so on.

### Fairness

`Server`: weak fairness for goroutines that can run (closer, loop, handlers), for
deadlines and the backoff timer (they fire), and for a tool that returns: one that
watches its context does so when the context ends, the others do bounded local I/O.
Strong fairness for `Accept`: errors of `Accept` are transient and the backlog is a
queue. Clients and whoever cancels owe nothing. `ServeTool` carries this over for a
live process and adds start-up, the deferred calls and the TTL timer; signals are
owed by nobody. `RoundTrip` adds the client's goroutine, delivery by its kernel, and
its deadline once it is set. `SqlTool`: timers fire,
handlers whose context is over return and `database/sql` rolls back; the database owes
an answer only if there is no timeout, for then nothing else ends a request.

## 4. Proofs

Every safety property of the passing runs is a theorem, except those of `Sqlq`. Each is
proved the same way: an inductive invariant that contains it or implies it, stated in the
proof module (`ConcurrencyInv`, `AnswersInv`, `AcceptInv`, `ServeInv`, `TripInv`,
`FileInv`, `ListInv`, `HostInv`, `HistoryInv`, `JailInv`, `LexInv`); it holds initially,
and each action preserves it, one step or lemma for each action.

**Server** (`ServerProofs`, for every set of connections, every `MaxConns > 0`, all
backoff bounds, tokens and tools under the ASSUMEs of `Server`).
`TypeCorrect` is by cases on the actions. `SlotAccounting` is not inductive: that a
slot is released once needs to know which phases hold one, and that `OpenBound` holds
needs that every open socket belongs to the loop or to a handler with a slot.
`ConcurrencyInv` = types, `Lifecycle` (who owns a socket in which phase) and
`Counting` (the counters are cardinalities of finite sets of handlers; none is left
after `wg.Wait`) is inductive (`Concurrency`) and implies `SlotAccounting`,
`OpenBound` and `CleanReturn`. `OneAnswer` and `RunsOnlyAuthorised` follow from
`AnswersInv`, which says phase by phase what a handler has answered and logged and
why a running tool was authorised (`Answering`). `BackoffBounded` and
`ServesUntilCancelled` follow from `AcceptInv`, which adds that a delay once begun
is at least its initial value also while `Accept` is being tried again.

**Refinement** (`ServerProofs`). `ServerImplementsService`: under the mapping of
`Server!Service` (a connection is waiting until its handler starts, active while it
holds a slot, left afterwards; a tool counts as executed once it is started) the
initial states map to initial states, and under the invariants above every step maps
to one of the abstract service or to a stutter; one lemma for each group of actions.

**List** (`HostProofs`, for every set of integer names and every bound).
`ListInv` = types, `HeapIsPrefix`, `ScanInv` (an entry that stays and can be looked up is
read or still to come) and `PrintInv` (what is printed precedes what is not) is inductive. Needed
because `ListingIsPrefix` speaks of the end only: without `ScanInv` an entry could be
lost before it was read. `HeapCorrect` and `ListingCorrect` follow.

**SQL tools** (`SqlToolProofs`, for every set of handlers and requests, every number of
connections, all databases that change in any way). `PoolInv` = types and `ConnectionsReturned` is inductive:
only `Begin` takes a connection, for a handler that has none and while one is free, and
every way out gives it back, that of a failed `SET LOCAL` too. The cardinality of the
handlers at work on a pool needs that they are finitely many. `SqlTypeCorrect` and
`ConnectionsReturn` follow. `AnswersTrue` speaks of answers, which are given at the end:
it needs to know of a handler at work which statements are behind it (`Progress`), that
the tables known are those of one moment of the transaction and the columns bound include
those that each described table had at some moment, that an open result set is its
statement's at such a moment, and that the database is in the history while the
transaction is open (`TruthInv`). The history only grows, and what is true of it stays
true. `AnswersAreTrue` follows.

**Serve tool** (`ProcessProofs`, for every server of `Server`, every set of databases,
with and without a TTL). The process takes every step of the server; `ConcurrencyInv` is
carried over as far as the listener and the context are concerned, which the process
changes too, and `ProcessInv` says phase by phase what is open: no listener before
`Listen` and behind its deferred close, all pools from the last `Open` to the close of
the registry and none before or behind, no handler once `Serve` has returned, and while
it serves signals are caught or the TTL has fired. `PoolsOutlive`, `ExitLeaksNothing`
and `KilledOnlyAfterTTL` follow.

**Client and server** (`ProcessProofs`, for every set of clients with any command
lines). `ExitTells` relates a client's exit code to what the server did. `CallInv` says
of a client at every point of `Call` that it has both settings, that the server has
received nothing but its request or a part of it, and that what has arrived is the
response of a handler that is through; with `AnswersInv` the handler that answered "ok"
ran the tool for an authorised request. `ExitCodesTell` follows, and
`NamedServerAnswers`, since what `Resolve` finds is the setting that was meant.

**ps, disk, journal** (`HostProofs`, for every directory order, any processes and
mounts, all output in any pieces, every cap). `HostInv` says what a tool at work holds.
For ps: the row begun and the rows made are of processes that lived while it ran, a
process that stays and whose stat can be read is in a row or still to be read. For
disk: a file system that stays in sight, alone at its point, and answers is in the table
with its usage, or still to come with its point not yet seen; that it is still in sight
when its turn comes needs that unmounting others keeps the order of the rest, and that
the root is the first of all. For journal: the writer holds a prefix of what was written, all of it or as
much as it takes. `PsTellsTheTruth`, `DiskTellsTheTruth` and `JournalTellsTheTruth`
follow, the last with the lemma `CapOutputCuts`: `capOutput` cuts where the longest run of
whole runes within the cap ends, for bytes that are not valid UTF-8 too.

**read, tail, grep** (`FileProofs`, for files of any content that grow in any way while
they are read, all requests, caps, window and line limits). `FileInv` relates what a tool
has kept to the lines behind its scanner: the buffer of read is the page; the ring of tail
holds the last lines of what was scanned, and none that may have begun in front of its
window; the output of grep is that of the files behind it and of the lines scanned in
this one, unless a file was given up. Files only grow, so a line that was complete when it
was scanned is a line of the file ever after; most of the lemmas say how the lines of a
text change when text is added. `PagesAreComplete`, `CutsOnRunes`, `TailIsASuffix`,
`GrepIsComplete` and `FileTypes` follow.

**Jail** (`JailProofs`, for all names, file systems, symlinks, roots, requests and
bounds). `JailInv` says that the file system has a node for every path, that the roots
are paths, and of the last request what the three properties say of it; it is
inductive because a request is answered in one step and the file system does not change
before the tool has its answer. That `Request` establishes it rests on three groups of
lemmas. *Walks*: a step from a physical path leads to a physical path or ends with an
error, and every walk ends within `StepsLeft` steps. *The reference*: a walk that ends
without an error ends at the place that `RealLoc` gives, and one that finds nothing is
at a path without a place (`EvalSymlinksFinds`), by induction on the symlinks that may
still be followed and, below it, on the names still to walk; hence the parents that
`resolveExisting` tries have a place exactly as long as they exist (`ExistingParent`).
*Strings*: the prefix test of `contains` on the strings of two paths holds exactly if one
lies below the other name by name (`ContainsInside`), because no name is empty or has a
separator in it. `JailHolds`, `JailIsExact` and `JailHidesOutside` follow.

**Lexer** (`QueryProofs`, for all texts of any length, alphabets, letters and keywords).
`LexInv` says only that the text was typed; the rest is about functions of the text.
At every position that is not blank the token taken is the longest lexeme there
(`TokenIs`), one lemma for each kind. *Numbers*: the mantissa that scanning finds is the
longest stretch of digits with one point, an exponent without digits leaves no longer
lexeme, and what is refused is what the reference refuses (`NumberToken`). *Strings*: at
each round an even run of quotes lies in front of the position, every quote behind the
first belongs to a pair, and the text decoded is that of the characters kept
(`Reading`, `StringRound`); so the loop stops at the one quote that can close the string,
or behind the text (`StringToken`). *Words, operators and punctuation* by their first
character, which is of one kind only (`CharKinds`). The two loops then take the same
rounds (`SameRound`) and `LexerExact` follows.

**NOT** (`QueryProofs`, for every predicate the grammar allows, any values and any row).
The builder has no NOT, so `buildCond` turns every predicate below one into its opposite.
`NegationIsPushedDown`: the opposite has the negated truth value, and is unknown where the
predicate is: for the comparisons, those that become tests with `IS` and those with a NULL
column apart; for IN, where NULL among the values makes both sides unknown, because the
least of negated truth values is the negation of the greatest; for BETWEEN by De Morgan's
laws, under which AND and OR change places too. With it, that pushing a NOT down through
a whole condition keeps its meaning is an induction over the condition, which TLC does
on small ones as a part of `QueryMeans`.

**Induction over data.** The provers cannot use the library's induction theorems, which
take a predicate. Where a fact about every number is needed (the least and greatest
element of a set of integers, what joining sequences yields, where a walk over symlinks
ends, what the rounds of `lexString` have read), it is proved by a least
counterexample: the set of counterexamples is a set of naturals, and `WFMin` gives it a
minimal element.

**Assumptions.** The theorems rest on the ASSUMEs of their components, which TLC
evaluates in the runs: the constants have their types, `MaxConns` and the limits are
positive, the initial backoff does not exceed the maximal one, sentinels are not values,
handlers and tables are finitely many, a mount table begins with the root, which is above
every mount point, and no file system in it has more free blocks than blocks, `/proc` lists a number once, a directory that is
searched has a file; a file name is not empty, is not `..` and has no `/` in it, and
symlinks, roots and requests are paths of such names; a letter is not a digit, blank or
any other character of the query language.

Only model-checked: liveness (fairness and ENABLED are out of the prover's reach);
`QueryMeans`, `ParsesExactly` and `ResolvedExactly` of `Sqlq`: the parse functions are
recursive operators that call each other, and what they compute on every input is an
induction over data with the recursion's own result in the hypothesis; and so is the
induction over a condition that leads from `NegationIsPushedDown` to the whole of it.

## 5. Findings

* `call_timeout`: "callTimeout bounds the whole dial/write/read round trip"
  (`client.go:17`), but the deadline is set after `tls.Dial` has returned, so a
  client behind a hung tool on a server with `--timeout 0` waits for ever.
* `grep_overlong`: "scanLineCap is the maximum line length the line scanners accept
  before erroring" (`util.go:9`), but grep does not ask for the scanner's error and
  silently skips the rest of such a file.
* `sql_limit_zero`: "sqlMaxLimit is the hard cap on the row limit regardless of the
  query's own LIMIT" (`tool_sql.go:77`), but `LIMIT 0` reaches goqu as `Limit(0)`,
  which clears the clause, and the statement has no limit. This rests on goqu v9's
  behaviour, which is not part of this repository.

Not findings, but worth knowing:

* When the lines asked for do not fit `tail`'s window, fewer come back without a mark;
  the comment at `tool_tail.go:125` says so.
* The statements of one request "share one snapshot" (`catalog.go:20-22`) only on an
  engine whose default isolation level gives a transaction one; PostgreSQL's READ
  COMMITTED does not, and `BeginTx` asks for no level. `SqlTool` shows what holds
  nevertheless.
* list and ps say nothing of what they cannot look up. A directory that may be read but
  not searched gives an empty listing without a mark (`tool_list.go:132-135`), and ps
  leaves out every process whose stat cannot be read, though the comment at
  `tool_ps.go:105` names only one reason ("process exited between listing and reading").
* tail and grep drop the carriage return at the end of a line.
* Of two file systems at one mount point disk shows the device of the first with the
  usage of the one on top.
* A row of ps may show the status and command line of a process that has taken over
  the number of the one whose stat was read.

## 6. Not modelled

JSON text, TLS and token generation, the column layout of every tool, `unescapeMount`
and `humanBytes`, the parsing of a line of `/proc`, the form of an address and of the
`RPEEK_DB_` variables, what the flag package makes of an argument list (one of three
outcomes), `parseNumber`'s values, the text of the engines' introspection SQL and the
hardening of a DSN: data and formatting without state or order. The directory walk of
grep is a given sequence of files. What `stat`, `hostname`, `version` and `help` print is
one system call or compiled-in text.

## 7. Plan

Done, in this order: `RequestService` and `Server` with safety, liveness, refinement
and proofs; `ServeTool`; `RoundTrip`; `Jail`; `FileTools`; `ListTool` with proofs;
`Sqlq`; `SqlTool` with proofs; `HostTools`; the command line in `RoundTrip`; `Lexer`;
proofs about `ServeTool`, `RoundTrip`, `AnswersTrue` of `SqlTool`, `HostTools`,
`FileTools`, `Jail` and `Lexer`, and about the predicates of `Conditions`.

Next: name resolution of `Sqlq` in a module without recursive operators, so that
`ResolvedExactly` can be proved as well.
