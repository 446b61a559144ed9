------------------------------ MODULE HostTools ------------------------------
(***************************************************************************)
(* The tools that look at the host as a whole (internal/tools): ps reads   *)
(* /proc entry by entry and file by file, disk asks for the usage of each  *)
(* line of /proc/mounts, journal collects what a journalctl child writes.  *)
(* Processes come and go, numbers of processes are used again, and file    *)
(* systems are mounted and unmounted while a tool runs; what it reads of   *)
(* one of them may fail at any time.                                       *)
(***************************************************************************)
EXTENDS ToolUtil, SequencesExt

CONSTANTS
  DirOrder,    \* the process numbers in the order of ReadDir, that of their decimals
  Self,        \* os.Getpid()
  Bare,        \* those without a command line: kernel threads, zombies
  PsMaxProcs,  \* psMaxProcs
  MaxBirths,   \* bound on the processes that start, or the file systems that are
               \* mounted, during a request
  MountTables, \* contents of /proc/mounts: sequences of [dev, point, pseudo, use]
  Enclosing,   \* by mount point: itself and the mount points above it
  Chunks,      \* what journalctl writes at once
  MaxWritten,  \* bound on what it writes in all, in bytes
  OutputCaps   \* the values of Limits.MaxOutput for journal

Pids == ToSet(DirOrder)

\* The lines of /proc/mounts, and the bytes that journalctl writes.
MountLines == UNION {ToSet(t) : t \in MountTables}
Bytes == UNION {ToSet(c) : c \in Chunks}

ASSUME HostToolsAssumption ==
  /\ DirOrder \in Seq(Nat) /\ IsInjective(DirOrder)
  /\ Self \in Pids /\ Bare \subseteq Pids \ {Self}
  /\ PsMaxProcs \in Nat \ {0}
  /\ MaxBirths \in Nat /\ MaxWritten \in Nat
  /\ Chunks \subseteq Seq(Bytes) /\ OutputCaps \subseteq Int

\* The root is mounted first, and above all. No file system has more free blocks than
\* blocks.
ASSUME MountAssumption ==
  /\ MountTables \subseteq Seq(MountLines) \ {<<>>}
  /\ \A m \in MountLines :
       /\ m.pseudo \in BOOLEAN
       /\ m.point \in Enclosing[m.point]
       /\ \A t \in MountTables : t[1].point \in Enclosing[m.point]
       /\ m.use.blocks \in Nat /\ m.use.bfree \in 0..m.use.blocks /\ m.use.bavail \in Nat

VARIABLES
  procs,    \* the process behind each number, as the how-manieth to have it; 0 if none
  births,   \* how many processes or file systems are new since the request
  mounts,   \* /proc/mounts
  maxOut,   \* Limits.MaxOutput
  task,     \* the tool that runs
  step,     \* where it is
  queue,    \* the entries of /proc or lines of /proc/mounts still to come
  row,      \* the row of ps that is being read
  table,    \* the rows so far
  points,   \* disk's map of mount points it has seen
  cut,      \* ps: psMaxProcs was hit; journal: bytes were dropped
  stdout,   \* the bytes the capWriter holds
  reply,    \* the Result or error
  lived,    \* history: the processes of this request, as <<number, how-manieth>>
  stayed,   \* history: those that have been there all the time, and whose stat could
            \* be read; for disk, the file systems that have, in sight and alone at
            \* their mount points, and answered
  written   \* history: all that the child has written

worldVars == <<procs, births, mounts, maxOut>>
history == <<lived, stayed, written>>
hostVars == <<worldVars, task, step, queue, row, table, points, cut, stdout, reply, history>>

NoRow == [pid |-> 0]
NoReply == [err |-> "none", rows |-> <<>>, text |-> <<>>, truncated |-> FALSE]
Error(e) == [NoReply EXCEPT !.err = e]

HostInit ==
  /\ procs \in [Pids -> {0, 1}]
  /\ procs[Self] = 1
  /\ births = 0
  /\ mounts \in MountTables
  /\ maxOut \in OutputCaps
  /\ task = "none"
  /\ step = "idle"
  /\ queue = <<>>
  /\ row = NoRow
  /\ table = <<>>
  /\ points = {}
  /\ cut = FALSE
  /\ stdout = <<>>
  /\ reply = NoReply
  /\ lived = {}
  /\ stayed = {}
  /\ written = <<>>

Alive == {<<p, procs[p]>> : p \in {q \in Pids : procs[q] # 0}}

\* The tool returns r.
Replies(r) ==
  /\ step' = "done"
  /\ reply' = r
  /\ queue' = <<>>
  /\ UNCHANGED <<worldVars, task, row, table, points, cut, stdout, history>>

\* The first k rows are what is left of a table by capOutput, for rows are of any
\* length.
RepliesTable(rows, truncated, k) ==
  Replies([NoReply EXCEPT !.rows = SubSeq(rows, 1, k), !.truncated = truncated \/ k < Len(rows)])

Starts(tool, first, entries, stay) ==
  /\ task = "none"
  /\ task' = tool
  /\ step' = first
  /\ queue' = entries
  /\ lived' = Alive
  /\ stayed' = stay
  /\ UNCHANGED <<worldVars, row, table, points, cut, stdout, reply, written>>

\* /proc, /proc/mounts or journalctl is not to be had, or a unit name is invalid.
StartError(tool) ==
  /\ task = "none"
  /\ task' = tool
  /\ step' = "done"
  /\ reply' = Error("unavailable")
  /\ UNCHANGED <<worldVars, queue, row, table, points, cut, stdout, history>>

-----------------------------------------------------------------------------
(***************************************************************************)
(* ps                                                                      *)
(***************************************************************************)

\* os.ReadDir("/proc").
Listing ==
  LET there == {i \in DOMAIN DirOrder : procs[DirOrder[i]] # 0}
  IN  [k \in 1..Cardinality(there) |-> DirOrder[Nth(there, k)]]

PsStarts == Starts("ps", "entry", Listing, Alive)

AtEntry(tool) == task = tool /\ step = "entry" /\ queue # <<>>

MutantPsFull ==
  /\ AtEntry("ps")
  /\ Len(table) >= PsMaxProcs
  /\ queue' = <<>>
  /\ UNCHANGED <<worldVars, task, step, row, table, points, cut, stdout, reply, history>>

\* One process more than ps returns.
PsFull ==
  /\ AtEntry("ps")
  /\ Len(table) >= PsMaxProcs
  /\ cut' = TRUE
  /\ queue' = <<>>
  /\ UNCHANGED <<worldVars, task, step, row, table, points, stdout, reply, history>>

\* /proc/<pid>/stat is read.
PsStat ==
  /\ AtEntry("ps")
  /\ Len(table) < PsMaxProcs
  /\ procs[Head(queue)] # 0
  /\ queue' = Tail(queue)
  /\ row' = [pid |-> Head(queue), stat |-> procs[Head(queue)]]
  /\ step' = "status"
  /\ UNCHANGED <<worldVars, task, table, points, cut, stdout, reply, history>>

\* /proc/<pid>/stat gives nothing: the process has exited, its file may not or cannot be
\* read (hidepid, no free descriptor), or its line makes no sense. It is skipped, and
\* nothing marks it.
PsStatFails ==
  /\ AtEntry("ps")
  /\ Len(table) < PsMaxProcs
  /\ queue' = Tail(queue)
  /\ stayed' = stayed \ {<<Head(queue), procs[Head(queue)]>>}
  /\ UNCHANGED <<worldVars, task, step, row, table, points, cut, stdout, reply, lived, written>>

\* /proc/<pid>/status: the user and the size; 0 stands for the "?" of a process that has
\* exited, of a file that cannot be read or of one without a user.
PsStatus ==
  /\ task = "ps"
  /\ step = "status"
  /\ \E status \in {0, procs[row.pid]} :
       row' = [pid |-> row.pid, stat |-> row.stat, status |-> status]
  /\ step' = "cmdline"
  /\ UNCHANGED <<worldVars, task, queue, table, points, cut, stdout, reply, history>>

\* /proc/<pid>/cmdline; 0 stands for the name in brackets that stat gave, if there is no
\* command line or it cannot be read. The server shows itself without its arguments.
PsCmdline ==
  /\ task = "ps"
  /\ step = "cmdline"
  /\ \E cmd \in IF row.pid = Self THEN {procs[Self]}
                ELSE {0, IF row.pid \in Bare THEN 0 ELSE procs[row.pid]} :
       table' = Append(table, [pid |-> row.pid, stat |-> row.stat, status |-> row.status,
                               cmd |-> cmd, args |-> cmd # 0 /\ row.pid # Self])
  /\ row' = NoRow
  /\ step' = "entry"
  /\ UNCHANGED <<worldVars, task, queue, points, cut, stdout, reply, history>>

\* The rows sorted by number.
ByPid(rows) ==
  LET pids == {r.pid : r \in ToSet(rows)}
  IN  [k \in 1..Len(rows) |-> CHOOSE r \in ToSet(rows) : r.pid = Nth(pids, k)]

\* The rows are sorted and printed.
PsEnds(k) ==
  /\ task = "ps"
  /\ step = "entry"
  /\ queue = <<>>
  /\ RepliesTable(ByPid(table), cut, k)

-----------------------------------------------------------------------------
(***************************************************************************)
(* disk                                                                    *)
(***************************************************************************)

\* The file system that statfs finds at a mount point: the one mounted last there or on
\* a directory above it.
StatfsAt(point) == mounts[Max({i \in DOMAIN mounts : mounts[i].point \in Enclosing[point]})]

\* The only file system at its mount point, not hidden by one mounted above it later.
Alone(m) == StatfsAt(m.point) = m /\ \A n \in ToSet(mounts) : n.point = m.point => n = m

\* os.ReadFile("/proc/mounts").
DiskStarts == Starts("disk", "entry", mounts, {m \in ToSet(mounts) : Alone(m)})

Total(u) == u.blocks
Used(u) == u.blocks - u.bfree

UsePct(u) ==
  LET all == Used(u) + u.bavail
  IN  IF all > 0 THEN (Used(u) * 100 + all \div 2) \div all ELSE 0

\* A line is skipped: no real storage, or its mount point was seen before.
Skipped(line) == line.pseudo \/ line.point \in points

DiskSkips ==
  /\ AtEntry("disk")
  /\ Skipped(Head(queue))
  /\ queue' = Tail(queue)
  /\ UNCHANGED <<worldVars, task, step, row, table, points, cut, stdout, reply, history>>

MutantDiskLine ==
  LET line == Head(queue)
      fs == StatfsAt(line.point)
  IN  /\ AtEntry("disk")
      /\ ~line.pseudo
      /\ queue' = Tail(queue)
      /\ table' = IF Total(fs.use) = 0 THEN table
                  ELSE Append(table, [dev |-> line.dev, point |-> line.point,
                                      fs |-> fs.dev, pct |-> UsePct(fs.use)])
      /\ UNCHANGED <<worldVars, task, step, row, points, cut, stdout, reply, history>>

\* A line of the table, for a file system with a size.
DiskLine ==
  LET line == Head(queue)
      fs == StatfsAt(line.point)
  IN  /\ AtEntry("disk")
      /\ ~Skipped(line)
      /\ queue' = Tail(queue)
      /\ points' = points \cup {line.point}
      /\ table' = IF Total(fs.use) = 0 THEN table
                  ELSE Append(table, [dev |-> line.dev, point |-> line.point,
                                      fs |-> fs.dev, pct |-> UsePct(fs.use)])
      /\ UNCHANGED <<worldVars, task, step, row, cut, stdout, reply, history>>

\* statfs fails: the directory has gone or may not be entered, or the device or the
\* server behind it is gone.
DiskStatfsFails ==
  LET line == Head(queue)
  IN  /\ AtEntry("disk")
      /\ ~Skipped(line)
      /\ queue' = Tail(queue)
      /\ points' = points \cup {line.point}
      /\ stayed' = stayed \ {line}
      /\ UNCHANGED <<worldVars, task, step, row, table, cut, stdout, reply, lived, written>>

DiskEnds(k) ==
  /\ task = "disk"
  /\ step = "entry"
  /\ queue = <<>>
  /\ RepliesTable(table, FALSE, k)

-----------------------------------------------------------------------------
(***************************************************************************)
(* journal                                                                 *)
(***************************************************************************)

\* journalctl is started.
JournalStarts == Starts("journal", "child", <<>>, {})

MutantStdoutCap == maxOut

\* A rune more than the output, "so the eventual capOutput can trim on a rune boundary".
StdoutCap == IF maxOut >= 0 THEN maxOut + UTFMax ELSE maxOut

\* The child writes to the capWriter, which takes all and keeps what fits.
ChildWrites(chunk) ==
  LET w == capWrite(stdout, chunk, StdoutCap)
  IN  /\ step = "child"
      /\ Len(written) + Len(chunk) <= MaxWritten
      /\ stdout' = w[1]
      /\ cut' = (cut \/ w[2])
      /\ written' = written \o chunk
      /\ UNCHANGED <<worldVars, task, step, queue, row, table, points, reply, lived, stayed>>

\* cmd.Run returns: the child has exited with success.
ChildExits ==
  LET capped == capOutput(stdout, maxOut)
  IN  /\ step = "child"
      /\ Replies([NoReply EXCEPT !.text = capped[1], !.truncated = cut \/ capped[2]])

\* cmd.Run fails: a non-zero exit, whose output is not an answer.
ChildFails ==
  /\ step = "child"
  /\ Replies(Error("journalctl"))

\* The context ends: the child is killed, the loop of ps or disk left.
HostCtxDone ==
  /\ step = "child" \/ AtEntry("ps") \/ AtEntry("disk")
  /\ Replies(Error("context"))

-----------------------------------------------------------------------------
(***************************************************************************)
(* The host.                                                               *)
(***************************************************************************)

ProcExits(p) ==
  /\ task = "ps" /\ step # "done"
  /\ p # Self
  /\ procs[p] # 0
  /\ procs' = [procs EXCEPT ![p] = 0]
  /\ stayed' = stayed \ {<<p, procs[p]>>}
  /\ UNCHANGED <<births, mounts, maxOut, task, step, queue, row, table, points, cut, stdout,
                 reply, lived, written>>

\* A process starts, with a number that may have been another's.
ProcStarts(p) ==
  LET nth == 1 + Cardinality({l \in lived : l[1] = p})
  IN  /\ task = "ps" /\ step # "done"
      /\ procs[p] = 0
      /\ births < MaxBirths
      /\ births' = births + 1
      /\ procs' = [procs EXCEPT ![p] = nth]
      /\ lived' = lived \cup {<<p, nth>>}
      /\ UNCHANGED <<mounts, maxOut, task, step, queue, row, table, points, cut, stdout,
                     reply, stayed, written>>

\* A file system is mounted, but not on the root, and hides what is mounted there and
\* below.
NewMount(m) ==
  /\ task = "disk" /\ step # "done"
  /\ m.point # mounts[1].point
  /\ births < MaxBirths
  /\ births' = births + 1
  /\ mounts' = Append(mounts, m)
  /\ stayed' = {s \in stayed : m.point \notin Enclosing[s.point]}
  /\ UNCHANGED <<procs, maxOut, task, step, queue, row, table, points, cut, stdout, reply,
                 lived, written>>

\* A file system, but not the root, is unmounted; one with another mounted on it or
\* below is busy.
Unmount(i) ==
  /\ task = "disk" /\ step # "done"
  /\ i > 1
  /\ \A k \in (i + 1)..Len(mounts) : mounts[i].point \notin Enclosing[mounts[k].point]
  /\ mounts' = RemoveAt(mounts, i)
  /\ stayed' = stayed \ {mounts[i]}
  /\ UNCHANGED <<procs, births, maxOut, task, step, queue, row, table, points, cut, stdout,
                 reply, lived, written>>

HostNext ==
  \/ \E tool \in {"ps", "disk", "journal"} : StartError(tool)
  \/ PsStarts
  \/ PsFull
  \/ PsStat
  \/ PsStatFails
  \/ PsStatus
  \/ PsCmdline
  \/ DiskStarts
  \/ DiskSkips
  \/ DiskLine
  \/ DiskStatfsFails
  \/ \E k \in 0..Len(table) : PsEnds(k) \/ DiskEnds(k)
  \/ JournalStarts
  \/ \E chunk \in Chunks : ChildWrites(chunk)
  \/ ChildExits
  \/ ChildFails
  \/ HostCtxDone
  \/ \E p \in Pids : ProcExits(p) \/ ProcStarts(p)
  \/ \E m \in MountLines : NewMount(m)
  \/ \E i \in DOMAIN mounts : Unmount(i)

HostSpec == HostInit /\ [][HostNext]_hostVars

-----------------------------------------------------------------------------
(***************************************************************************)
(* Properties.                                                             *)
(***************************************************************************)

Answered(tool) == task = tool /\ step = "done" /\ reply.err = "none"

\* A snapshot of ps is in order, has every process that was there all the time and whose
\* stat could be read unless it is marked as truncated, shows it with its own user or
\* with "?", mixes no processes but those that had one number in turn, and never shows
\* the arguments of the server itself (tool_ps.go:58-183; a process whose stat cannot be
\* read is left out unmarked, 127-130).
PsSnapshot ==
  Answered("ps") =>
    LET rows == reply.rows
    IN  /\ \A i, k \in DOMAIN rows : i < k => rows[i].pid < rows[k].pid
        /\ reply.truncated \/ \A s \in stayed : \E i \in DOMAIN rows :
             rows[i].pid = s[1] /\ rows[i].stat = s[2] /\ rows[i].status \in {0, s[2]}
        /\ \A i \in DOMAIN rows :
             /\ <<rows[i].pid, rows[i].stat>> \in lived
             /\ {rows[i].status, rows[i].cmd} \subseteq {0} \cup {l[2] : l \in {m \in lived : m[1] = rows[i].pid}}
             /\ rows[i].pid = Self => ~rows[i].args
        /\ Len(rows) <= PsMaxProcs

\* The table of disk has no mount point twice. A file system with storage that stays, in
\* sight and alone at its mount point, and whose statfs does not fail, is missing only
\* from a table marked as truncated, and is shown with its own usage, a percentage
\* rounded to the nearest (tool_disk.go:57-113).
DiskTable ==
  Answered("disk") =>
    LET rows == reply.rows
        real == {m \in stayed : ~m.pseudo /\ Total(m.use) # 0}
    IN  /\ \A i, k \in DOMAIN rows : rows[i].point = rows[k].point => i = k
        /\ \A m \in real :
             LET mine == {i \in DOMAIN rows : rows[i].point = m.point}
                 all == Used(m.use) + m.use.bavail
                 off(i) == 2 * (rows[i].pct * all - 100 * Used(m.use))
             IN  /\ mine # {} \/ reply.truncated
                 /\ \A i \in mine :
                      /\ rows[i].dev = m.dev /\ rows[i].fs = m.dev
                      /\ rows[i].pct \in 0..100
                      /\ -all <= off(i) /\ off(i) <= all

\* An answer of journal is what a child that succeeded wrote, all of it unless it is
\* marked as truncated, and then as many whole runes as the cap allows; and never does
\* the server hold more than a rune beyond the cap (util.go:28-51,
\* tool_journal.go:96-127).
JournalHonest ==
  /\ maxOut >= 0 => Len(stdout) <= maxOut + UTFMax
  /\ Answered("journal") =>
       LET n == Len(reply.text)
       IN  /\ reply.text = SubSeq(written, 1, n)
           /\ reply.truncated <=> n < Len(written)
           /\ reply.truncated =>
                /\ n <= maxOut
                /\ n = 0 \/ written[n + 1] # Cont
                /\ \A k \in (n + 1)..maxOut : written[k + 1] = Cont
=============================================================================
