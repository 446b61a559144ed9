----------------------------- MODULE HostProofs -----------------------------
(***************************************************************************)
(* Proofs about ps, disk, journal and list, for any number of processes,   *)
(* any table of mounts, any output of journalctl, any directory and any    *)
(* cap.  HostInv and ListInv are inductive: they say of a tool at work     *)
(* what of the host it has read and what it is still to see.               *)
(***************************************************************************)
EXTENDS ListTool, HostTools, ToolUtilProofs

-----------------------------------------------------------------------------
(***************************************************************************)
(* The inductive invariants: what a tool at work has read so far, and what *)
(* of the host it is still to see.                                         *)
(***************************************************************************)

\* Before the request nothing is held.
Idle ==
  /\ queue = <<>> /\ table = <<>> /\ points = {} /\ cut = FALSE /\ reply = NoReply

\* What has been a process with number p, or none.
Ever(p) == {0} \cup {l[2] : l \in {m \in lived : m[1] = p}}

PsWorking ==
  LET listed == ToSet(queue)
      given == {table[i].pid : i \in DOMAIN table}
  IN
  /\ step \in {"entry", "status", "cmdline"}
  /\ Alive \subseteq lived /\ stayed \subseteq Alive
  /\ Len(table) <= PsMaxProcs /\ table \in Seq(ToSet(table))
  /\ queue \in Seq(Pids) /\ IsInjective(queue)
  /\ \A i, k \in DOMAIN table : table[i].pid = table[k].pid => i = k
  /\ given \subseteq Pids \ listed
  /\ \A r \in ToSet(table) :
       /\ <<r.pid, r.stat>> \in lived /\ r.status \in Ever(r.pid) /\ r.cmd \in Ever(r.pid)
       /\ r.pid = Self => ~r.args
       /\ \A s \in stayed : s[1] = r.pid => r.stat = s[2] /\ r.status \in {0, s[2]}
  /\ step # "entry" =>
       /\ Len(table) < PsMaxProcs
       /\ row.pid \in Pids \ (listed \cup given)
       /\ <<row.pid, row.stat>> \in lived
       /\ \A s \in stayed : s[1] = row.pid => row.stat = s[2]
  /\ step = "cmdline" =>
       /\ row.status \in Ever(row.pid)
       /\ \A s \in stayed : s[1] = row.pid => row.status \in {0, s[2]}
  /\ cut \/ \A s \in stayed :
       s[1] \in listed \cup given \cup (IF step = "entry" THEN {} ELSE {row.pid})

\* The file system m is mounted, and none is later at its mount point or above it.
InSight(m) ==
  \E c \in 1..Len(mounts) :
    mounts[c] = m /\ \A k \in (c + 1)..Len(mounts) : mounts[k].point \notin Enclosing[m.point]

DiskWorking ==
  /\ step = "entry"
  /\ queue \in Seq(MountLines)
  /\ table \in Seq(ToSet(table))
  /\ \A i, k \in DOMAIN table : table[i].point = table[k].point => i = k
  /\ \A r \in ToSet(table) : r.point \in points
  /\ \A m \in stayed :
       /\ m \in MountLines /\ InSight(m)
       /\ \A l \in ToSet(queue) : l.point = m.point => l = m
       /\ \A r \in ToSet(table) : r.point = m.point =>
            r.dev = m.dev /\ r.fs = m.dev /\ r.pct = UsePct(m.use)
       /\ \/ m.pseudo \/ Total(m.use) = 0
          \/ m \in ToSet(queue) /\ m.point \notin points
          \/ \E r \in ToSet(table) : r.point = m.point

JournalWorking ==
  /\ step = "child"
  /\ Len(stdout) <= Len(written) /\ \A i \in DOMAIN stdout : stdout[i] = written[i]
  /\ cut <=> Len(stdout) < Len(written)
  /\ cut => Len(stdout) = StdoutCap

\* A tool at work has read what is there, and one that has answered told it.
HostInv ==
  /\ task \in {"none", "ps", "disk", "journal"}
  /\ DOMAIN procs = Pids /\ mounts \in Seq(MountLines) \ {<<>>} /\ maxOut \in Int
  /\ cut \in BOOLEAN /\ stdout \in Seq(Bytes) /\ written \in Seq(Bytes)
  /\ task # "journal" => stdout = <<>> /\ written = <<>>
  /\ task = "none" => Idle
  /\ step # "done" =>
       /\ task = "ps" => PsWorking
       /\ task = "disk" => DiskWorking
       /\ task = "journal" => JournalWorking
  /\ step = "child" => task = "journal"
  /\ PsSnapshot /\ DiskTable /\ JournalHonest

\* While the directory is read, an entry that stays is read or still to come; from
\* then on it has been read, and each name is handed over once.
ScanInv ==
  /\ seen \cap unread = {}
  /\ pc = "idle" => seen = {} /\ unread = {} /\ steady = {}
  /\ pc = "scan" => steady \cap Shown \subseteq seen \cup unread
  /\ pc \in {"print", "done"} => steady \cap Shown \subseteq seen

\* What is printed is kept, in order and in front of what is still to be printed;
\* of the kept names only those whose Lstat failed, or that the output cap cut off behind
\* the others, are missing.
PrintInv ==
  /\ pc \in {"idle", "scan"} => out = <<>> /\ todo = {}
  /\ Printed \subseteq kept
  /\ \A i \in DOMAIN out : \A y \in todo : out[i] < y
  /\ \A i, k \in DOMAIN out : i < k => out[i] < out[k]
  /\ pc = "print" => kept \cap steady \subseteq todo \cup Printed
  /\ pc = "done" => todo = {}
  /\ pc = "done" => \A n \in (kept \cap steady) \ Printed :
                      capTrunc /\ \A x \in Printed : x < n

ListInv == TypeOK /\ HeapIsPrefix /\ ScanInv /\ PrintInv

-----------------------------------------------------------------------------
\* The table t is the table s with the row e added to it.
Extended(t, s, e) ==
  /\ t \in Seq(ToSet(t))
  /\ ToSet(t) = ToSet(s) \cup {e}
  /\ Len(s) \in Nat /\ Len(t) = Len(s) + 1
  /\ DOMAIN s = 1..Len(s) /\ DOMAIN t = 1..(Len(s) + 1)
  /\ t[Len(s) + 1] = e
  /\ \A i \in 1..Len(s) : t[i] = s[i]

\* What appending a row does.
LEMMA Appended ==
  ASSUME NEW s, s \in Seq(ToSet(s)), NEW e, NEW t, t = Append(s, e)
  PROVE  Extended(t, s, e)
<1> DEFINE T == ToSet(s) \cup {e}
<1>1. s \in Seq(T) /\ e \in T
  OBVIOUS
<1> HIDE DEF T
<1>2. /\ t \in Seq(T)
      /\ Len(s) \in Nat /\ Len(t) = Len(s) + 1
      /\ DOMAIN s = 1..Len(s) /\ DOMAIN t = 1..(Len(s) + 1)
      /\ t[Len(s) + 1] = e
      /\ \A i \in 1..Len(s) : t[i] = s[i]
  BY <1>1
<1>3. ToSet(t) = T
  BY <1>2 DEF ToSet, T
<1> QED
  BY <1>2, <1>3 DEF T, Extended

\* The directory lists every process once.
LEMMA ListingOf ==
  ASSUME HostInv
  PROVE  /\ Listing \in Seq(Pids)
         /\ IsInjective(Listing)
         /\ ToSet(Listing) = {p \in Pids : procs[p] # 0}
<1> DEFINE there == {i \in DOMAIN DirOrder : procs[DirOrder[i]] # 0}
           c == Cardinality(there)
<1>1. /\ DirOrder \in Seq(Nat) /\ Len(DirOrder) \in Nat /\ DOMAIN DirOrder = 1..Len(DirOrder)
      /\ \A i, j \in DOMAIN DirOrder : DirOrder[i] = DirOrder[j] => i = j
      /\ Pids = {DirOrder[i] : i \in DOMAIN DirOrder}
  BY HostToolsAssumption DEF IsInjective, Pids, ToSet
<1>2. there \in SUBSET Int /\ IsFiniteSet(there)
  <2>1. there \in SUBSET (1..Len(DirOrder))
    BY <1>1
  <2>2. IsFiniteSet(1..Len(DirOrder))
    BY <1>1, FS_Interval
  <2> QED
    BY <2>1, <2>2, FS_Subset
<1>3. /\ c \in Nat
      /\ \A k \in 1..c : Nth(there, k) \in there
      /\ \A j, k \in 1..c : j < k => Nth(there, j) < Nth(there, k)
      /\ \A n \in there : \E k \in 1..c : n = Nth(there, k)
  BY <1>2, NthOf
<1>4. Listing = [k \in 1..c |-> DirOrder[Nth(there, k)]]
  BY DEF Listing
<1> HIDE DEF c
<1>5. ASSUME NEW j \in 1..c, NEW k \in 1..c, Nth(there, j) = Nth(there, k) PROVE j = k
  <2>1. Nth(there, j) \in Int /\ Nth(there, k) \in Int
    BY <1>2, <1>3
  <2>2. ~(j < k) /\ ~(k < j)
    BY <1>3, <1>5, <2>1
  <2> QED
    BY <2>2
<1>6. \A k \in 1..c : Listing[k] = DirOrder[Nth(there, k)] /\ Listing[k] \in Pids
  BY <1>1, <1>3, <1>4
<1>7. Listing \in Seq(Pids)
  <2>1. \E f : Listing = [k \in 1..c |-> f[k]]
    BY <1>4, <1>6
  <2>2. Listing \in [1..c -> Pids]
    BY <1>6, <2>1
  <2>3. c \in Nat
    BY <1>3
  <2> QED
    BY <2>2, <2>3
<1>8. IsInjective(Listing)
  BY <1>1, <1>3, <1>4, <1>5, <1>6 DEF IsInjective
<1>9. ToSet(Listing) = {p \in Pids : procs[p] # 0}
  <2>1. ToSet(Listing) = {Listing[k] : k \in 1..c}
    BY <1>4 DEF ToSet
  <2>2. \A k \in 1..c : Listing[k] \in Pids /\ procs[Listing[k]] # 0
    BY <1>3, <1>6
  <2>3. ASSUME NEW p \in Pids, procs[p] # 0 PROVE \E k \in 1..c : p = Listing[k]
    <3>1. PICK i \in there : p = DirOrder[i]
      BY <1>1, <2>3
    <3> QED
      BY <1>3, <1>6, <3>1
  <2> QED
    BY <2>1, <2>2, <2>3
<1> QED
  BY <1>7, <1>8, <1>9

\* The rows of ps, which have different numbers, are all there in order.
LEMMA ByPidSorts ==
  ASSUME NEW rows, rows \in Seq(ToSet(rows)), \A i \in DOMAIN rows : rows[i].pid \in Nat,
         \A i, k \in DOMAIN rows : rows[i].pid = rows[k].pid => i = k
  PROVE  /\ ByPid(rows) \in Seq(ToSet(rows)) /\ Len(ByPid(rows)) = Len(rows)
         /\ \A i, k \in 1..Len(rows) : i < k => ByPid(rows)[i].pid < ByPid(rows)[k].pid
         /\ \A r \in ToSet(rows) : \E k \in 1..Len(rows) : ByPid(rows)[k] = r
<1> DEFINE n == Len(rows)
           pids == {r.pid : r \in ToSet(rows)}
           key == [i \in 1..n |-> rows[i].pid]
<1>1. n \in Nat /\ DOMAIN rows = 1..n /\ ToSet(rows) = {rows[i] : i \in 1..n}
  BY DEF ToSet
<1>2. pids \in SUBSET Int
  BY <1>1
<1>3. key \in Bijection(1..n, pids)
  BY <1>1 DEF Bijection, Injection, Surjection, IsInjective
<1>4. IsFiniteSet(pids) /\ Cardinality(pids) = n
  <2> HIDE DEF n, key, pids
  <2>1. IsFiniteSet(1..n) /\ Cardinality(1..n) = n
    BY <1>1, FS_Interval
  <2>2. ExistsBijection(1..n, pids)
    BY <1>3 DEF ExistsBijection
  <2> QED
    BY <2>1, <2>2, FS_Bijection
<1>5. /\ \A k \in 1..n : Nth(pids, k) \in pids
      /\ \A j, k \in 1..n : j < k => Nth(pids, j) < Nth(pids, k)
      /\ \A m \in pids : \E k \in 1..n : m = Nth(pids, k)
  BY <1>2, <1>4, NthOf
<1>6. ByPid(rows) = [k \in 1..n |-> CHOOSE r \in ToSet(rows) : r.pid = Nth(pids, k)]
  BY DEF ByPid
<1>7. ASSUME NEW k \in 1..n PROVE ByPid(rows)[k] \in ToSet(rows) /\ ByPid(rows)[k].pid = Nth(pids, k)
  <2>1. \E r \in ToSet(rows) : r.pid = Nth(pids, k)
    BY <1>5
  <2> QED
    BY <1>6, <2>1
<1>8. ASSUME NEW r \in ToSet(rows) PROVE \E k \in 1..n : ByPid(rows)[k] = r
  <2>1. PICK k \in 1..n : r.pid = Nth(pids, k)
    BY <1>5
  <2>2. ByPid(rows)[k].pid = r.pid /\ ByPid(rows)[k] \in ToSet(rows)
    BY <1>7, <2>1
  <2>3. \A x, y \in ToSet(rows) : x.pid = y.pid => x = y
    BY <1>1
  <2>4. ByPid(rows)[k] = r
    BY <2>2, <2>3
  <2> QED
    BY <2>4
<1> HIDE DEF pids
<1>9. ByPid(rows) \in Seq(ToSet(rows)) /\ Len(ByPid(rows)) = n
  <2>1. \E f : ByPid(rows) = [k \in 1..n |-> f[k]]
    BY <1>6
  <2>2. ByPid(rows) \in [1..n -> ToSet(rows)]
    BY <1>7, <2>1
  <2>3. n \in Nat
    BY <1>1
  <2> HIDE DEF n
  <2> QED
    BY <2>2, <2>3
<1>10. \A i, k \in 1..n : i < k => ByPid(rows)[i].pid < ByPid(rows)[k].pid
  BY <1>5, <1>7
<1> QED
  BY <1>8, <1>9, <1>10

\* The percentage of disk is between 0 and 100, and the nearest to the true one.
LEMMA Percentage ==
  ASSUME NEW u, u.blocks \in Nat, u.bfree \in 0..u.blocks, u.bavail \in Nat
  PROVE  LET whole == Used(u) + u.bavail
             off == 2 * (UsePct(u) * whole - 100 * Used(u))
         IN  UsePct(u) \in 0..100 /\ -whole <= off /\ off <= whole
<1> DEFINE used == Used(u)
           whole == used + u.bavail
           half == whole \div 2
           q == (used * 100 + half) \div whole
<1>1. used \in Nat /\ whole \in Nat /\ used <= whole
  BY DEF Used
<1>2. CASE whole = 0
  BY <1>1, <1>2 DEF UsePct
<1>3. CASE whole # 0
  <2>1. UsePct(u) = q
    BY <1>1, <1>3 DEF UsePct
  <2> HIDE DEF used, whole
  <2>2. half \in Nat /\ 2 * half <= whole /\ whole <= 2 * half + 1
    BY <1>1
  <2> HIDE DEF half
  <2>3. q \in Nat /\ q * whole <= used * 100 + half /\ used * 100 + half < q * whole + whole
    BY <1>1, <1>3, <2>2
  <2>4. q <= 100
    BY <1>1, <1>3, <2>2, <2>3
  <2> HIDE DEF q
  <2>5. q * whole \in Nat
    BY <1>1, <2>3
  <2> DEFINE p == q * whole
  <2>6. p \in Nat /\ p <= used * 100 + half /\ used * 100 + half < p + whole
    BY <2>3, <2>5
  <2> HIDE DEF p
  <2>7. -whole <= 2 * (p - 100 * used) /\ 2 * (p - 100 * used) <= whole
    BY <1>1, <2>2, <2>6
  <2> QED
    BY <2>1, <2>3, <2>4, <2>7 DEF p, whole, used
<1> QED
  BY <1>2, <1>3

\* What is in front of what in s, but for line i, is so in left.
KeepsOrder(left, s, i) ==
  \A c \in 1..Len(s) : c # i =>
    \E d \in 1..Len(left) :
      left[d] = s[c] /\ \A k \in (d + 1)..Len(left) : \E j \in (c + 1)..Len(s) : left[k] = s[j]

\* Unmounting takes one line out of /proc/mounts, and leaves the others in order.
LEMMA Removed ==
  ASSUME NEW T, NEW s \in Seq(T), NEW i \in DOMAIN s, i > 1
  PROVE  RemoveAt(s, i) \in Seq(T) \ {<<>>} /\ KeepsOrder(RemoveAt(s, i), s, i)
<1> DEFINE n == Len(s)
           front == SubSeq(s, 1, i - 1)
           back == SubSeq(s, i + 1, n)
           left == front \o back
<1>1. n \in Nat /\ DOMAIN s = 1..n /\ i \in 2..n
  OBVIOUS
<1>2. front \in Seq(T) /\ Len(front) = i - 1 /\ \A j \in 1..(i - 1) : front[j] = s[j]
  BY <1>1
<1>3. back \in Seq(T) /\ Len(back) = n - i /\ \A j \in 1..(n - i) : back[j] = s[j + i]
  <2> HIDE DEF n, back
  <2>1. i + 1 \in Int /\ n \in Int /\ \A j \in (i + 1)..n : s[j] \in T
    BY <1>1
  <2>2. /\ SubSeq(s, i + 1, n) \in Seq(T)
        /\ Len(SubSeq(s, i + 1, n)) = IF i + 1 <= n THEN n - (i + 1) + 1 ELSE 0
        /\ \A j \in 1..(n - (i + 1) + 1) : SubSeq(s, i + 1, n)[j] = s[i + 1 + j - 1]
    BY <2>1, SubSeqProperties
  <2>3. \A j \in 1..(n - i) : j \in 1..(n - (i + 1) + 1) /\ i + 1 + j - 1 = j + i
    BY <1>1
  <2>4. (IF i + 1 <= n THEN n - (i + 1) + 1 ELSE 0) = n - i
    BY <1>1
  <2> QED
    BY <2>2, <2>3, <2>4 DEF back
<1>4. RemoveAt(s, i) = left
  BY DEF RemoveAt
<1> HIDE DEF n, front, back
<1>5. /\ left \in Seq(T) /\ Len(left) = n - 1 /\ DOMAIN left = 1..(n - 1)
      /\ \A j \in 1..(i - 1) : left[j] = s[j]
      /\ \A j \in i..(n - 1) : left[j] = s[j + 1]
  <2>1. left \in Seq(T) /\ Len(left) = n - 1
    <3>1. front \in Seq(T) /\ back \in Seq(T)
      BY <1>2, <1>3
    <3>2. left \in Seq(T) /\ Len(left) = Len(front) + Len(back)
      BY <3>1, ConcatProperties
    <3>3. (i - 1) + (n - i) = n - 1
      BY <1>1
    <3> QED
      BY <1>2, <1>3, <3>2, <3>3
  <2>2. \A j \in 1..(i - 1) : left[j] = front[j]
    BY <1>1, <1>2, <1>3
  <2>3. ASSUME NEW j \in i..(n - 1) PROVE left[j] = back[j - (i - 1)]
    BY <1>1, <1>2, <1>3
  <2>4. ASSUME NEW j \in i..(n - 1) PROVE back[j - (i - 1)] = s[j + 1]
    <3>1. j - (i - 1) \in 1..(n - i) /\ (j - (i - 1)) + i = j + 1
      BY <1>1
    <3> QED
      BY <1>3, <3>1
  <2> HIDE DEF left
  <2> QED
    BY <1>2, <2>1, <2>2, <2>3, <2>4
<1> HIDE DEF left
<1>6. left # <<>>
  BY <1>1, <1>5
<1>7. ASSUME NEW c \in 1..n, c < i
      PROVE  /\ c \in 1..(n - 1) /\ left[c] = s[c]
             /\ \A k \in (c + 1)..(n - 1) : \E j \in (c + 1)..n : left[k] = s[j]
  <2>1. c \in 1..(i - 1) /\ c \in 1..(n - 1)
    BY <1>1, <1>7
  <2>2. ASSUME NEW k \in (c + 1)..(n - 1) PROVE \E j \in (c + 1)..n : left[k] = s[j]
    <3>1. CASE k < i
      <4>1. k \in 1..(i - 1) /\ k \in (c + 1)..n
        BY <1>1, <3>1
      <4> QED
        BY <1>5, <4>1
    <3>2. CASE ~(k < i)
      <4>1. k \in i..(n - 1) /\ k + 1 \in (c + 1)..n
        BY <1>1, <3>2
      <4> QED
        BY <1>5, <4>1
    <3> QED
      BY <3>1, <3>2
  <2> QED
    BY <1>5, <2>1, <2>2
<1>8. ASSUME NEW c \in 1..n, c > i
      PROVE  /\ c - 1 \in 1..(n - 1) /\ left[c - 1] = s[c]
             /\ \A k \in c..(n - 1) : \E j \in (c + 1)..n : left[k] = s[j]
  <2>1. c - 1 \in i..(n - 1) /\ c - 1 \in 1..(n - 1) /\ (c - 1) + 1 = c
    BY <1>1, <1>8
  <2>2. \A k \in c..(n - 1) : k \in i..(n - 1) /\ k + 1 \in (c + 1)..n
    BY <1>1, <1>8
  <2>3. left[c - 1] = s[(c - 1) + 1]
    BY <1>5, <2>1
  <2>4. \A k \in c..(n - 1) : \E j \in (c + 1)..n : left[k] = s[j]
    BY <1>5, <2>2
  <2> QED
    BY <2>1, <2>3, <2>4
<1>9. KeepsOrder(left, s, i)
  <2>1. ASSUME NEW c \in 1..n, c # i
        PROVE  \E d \in 1..(n - 1) :
                 left[d] = s[c] /\ \A k \in (d + 1)..(n - 1) : \E j \in (c + 1)..n : left[k] = s[j]
    <3>1. CASE c < i
      BY <1>7, <3>1
    <3>2. CASE c > i
      <4>1. (c - 1) + 1 = c
        BY <3>2
      <4> QED
        BY <1>8, <3>2, <4>1
    <3> QED
      BY <1>1, <2>1, <3>1, <3>2
  <2>2. Len(left) = n - 1 /\ Len(s) = n
    BY <1>5 DEF n
  <2>3. ASSUME NEW c \in 1..Len(s), c # i
        PROVE  \E d \in 1..Len(left) :
                 left[d] = s[c] /\ \A k \in (d + 1)..Len(left) : \E j \in (c + 1)..Len(s) : left[k] = s[j]
    BY <2>1, <2>2, <2>3
  <2> QED
    BY <2>3 DEF KeepsOrder
<1> QED
  BY <1>4, <1>5, <1>6, <1>9

-----------------------------------------------------------------------------
(***************************************************************************)
(* The steps.                                                              *)
(***************************************************************************)

\* The initial states satisfy the invariant.
LEMMA HostInvInit == HostInit => HostInv
<1> SUFFICES ASSUME HostInit PROVE HostInv
  OBVIOUS
<1>1. /\ task = "none" /\ step = "idle" /\ cut = FALSE /\ stdout = <<>> /\ written = <<>>
      /\ mounts \in Seq(MountLines) \ {<<>>} /\ maxOut \in Int /\ DOMAIN procs = Pids
  BY HostToolsAssumption, MountAssumption DEF HostInit
<1>2. Idle
  BY DEF HostInit, Idle
<1>3. stdout \in Seq(Bytes) /\ written \in Seq(Bytes) /\ (maxOut >= 0 => Len(stdout) <= maxOut + UTFMax)
  BY <1>1 DEF UTFMax
<1>4. PsSnapshot /\ DiskTable /\ JournalHonest
  BY <1>1, <1>3 DEF PsSnapshot, DiskTable, JournalHonest, Answered
<1> QED
  BY <1>1, <1>2, <1>3, <1>4 DEF HostInv

\* While a tool is at work, only what it and the child hold counts.
LEMMA AtWork ==
  ASSUME task' \in {"ps", "disk", "journal"}, step' # "done",
         step' = "child" => task' = "journal",
         DOMAIN procs' = Pids, mounts' \in Seq(MountLines) \ {<<>>}, maxOut' \in Int,
         cut' \in BOOLEAN, stdout' \in Seq(Bytes), written' \in Seq(Bytes),
         task' # "journal" => stdout' = <<>> /\ written' = <<>>,
         maxOut' >= 0 => Len(stdout') <= maxOut' + UTFMax,
         task' = "ps" => PsWorking',
         task' = "disk" => DiskWorking',
         task' = "journal" => JournalWorking'
  PROVE  HostInv'
<1>1. PsSnapshot' /\ DiskTable' /\ JournalHonest'
  BY DEF PsSnapshot, DiskTable, JournalHonest, Answered
<1> QED
  BY <1>1 DEF HostInv

\* A tool that has an answer returns it.
LEMMA Answers ==
  ASSUME HostInv, task # "none", NEW r, Replies(r),
         r.err # "none" \/ (PsSnapshot' /\ DiskTable' /\ JournalHonest')
  PROVE  HostInv'
<1>1. /\ step' = "done" /\ reply' = r
      /\ UNCHANGED <<procs, mounts, maxOut, task, cut, stdout, written>>
  BY DEF Replies, worldVars, history
<1>2. PsSnapshot' /\ DiskTable' /\ JournalHonest'
  <2>1. CASE r.err # "none"
    BY <1>1, <2>1 DEF HostInv, PsSnapshot, DiskTable, JournalHonest, Answered
  <2> QED
    BY <2>1
<1> QED
  BY <1>1, <1>2 DEF HostInv

\* journalctl is started.
LEMMA JournalStartsStep ==
  ASSUME HostInv, JournalStarts
  PROVE  HostInv'
<1>1. /\ task = "none" /\ task' = "journal" /\ step' = "child"
      /\ UNCHANGED <<procs, mounts, maxOut, cut, stdout, written>>
  BY DEF JournalStarts, Starts, worldVars
<1>2. cut = FALSE /\ stdout = <<>> /\ written = <<>>
  BY <1>1 DEF HostInv, Idle
<1>3. JournalWorking'
  BY <1>1, <1>2 DEF JournalWorking
<1> QED
  BY <1>1, <1>2, <1>3, AtWork DEF HostInv, JournalHonest

\* The capWriter keeps what the child wrote first.
LEMMA ChildWritesStep ==
  ASSUME HostInv, NEW chunk \in Chunks, ChildWrites(chunk)
  PROVE  HostInv'
<1> DEFINE room == StdoutCap - Len(stdout)
           w == capWrite(stdout, chunk, StdoutCap)
<1>1. /\ task = "journal" /\ task' = "journal" /\ step' = "child"
      /\ UNCHANGED <<procs, mounts, maxOut>>
      /\ stdout' = w[1] /\ cut' = (cut \/ w[2]) /\ written' = written \o chunk
  BY DEF HostInv, ChildWrites, worldVars
<1>2. /\ JournalWorking /\ stdout \in Seq(Bytes) /\ written \in Seq(Bytes) /\ maxOut \in Int
      /\ maxOut >= 0 => Len(stdout) <= maxOut + UTFMax
  BY <1>1 DEF HostInv, JournalHonest, ChildWrites
<1>3. chunk \in Seq(Bytes)
  BY HostToolsAssumption
<1>4. /\ StdoutCap \in Int /\ (StdoutCap < 0 <=> maxOut < 0) /\ StdoutCap' = StdoutCap
      /\ maxOut >= 0 => StdoutCap = maxOut + UTFMax
      /\ Len(stdout) \in Nat /\ Len(chunk) \in Nat /\ Len(written) \in Nat
      /\ ~(StdoutCap < 0) => room \in Nat
  BY <1>1, <1>2, <1>3 DEF StdoutCap, UTFMax
<1>5. /\ Len(stdout) <= Len(written) /\ \A i \in 1..Len(stdout) : stdout[i] = written[i]
      /\ cut <=> Len(stdout) < Len(written)
      /\ cut => Len(stdout) = StdoutCap
  BY <1>2 DEF JournalWorking
<1>6. /\ written' \in Seq(Bytes) /\ Len(written') = Len(written) + Len(chunk)
      /\ \A i \in 1..Len(written) : written'[i] = written[i]
      /\ \A i \in 1..Len(chunk) : written'[Len(written) + i] = chunk[i]
  BY <1>1, <1>2, <1>3
<1>7. JournalWorking' /\ stdout' \in Seq(Bytes) /\ cut' \in BOOLEAN
      /\ (maxOut >= 0 => Len(stdout') <= maxOut + UTFMax)
  <2>1. CASE StdoutCap < 0 \/ room >= Len(chunk)
    <3>1. stdout' = stdout \o chunk /\ cut' = cut
      BY <1>1, <2>1 DEF capWrite, HostInv
    <3>2. /\ stdout' \in Seq(Bytes) /\ Len(stdout') = Len(stdout) + Len(chunk)
          /\ \A i \in 1..Len(stdout) : stdout'[i] = stdout[i]
          /\ \A i \in 1..Len(chunk) : stdout'[Len(stdout) + i] = chunk[i]
      BY <1>2, <1>3, <3>1
    <3>3. maxOut >= 0 => Len(stdout') <= maxOut + UTFMax
      BY <1>2, <1>4, <2>1, <3>2
    <3>4. CASE cut
      <4>1. Len(chunk) = 0 /\ Len(stdout) = StdoutCap
        BY <1>4, <1>5, <2>1, <3>4
      <4>2. /\ Len(stdout') = Len(stdout) /\ Len(written') = Len(written)
            /\ DOMAIN stdout' = 1..Len(stdout)
        BY <1>4, <1>6, <3>2, <4>1
      <4>3. \A i \in 1..Len(stdout) : i \in 1..Len(written)
        BY <1>4, <1>5
      <4>4. \A i \in DOMAIN stdout' : stdout'[i] = written'[i]
        BY <1>5, <1>6, <3>2, <4>2, <4>3
      <4>5. JournalWorking'
        BY <1>1, <1>4, <1>5, <3>1, <3>4, <4>1, <4>2, <4>4 DEF JournalWorking
      <4> QED
        BY <3>1, <3>2, <3>3, <3>4, <4>5
    <3>5. CASE ~cut
      <4>1. Len(stdout) = Len(written)
        BY <1>4, <1>5, <3>5
      <4>2. ASSUME NEW i \in 1..Len(stdout') PROVE stdout'[i] = written'[i]
        <5>1. CASE i \in 1..Len(stdout)
          BY <1>5, <1>6, <3>2, <4>1, <5>1
        <5>2. CASE ~(i \in 1..Len(stdout))
          <6>1. i - Len(stdout) \in 1..Len(chunk) /\ Len(stdout) + (i - Len(stdout)) = i
            BY <1>4, <3>2, <5>2
          <6>2. stdout'[i] = chunk[i - Len(stdout)]
            BY <3>2, <6>1
          <6>3. written'[i] = chunk[i - Len(stdout)]
            BY <1>6, <4>1, <6>1
          <6> QED
            BY <6>2, <6>3
        <5> QED
          BY <5>1, <5>2
      <4>3. DOMAIN stdout' = 1..Len(stdout') /\ Len(stdout') = Len(written') /\ Len(stdout') \in Nat
        BY <1>4, <1>6, <3>2, <4>1
      <4> QED
        BY <1>1, <3>1, <3>2, <3>3, <3>5, <4>2, <4>3 DEF JournalWorking
    <3> QED
      BY <3>4, <3>5
  <2>2. CASE ~(StdoutCap < 0 \/ room >= Len(chunk))
    <3> DEFINE part == SubSeq(chunk, 1, room)
    <3>1. stdout' = stdout \o part /\ cut' = TRUE
      BY <1>1, <2>2 DEF capWrite
    <3>2. room \in Nat /\ room < Len(chunk)
      BY <1>4, <2>2
    <3>3. part \in Seq(Bytes) /\ Len(part) = room /\ \A i \in 1..room : part[i] = chunk[i]
      BY <1>3, <3>2
    <3> HIDE DEF part, room
    <3>4. /\ stdout' \in Seq(Bytes) /\ Len(stdout') = Len(stdout) + room
          /\ \A i \in 1..Len(stdout) : stdout'[i] = stdout[i]
          /\ \A i \in 1..room : stdout'[Len(stdout) + i] = chunk[i]
      <4>1. /\ stdout' \in Seq(Bytes) /\ Len(stdout') = Len(stdout) + Len(part)
            /\ \A i \in 1..Len(stdout) : stdout'[i] = stdout[i]
            /\ \A i \in 1..Len(part) : stdout'[Len(stdout) + i] = part[i]
        <5>1. stdout \in Seq(Bytes) /\ part \in Seq(Bytes)
          BY <1>2, <3>3
        <5> QED
          BY <3>1, <5>1
      <4> QED
        BY <3>3, <4>1
    <3>5. Len(stdout') = StdoutCap /\ Len(stdout') < Len(written') /\ Len(stdout') \in Nat
      BY <1>4, <1>5, <1>6, <3>2, <3>4 DEF room
    <3>6. maxOut >= 0 => Len(stdout') <= maxOut + UTFMax
      BY <1>2, <1>4, <3>5 DEF UTFMax
    <3>7. ASSUME NEW i \in 1..Len(stdout') PROVE stdout'[i] = written'[i]
      <4>1. CASE i \in 1..Len(stdout)
        <5>1. i \in 1..Len(written)
          BY <1>4, <1>5, <4>1
        <5> QED
          BY <1>5, <1>6, <3>4, <4>1, <5>1
      <4>2. CASE ~(i \in 1..Len(stdout))
        <5>1. /\ i - Len(stdout) \in 1..room /\ Len(stdout) + (i - Len(stdout)) = i
              /\ i - Len(stdout) \in 1..Len(chunk)
          BY <1>4, <3>2, <3>4, <4>2
        <5>2. ~cut
          BY <1>4, <1>5, <5>1 DEF room
        <5>3. Len(stdout) = Len(written)
          BY <1>4, <1>5, <5>2
        <5> QED
          BY <1>6, <3>4, <5>1, <5>3
      <4> QED
        BY <4>1, <4>2
    <3>8. DOMAIN stdout' = 1..Len(stdout')
      BY <3>4
    <3>9. Len(stdout') <= Len(written') /\ Len(written') \in Nat
      BY <1>4, <1>6, <3>5
    <3>10. JournalWorking'
      <4>1. StdoutCap' = StdoutCap
        BY <1>4
      <4>2. cut' = TRUE /\ step' = "child"
        BY <1>1, <3>1
      <4> QED
        BY <3>5, <3>7, <3>8, <3>9, <4>1, <4>2 DEF JournalWorking
    <3> QED
      BY <3>1, <3>4, <3>6, <3>10
  <2> QED
    BY <2>1, <2>2
<1>8. /\ DOMAIN procs' = Pids /\ mounts' \in Seq(MountLines) \ {<<>>} /\ maxOut' = maxOut
      /\ maxOut' \in Int
  BY <1>1 DEF HostInv
<1> QED
  BY <1>1, <1>6, <1>7, <1>8, AtWork

\* The answer of journal.
LEMMA ChildExitsStep ==
  ASSUME HostInv, ChildExits
  PROVE  HostInv'
<1> DEFINE capped == capOutput(stdout, maxOut)
           r == [NoReply EXCEPT !.text = capped[1], !.truncated = cut \/ capped[2]]
<1>1. /\ task = "journal" /\ JournalWorking /\ Replies(r)
      /\ stdout \in Seq(Bytes) /\ written \in Seq(Bytes) /\ maxOut \in Int
      /\ maxOut >= 0 => Len(stdout) <= maxOut + UTFMax
  BY DEF HostInv, ChildExits, JournalHonest
<1>2. /\ UNCHANGED <<task, stdout, written, maxOut>> /\ reply' = r
      /\ r.text = capped[1] /\ r.truncated = (cut \/ capped[2])
  BY <1>1 DEF Replies, worldVars, history, NoReply
<1>3. /\ Len(stdout) \in Nat /\ Len(written) \in Nat
      /\ Len(stdout) <= Len(written) /\ \A i \in 1..Len(stdout) : stdout[i] = written[i]
      /\ cut <=> Len(stdout) < Len(written)
      /\ cut => Len(stdout) = StdoutCap
  BY <1>1 DEF JournalWorking
<1> HIDE DEF r
<1>4. CASE maxOut < 0 \/ Len(stdout) <= maxOut
  <2>1. capped = <<stdout, FALSE>>
    BY <1>1, <1>4, CapOutputCuts
  <2>2. ~cut
    BY <1>1, <1>3, <1>4 DEF StdoutCap, UTFMax
  <2>3. Len(stdout) = Len(written)
    BY <1>3, <2>2
  <2>4. stdout = written /\ SubSeq(written, 1, Len(written)) = written
    BY <1>1, <1>3, <2>3, SeqEqual, SubSeqFull
  <2>5. reply'.text = written /\ reply'.truncated = FALSE
    <3> HIDE DEF capped
    <3>1. capped[1] = stdout /\ capped[2] = FALSE
      BY <2>1
    <3>2. (cut \/ capped[2]) = FALSE
      BY <2>2, <3>1
    <3> QED
      BY <1>2, <2>4, <3>1, <3>2, Zenon
  <2>6. JournalHonest'
    BY <1>1, <1>2, <1>3, <2>4, <2>5 DEF JournalHonest
  <2> QED
    BY <1>1, <1>2, <2>6, Answers DEF PsSnapshot, DiskTable, Answered
<1>5. CASE ~(maxOut < 0 \/ Len(stdout) <= maxOut)
  <2>1. PICK n \in 0..maxOut :
          /\ capped = <<SubSeq(stdout, 1, n), TRUE>>
          /\ n = 0 \/ stdout[n + 1] # Cont
          /\ \A k \in (n + 1)..maxOut : stdout[k + 1] = Cont
    BY <1>1, <1>5, CapOutputCuts
  <2>2. maxOut \in Nat /\ n \in Nat /\ n <= maxOut /\ maxOut < Len(stdout)
    BY <1>1, <1>3, <1>5
  <2>3. reply'.text = SubSeq(stdout, 1, n) /\ reply'.truncated = TRUE
    <3> HIDE DEF capped
    <3>1. capped[1] = SubSeq(stdout, 1, n) /\ capped[2] = TRUE
      BY <2>1
    <3>2. (cut \/ capped[2]) = TRUE
      BY <3>1
    <3> QED
      BY <1>2, <3>1, <3>2, Zenon
  <2>4. SubSeq(stdout, 1, n) = SubSeq(written, 1, n) /\ Len(SubSeq(stdout, 1, n)) = n
    <3>1. /\ SubSeq(stdout, 1, n) \in Seq(Bytes) /\ Len(SubSeq(stdout, 1, n)) = n
          /\ \A i \in 1..n : SubSeq(stdout, 1, n)[i] = stdout[i]
      BY <1>1, <2>2
    <3>2. /\ SubSeq(written, 1, n) \in Seq(Bytes) /\ Len(SubSeq(written, 1, n)) = n
          /\ \A i \in 1..n : SubSeq(written, 1, n)[i] = written[i]
      BY <1>1, <1>3, <2>2
    <3>3. \A i \in 1..n : stdout[i] = written[i]
      BY <1>3, <2>2
    <3> QED
      BY <3>1, <3>2, <3>3, SeqEqual
  <2>5. \A k \in 0..maxOut : stdout[k + 1] = written[k + 1]
    BY <1>3, <2>2
  <2>6. /\ n < Len(written) /\ (n = 0 \/ written[n + 1] # Cont)
        /\ \A k \in (n + 1)..maxOut : written[k + 1] = Cont
    BY <1>3, <2>1, <2>2, <2>5
  <2>7. JournalHonest'
    BY <1>1, <1>2, <2>2, <2>3, <2>4, <2>6 DEF JournalHonest
  <2> QED
    BY <1>1, <1>2, <2>7, Answers DEF PsSnapshot, DiskTable, Answered
<1> QED
  BY <1>4, <1>5

\* statfs finds the last mount at a point or above it.
LEMMA StatfsFinds ==
  ASSUME mounts \in Seq(MountLines), NEW m \in MountLines, m \in ToSet(mounts)
  PROVE  InSight(m) <=> StatfsAt(m.point) = m
<1> DEFINE there == {i \in DOMAIN mounts : mounts[i].point \in Enclosing[m.point]}
           c == Max(there)
<1>1. Len(mounts) \in Nat /\ DOMAIN mounts = 1..Len(mounts) /\ m.point \in Enclosing[m.point]
  BY MountAssumption
<1>2. there \in SUBSET Nat /\ there # {} /\ \A i \in there : i <= Len(mounts)
  BY <1>1 DEF ToSet
<1>3. c \in there /\ \A i \in there : i <= c
  BY <1>1, <1>2, MaxOf
<1>4. StatfsAt(m.point) = mounts[c]
  BY DEF StatfsAt
<1> HIDE DEF c
<1>5. ASSUME InSight(m) PROVE StatfsAt(m.point) = m
  <2>1. PICK d \in 1..Len(mounts) :
          mounts[d] = m /\ \A k \in (d + 1)..Len(mounts) : mounts[k].point \notin Enclosing[m.point]
    BY <1>5 DEF InSight
  <2>2. d \in there
    BY <1>1, <2>1
  <2>3. d <= c /\ ~(c \in (d + 1)..Len(mounts)) /\ c \in 1..Len(mounts)
    BY <1>1, <1>3, <2>1, <2>2
  <2>4. c = d
    BY <1>1, <2>3
  <2> QED
    BY <1>4, <2>1, <2>4
<1>6. ASSUME StatfsAt(m.point) = m PROVE InSight(m)
  <2>1. c \in 1..Len(mounts) /\ mounts[c] = m
    BY <1>1, <1>3, <1>4, <1>6
  <2>2. \A k \in (c + 1)..Len(mounts) : k \in DOMAIN mounts /\ ~(k <= c)
    BY <1>1, <2>1
  <2>3. \A k \in (c + 1)..Len(mounts) : mounts[k].point \notin Enclosing[m.point]
    BY <1>3, <2>2
  <2> QED
    BY <2>1, <2>3 DEF InSight
<1> QED
  BY <1>5, <1>6

\* /proc/mounts is read.
LEMMA DiskStartsStep ==
  ASSUME HostInv, DiskStarts
  PROVE  HostInv'
<1>1. /\ task = "none" /\ task' = "disk" /\ step' = "entry" /\ queue' = mounts
      /\ stayed' = {m \in ToSet(mounts) : Alone(m)}
      /\ UNCHANGED <<procs, mounts, maxOut, cut, stdout, written, table, points>>
  BY DEF DiskStarts, Starts, worldVars
<1>2. table = <<>> /\ points = {} /\ stdout = <<>> /\ written = <<>> /\ mounts \in Seq(MountLines)
  BY <1>1 DEF HostInv, Idle
<1>3. ToSet(table) = {} /\ table \in Seq(ToSet(table)) /\ DOMAIN table = {}
  BY <1>2 DEF ToSet
<1>4. ASSUME NEW m \in stayed'
      PROVE  m \in MountLines /\ InSight(m)' /\ \A l \in ToSet(queue') : l.point = m.point => l = m
  <2>1. m \in ToSet(mounts) /\ m \in MountLines
    BY <1>1, <1>2 DEF ToSet
  <2>2. InSight(m)
    BY <1>1, <1>2, <2>1, StatfsFinds DEF Alone
  <2> QED
    BY <1>1, <2>1, <2>2 DEF Alone, InSight
<1>5. DiskWorking'
  BY <1>1, <1>2, <1>3, <1>4 DEF DiskWorking
<1> QED
  BY <1>1, <1>2, <1>5, AtWork DEF HostInv, JournalHonest

\* The line at the head of the queue is behind the tool.
LEMMA NextLine ==
  ASSUME NEW T, queue \in Seq(T), queue # <<>>
  PROVE  /\ Head(queue) \in ToSet(queue) /\ Tail(queue) \in Seq(T)
         /\ ToSet(queue) = {Head(queue)} \cup ToSet(Tail(queue))
<1>1. /\ Len(queue) \in Nat \ {0} /\ DOMAIN queue = 1..Len(queue) /\ Head(queue) = queue[1]
      /\ Tail(queue) \in Seq(T) /\ DOMAIN Tail(queue) = 1..(Len(queue) - 1)
      /\ \A i \in 1..(Len(queue) - 1) : Tail(queue)[i] = queue[i + 1]
  OBVIOUS
<1>2. ToSet(queue) = {queue[i] : i \in 1..Len(queue)}
  BY <1>1 DEF ToSet
<1>3. ToSet(Tail(queue)) = {queue[i + 1] : i \in 1..(Len(queue) - 1)}
  BY <1>1 DEF ToSet
<1>4. ASSUME NEW i \in 1..Len(queue) PROVE i = 1 \/ \E j \in 1..(Len(queue) - 1) : i = j + 1
  <2>1. i # 1 => i - 1 \in 1..(Len(queue) - 1) /\ i = (i - 1) + 1
    BY <1>1
  <2> QED
    BY <2>1
<1>5. 1 \in 1..Len(queue) /\ \A j \in 1..(Len(queue) - 1) : j + 1 \in 1..Len(queue)
  BY <1>1
<1>6. Head(queue) \in ToSet(queue)
  BY <1>1, <1>2, <1>5
<1>7. ToSet(queue) = {Head(queue)} \cup ToSet(Tail(queue))
  <2>1. \A i \in 1..Len(queue) : queue[i] \in {Head(queue)} \cup ToSet(Tail(queue))
    BY <1>1, <1>3, <1>4
  <2>2. \A j \in 1..(Len(queue) - 1) : queue[j + 1] \in ToSet(queue)
    BY <1>2, <1>5
  <2>3. \A x \in ToSet(Tail(queue)) : x \in ToSet(queue)
    BY <1>3, <2>2
  <2> QED
    BY <1>2, <1>6, <2>1, <2>3
<1> QED
  BY <1>1, <1>6, <1>7

\* What a step of disk leaves alone.
LEMMA DiskKeeps ==
  ASSUME HostInv, task = "disk", UNCHANGED <<procs, maxOut, task, step, cut, stdout, written>>,
         mounts' \in Seq(MountLines) \ {<<>>}, DiskWorking'
  PROVE  HostInv'
<1>1. step' = "entry" /\ stdout = <<>> /\ written = <<>>
  BY DEF HostInv, DiskWorking
<1> QED
  BY <1>1, AtWork DEF HostInv, JournalHonest

\* A line is skipped.
LEMMA DiskSkipsStep ==
  ASSUME HostInv, DiskSkips
  PROVE  HostInv'
<1>1. /\ task = "disk" /\ queue # <<>> /\ queue' = Tail(queue) /\ Skipped(Head(queue))
      /\ UNCHANGED <<procs, mounts, maxOut, task, step, cut, stdout, written, table, points, stayed>>
  BY DEF DiskSkips, AtEntry, worldVars, history
<1>2. DiskWorking
  BY <1>1 DEF HostInv, DiskSkips, AtEntry
<1>3. Tail(queue) \in Seq(MountLines) /\ ToSet(queue) = {Head(queue)} \cup ToSet(Tail(queue))
  BY <1>1, <1>2, NextLine DEF DiskWorking
<1>4. ASSUME NEW m \in stayed
      PROVE  m \in ToSet(queue) /\ m.point \notin points /\ ~m.pseudo => m \in ToSet(queue')
  BY <1>1, <1>3 DEF Skipped
<1>5. DiskWorking'
  BY <1>1, <1>2, <1>3, <1>4 DEF DiskWorking, InSight
<1> QED
  BY <1>1, <1>5, DiskKeeps DEF HostInv

\* A line gives a row, if the file system has a size.
LEMMA DiskLineStep ==
  ASSUME HostInv, DiskLine
  PROVE  HostInv'
<1> DEFINE line == Head(queue)
           fs == StatfsAt(line.point)
           new == [dev |-> line.dev, point |-> line.point, fs |-> fs.dev, pct |-> UsePct(fs.use)]
<1>1. /\ task = "disk" /\ queue # <<>> /\ queue' = Tail(queue) /\ ~Skipped(line)
      /\ points' = points \cup {line.point}
      /\ table' = IF Total(fs.use) = 0 THEN table ELSE Append(table, new)
      /\ UNCHANGED <<procs, mounts, maxOut, task, step, cut, stdout, written, stayed>>
  BY DEF DiskLine, AtEntry, worldVars, history
<1>2. DiskWorking
  BY <1>1 DEF HostInv, DiskLine, AtEntry
<1>3. /\ Tail(queue) \in Seq(MountLines) /\ line \in ToSet(queue)
      /\ ToSet(queue) = {line} \cup ToSet(Tail(queue))
  BY <1>1, <1>2, NextLine DEF DiskWorking
<1>4. line.point \notin points /\ ~line.pseudo
  BY <1>1 DEF Skipped
<1> HIDE DEF line, fs, new
<1>5. /\ table' \in Seq(ToSet(table'))
      /\ \A i, k \in DOMAIN table' : table'[i].point = table'[k].point => i = k
      /\ \A r \in ToSet(table') : r.point \in points'
      /\ ToSet(table') = ToSet(table) \cup (IF Total(fs.use) = 0 THEN {} ELSE {new})
  <2>1. CASE Total(fs.use) = 0
    BY <1>1, <1>2, <2>1 DEF DiskWorking
  <2>2. CASE Total(fs.use) # 0
    <3>1. /\ table' \in Seq(ToSet(table')) /\ ToSet(table') = ToSet(table) \cup {new}
          /\ Len(table) \in Nat /\ DOMAIN table = 1..Len(table) /\ DOMAIN table' = 1..(Len(table) + 1)
          /\ table'[Len(table) + 1] = new
          /\ \A i \in 1..Len(table) : table'[i] = table[i]
      <4>1. table \in Seq(ToSet(table)) /\ table' = Append(table, new)
        BY <1>1, <1>2, <2>2 DEF DiskWorking
      <4>2. Extended(table', table, new)
        BY <4>1, Appended, Zenon
      <4> QED
        BY <4>2 DEF Extended
    <3>2. new.point = line.point
      BY DEF new
    <3>3. \A i \in 1..Len(table) : table'[i].point # line.point
      BY <1>2, <1>4, <3>1 DEF DiskWorking, ToSet
    <3>4. \A i \in 1..(Len(table) + 1) : i \in 1..Len(table) \/ i = Len(table) + 1
      BY <3>1
    <3>5. \A i, k \in DOMAIN table' : table'[i].point = table'[k].point => i = k
      BY <1>2, <3>1, <3>2, <3>3, <3>4 DEF DiskWorking
    <3> QED
      BY <1>1, <1>2, <2>2, <3>1, <3>2, <3>5 DEF DiskWorking
  <2> QED
    BY <2>1, <2>2
<1>6. ASSUME NEW m \in stayed
      PROVE  /\ m \in MountLines /\ InSight(m)
             /\ \A l \in ToSet(queue') : l.point = m.point => l = m
             /\ \A r \in ToSet(table') : r.point = m.point =>
                  r.dev = m.dev /\ r.fs = m.dev /\ r.pct = UsePct(m.use)
             /\ \/ m.pseudo \/ Total(m.use) = 0
                \/ m \in ToSet(queue') /\ m.point \notin points'
                \/ \E r \in ToSet(table') : r.point = m.point
  <2>1. m \in MountLines /\ InSight(m) /\ \A l \in ToSet(queue) : l.point = m.point => l = m
    BY <1>2 DEF DiskWorking
  <2>2. line.point = m.point => line = m /\ fs = m
    <3>1. mounts \in Seq(MountLines) /\ m \in ToSet(mounts)
      BY <2>1 DEF HostInv, InSight, ToSet
    <3>2. StatfsAt(m.point) = m
      BY <2>1, <3>1, StatfsFinds
    <3> QED
      BY <1>3, <2>1, <3>2 DEF fs
  <2>3. new.dev = line.dev /\ new.point = line.point /\ new.fs = fs.dev /\ new.pct = UsePct(fs.use)
    BY DEF new
  <2>4. \A r \in ToSet(table') : r.point = m.point =>
          r.dev = m.dev /\ r.fs = m.dev /\ r.pct = UsePct(m.use)
    <3>1. \A r \in ToSet(table) : r.point = m.point =>
          r.dev = m.dev /\ r.fs = m.dev /\ r.pct = UsePct(m.use)
      BY <1>2 DEF DiskWorking
    <3> QED
      BY <1>5, <2>2, <2>3, <3>1
  <2>5. CASE line.point = m.point
    BY <1>1, <1>3, <1>5, <2>1, <2>2, <2>3, <2>4, <2>5
  <2>6. CASE line.point # m.point
    <3>1. \/ m.pseudo \/ Total(m.use) = 0
          \/ m \in ToSet(queue) /\ m.point \notin points
          \/ \E r \in ToSet(table) : r.point = m.point
      BY <1>2 DEF DiskWorking
    <3> QED
      BY <1>1, <1>3, <1>5, <2>1, <2>4, <2>6, <3>1
  <2> QED
    BY <2>5, <2>6
<1>7. step' = "entry" /\ queue' \in Seq(MountLines)
  BY <1>1, <1>2, <1>3 DEF DiskWorking
<1>8. DiskWorking'
  BY <1>1, <1>5, <1>6, <1>7 DEF DiskWorking, InSight
<1> QED
  BY <1>1, <1>8, DiskKeeps DEF HostInv

\* A file system whose statfs fails is given up.
LEMMA DiskStatfsFailsStep ==
  ASSUME HostInv, DiskStatfsFails
  PROVE  HostInv'
<1> DEFINE line == Head(queue)
<1>1. /\ task = "disk" /\ queue # <<>> /\ queue' = Tail(queue)
      /\ points' = points \cup {line.point} /\ stayed' = stayed \ {line}
      /\ UNCHANGED <<procs, mounts, maxOut, task, step, cut, stdout, written, table>>
  BY DEF DiskStatfsFails, AtEntry, worldVars
<1>2. DiskWorking
  BY <1>1 DEF HostInv, DiskStatfsFails, AtEntry
<1>3. /\ Tail(queue) \in Seq(MountLines) /\ line \in ToSet(queue)
      /\ ToSet(queue) = {line} \cup ToSet(Tail(queue))
  BY <1>1, <1>2, NextLine DEF DiskWorking
<1> HIDE DEF line
<1>4. ASSUME NEW m \in stayed'
      PROVE  /\ m \in stayed /\ line.point # m.point
             /\ m \in ToSet(queue) /\ m.point \notin points =>
                  m \in ToSet(queue') /\ m.point \notin points'
  BY <1>1, <1>2, <1>3 DEF DiskWorking
<1>5. DiskWorking'
  BY <1>1, <1>2, <1>3, <1>4 DEF DiskWorking, InSight
<1> QED
  BY <1>1, <1>5, DiskKeeps DEF HostInv

\* A file system is mounted: what it hides does not count as staying.
LEMMA NewMountStep ==
  ASSUME HostInv, NEW new \in MountLines, NewMount(new)
  PROVE  HostInv'
<1> DEFINE n == Len(mounts)
<1>1. /\ task = "disk" /\ mounts' = Append(mounts, new)
      /\ stayed' = {s \in stayed : new.point \notin Enclosing[s.point]}
      /\ UNCHANGED <<procs, maxOut, task, step, cut, stdout, written, table, points, queue>>
  BY DEF NewMount
<1>2. DiskWorking /\ mounts \in Seq(MountLines)
  BY <1>1 DEF HostInv, NewMount
<1>3. /\ mounts' \in Seq(MountLines) \ {<<>>} /\ n \in Nat /\ Len(mounts') = n + 1
      /\ mounts'[n + 1] = new /\ \A i \in 1..n : mounts'[i] = mounts[i]
  BY <1>1, <1>2
<1> HIDE DEF n
<1>4. ASSUME NEW m \in stayed' PROVE InSight(m)'
  <2>1. PICK c \in 1..n :
          mounts[c] = m /\ \A k \in (c + 1)..n : mounts[k].point \notin Enclosing[m.point]
    BY <1>1, <1>2 DEF DiskWorking, InSight, n
  <2>2. c \in 1..(n + 1) /\ \A k \in (c + 1)..(n + 1) : k = n + 1 \/ (k \in (c + 1)..n /\ k \in 1..n)
    BY <1>3
  <2>3. \A k \in (c + 1)..(n + 1) : mounts'[k].point \notin Enclosing[m.point]
    BY <1>1, <1>3, <2>1, <2>2
  <2> QED
    BY <1>3, <2>1, <2>2, <2>3 DEF InSight
<1>5. DiskWorking'
  BY <1>1, <1>2, <1>4 DEF DiskWorking
<1> QED
  BY <1>1, <1>3, <1>5, DiskKeeps

\* A file system is unmounted.
LEMMA UnmountStep ==
  ASSUME HostInv, NEW i \in DOMAIN mounts, Unmount(i)
  PROVE  HostInv'
<1>1. /\ task = "disk" /\ mounts' = RemoveAt(mounts, i) /\ stayed' = stayed \ {mounts[i]} /\ i > 1
      /\ UNCHANGED <<procs, maxOut, task, step, cut, stdout, written, table, points, queue>>
  BY DEF Unmount
<1>2. DiskWorking /\ mounts \in Seq(MountLines)
  BY <1>1 DEF HostInv, Unmount
<1>3. mounts' \in Seq(MountLines) \ {<<>>} /\ KeepsOrder(mounts', mounts, i)
  BY <1>1, <1>2, Removed
<1>4. ASSUME NEW m \in stayed' PROVE InSight(m)'
  <2>1. PICK c \in 1..Len(mounts) :
          mounts[c] = m /\ \A k \in (c + 1)..Len(mounts) : mounts[k].point \notin Enclosing[m.point]
    BY <1>1, <1>2 DEF DiskWorking, InSight
  <2>2. c # i
    BY <1>1, <2>1
  <2>3. PICK d \in 1..Len(mounts') :
          /\ mounts'[d] = mounts[c]
          /\ \A k \in (d + 1)..Len(mounts') : \E j \in (c + 1)..Len(mounts) : mounts'[k] = mounts[j]
    BY <1>3, <2>2 DEF KeepsOrder
  <2>4. \A k \in (d + 1)..Len(mounts') : mounts'[k].point \notin Enclosing[m.point]
    BY <2>1, <2>3
  <2> QED
    BY <2>1, <2>3, <2>4 DEF InSight
<1>5. DiskWorking'
  BY <1>1, <1>2, <1>4 DEF DiskWorking
<1> QED
  BY <1>1, <1>3, <1>5, DiskKeeps

\* The table of disk.
LEMMA DiskEndsStep ==
  ASSUME HostInv, NEW k \in 0..Len(table), DiskEnds(k)
  PROVE  HostInv'
<1> DEFINE r == [NoReply EXCEPT !.rows = SubSeq(table, 1, k), !.truncated = FALSE \/ k < Len(table)]
           rows == SubSeq(table, 1, k)
<1>1. task = "disk" /\ queue = <<>> /\ Replies(r) /\ DiskWorking
  BY DEF HostInv, DiskEnds, RepliesTable
<1>2. /\ UNCHANGED <<task, stayed, stdout, maxOut>> /\ reply' = r
      /\ r.rows = rows /\ r.truncated = (k < Len(table))
  BY <1>1 DEF Replies, worldVars, history, NoReply
<1> HIDE DEF r
<1>3. Len(table) \in Nat /\ DOMAIN table = 1..Len(table) /\ ToSet(queue) = {}
  BY <1>1 DEF DiskWorking, ToSet
<1>4. DOMAIN rows = 1..k /\ 1..k \subseteq 1..Len(table) /\ \A i \in 1..k : rows[i] = table[i]
  <2>1. table \in Seq(ToSet(table))
    BY <1>1 DEF DiskWorking
  <2> QED
    BY <1>3, <2>1
<1> HIDE DEF rows
<1>5. \A i, j \in DOMAIN rows : rows[i].point = rows[j].point => i = j
  BY <1>1, <1>3, <1>4 DEF DiskWorking
<1>6. ASSUME NEW m \in stayed, ~m.pseudo, Total(m.use) # 0
      PROVE  /\ {i \in DOMAIN rows : rows[i].point = m.point} # {} \/ k < Len(table)
             /\ \A i \in DOMAIN rows : rows[i].point = m.point =>
                  LET whole == Used(m.use) + m.use.bavail
                      off == 2 * (rows[i].pct * whole - 100 * Used(m.use))
                  IN  /\ rows[i].dev = m.dev /\ rows[i].fs = m.dev
                      /\ rows[i].pct \in 0..100
                      /\ -whole <= off /\ off <= whole
  <2>1. \E t \in ToSet(table) : t.point = m.point
    BY <1>1, <1>3, <1>6 DEF DiskWorking
  <2>2. k = Len(table) => \E i \in DOMAIN rows : rows[i].point = m.point
    BY <1>3, <1>4, <2>1 DEF ToSet
  <2>3. k = Len(table) \/ k < Len(table)
    <3>1. k \in Int /\ Len(table) \in Int /\ k <= Len(table)
      BY <1>3
    <3> QED
      BY <3>1
  <2>4. ASSUME NEW i \in DOMAIN rows, rows[i].point = m.point
        PROVE  rows[i].dev = m.dev /\ rows[i].fs = m.dev /\ rows[i].pct = UsePct(m.use)
    BY <1>1, <1>3, <1>4, <2>4 DEF DiskWorking, ToSet
  <2>5. m \in MountLines
    BY <1>1 DEF DiskWorking
  <2>6. LET whole == Used(m.use) + m.use.bavail
            off == 2 * (UsePct(m.use) * whole - 100 * Used(m.use))
        IN  UsePct(m.use) \in 0..100 /\ -whole <= off /\ off <= whole
    BY <2>5, MountAssumption, Percentage
  <2> QED
    BY <2>2, <2>3, <2>4, <2>6
<1>7. DiskTable'
  <2>1. reply'.rows = rows /\ (reply'.truncated <=> k < Len(table)) /\ stayed' = stayed
    BY <1>2
  <2> QED
    BY <1>5, <1>6, <2>1 DEF DiskTable, Total, Used
<1>8. JournalHonest'
  BY <1>1, <1>2 DEF HostInv, JournalHonest, Answered
<1> QED
  BY <1>1, <1>2, <1>7, <1>8, Answers DEF PsSnapshot, Answered

\* What a step of ps leaves alone.
LEMMA PsKeeps ==
  ASSUME HostInv, task \in {"none", "ps"}, task' = "ps", UNCHANGED <<mounts, maxOut, stdout, written>>,
         DOMAIN procs' = Pids, cut' \in BOOLEAN, PsWorking'
  PROVE  HostInv'
<1>1. step' \in {"entry", "status", "cmdline"} /\ stdout = <<>> /\ written = <<>>
  BY DEF HostInv, PsWorking
<1> QED
  BY <1>1, AtWork DEF HostInv, JournalHonest

\* /proc is read.
LEMMA PsStartsStep ==
  ASSUME HostInv, PsStarts
  PROVE  HostInv'
<1>1. /\ task = "none" /\ task' = "ps" /\ step' = "entry" /\ queue' = Listing
      /\ lived' = Alive /\ stayed' = Alive
      /\ UNCHANGED <<procs, mounts, maxOut, cut, stdout, written, table, row>>
  BY DEF PsStarts, Starts, worldVars
<1>2. table = <<>> /\ cut = FALSE /\ DOMAIN procs = Pids
  BY <1>1 DEF HostInv, Idle
<1>3. ToSet(table) = {} /\ table \in Seq(ToSet(table)) /\ DOMAIN table = {} /\ Len(table) <= PsMaxProcs
  BY <1>2, HostToolsAssumption DEF ToSet
<1>4. Alive' = Alive
  BY <1>1 DEF Alive
<1>5. \A s \in Alive : s[1] \in ToSet(Listing)
  BY ListingOf DEF Alive
<1>6. Listing \in Seq(Pids) /\ IsInjective(Listing)
  BY ListingOf
<1>7. {table[i].pid : i \in DOMAIN table} = {}
  BY <1>3
<1>8. PsWorking'
  BY <1>1, <1>3, <1>4, <1>5, <1>6, <1>7 DEF PsWorking
<1> QED
  BY <1>1, <1>2, <1>8, PsKeeps

\* The entry at the head of the queue is behind ps, and not in front of it again.
LEMMA NextEntry ==
  ASSUME queue \in Seq(Pids), queue # <<>>, IsInjective(queue)
  PROVE  IsInjective(Tail(queue)) /\ Head(queue) \notin ToSet(Tail(queue))
<1>1. /\ Len(queue) \in Nat \ {0} /\ DOMAIN queue = 1..Len(queue) /\ Head(queue) = queue[1]
      /\ DOMAIN Tail(queue) = 1..(Len(queue) - 1)
      /\ \A i \in 1..(Len(queue) - 1) : Tail(queue)[i] = queue[i + 1]
  OBVIOUS
<1>2. \A i, j \in 1..Len(queue) : queue[i] = queue[j] => i = j
  BY <1>1 DEF IsInjective
<1>3. 1 \in 1..Len(queue) /\ \A j \in 1..(Len(queue) - 1) : j + 1 \in 1..Len(queue) /\ j + 1 # 1
  BY <1>1
<1>4. \A i, j \in 1..(Len(queue) - 1) : i + 1 = j + 1 => i = j
  BY <1>1
<1>5. IsInjective(Tail(queue))
  BY <1>1, <1>2, <1>3, <1>4 DEF IsInjective
<1>6. Head(queue) \notin ToSet(Tail(queue))
  BY <1>1, <1>2, <1>3 DEF ToSet
<1> QED
  BY <1>5, <1>6

\* The loop of ps stops at its bound.
LEMMA PsFullStep ==
  ASSUME HostInv, PsFull
  PROVE  HostInv'
<1>1. /\ task = "ps" /\ step = "entry" /\ queue' = <<>> /\ cut' = TRUE
      /\ UNCHANGED <<procs, mounts, maxOut, task, step, stdout, written, table, row, lived, stayed>>
  BY DEF PsFull, AtEntry, worldVars, history
<1>2. PsWorking /\ DOMAIN procs = Pids
  BY <1>1 DEF HostInv
<1>3. /\ ToSet(queue') = {} /\ queue' \in Seq(Pids) /\ IsInjective(queue')
      /\ Alive' = Alive /\ \A p : Ever(p)' = Ever(p)
  BY <1>1 DEF ToSet, IsInjective, Alive, Ever
<1>4. PsWorking'
  BY <1>1, <1>2, <1>3 DEF PsWorking
<1> QED
  BY <1>1, <1>2, <1>4, PsKeeps

\* /proc/<pid>/stat.
LEMMA PsStatStep ==
  ASSUME HostInv, PsStat
  PROVE  HostInv'
<1> DEFINE pid == Head(queue)
<1>1. /\ task = "ps" /\ step = "entry" /\ queue # <<>> /\ queue' = Tail(queue)
      /\ Len(table) < PsMaxProcs /\ procs[pid] # 0
      /\ step' = "status" /\ row' = [pid |-> pid, stat |-> procs[pid]]
      /\ UNCHANGED <<procs, mounts, maxOut, task, cut, stdout, written, table, lived, stayed>>
  BY DEF PsStat, AtEntry, worldVars, history
<1>2. PsWorking /\ DOMAIN procs = Pids /\ cut \in BOOLEAN
  BY <1>1 DEF HostInv
<1>3. /\ pid \in ToSet(queue) /\ Tail(queue) \in Seq(Pids) /\ IsInjective(Tail(queue))
      /\ pid \notin ToSet(Tail(queue)) /\ ToSet(queue) = {pid} \cup ToSet(Tail(queue))
      /\ pid \in Pids
  <2>1. queue \in Seq(Pids) /\ IsInjective(queue)
    BY <1>2 DEF PsWorking
  <2>2. pid \in Pids
    BY <1>1, <2>1
  <2> QED
    BY <1>1, <2>1, <2>2, NextLine, NextEntry
<1>4. Alive' = Alive /\ \A p : Ever(p)' = Ever(p)
  BY <1>1 DEF Alive, Ever
<1> HIDE DEF pid
<1>5. row'.pid = pid /\ row'.stat = procs[pid]
  BY <1>1
<1>6. <<pid, procs[pid]>> \in lived
  BY <1>1, <1>2, <1>3 DEF PsWorking, Alive
<1>7. \A s \in stayed : s[1] = pid => s[2] = procs[pid]
  BY <1>2 DEF PsWorking, Alive
<1>8. PsWorking'
  BY <1>1, <1>2, <1>3, <1>4, <1>5, <1>6, <1>7 DEF PsWorking
<1> QED
  BY <1>1, <1>2, <1>8, PsKeeps

\* A process whose stat cannot be read is given up: nobody else has its number.
LEMMA PsStatFailsStep ==
  ASSUME HostInv, PsStatFails
  PROVE  HostInv'
<1> DEFINE pid == Head(queue)
<1>1. /\ task = "ps" /\ step = "entry" /\ queue # <<>> /\ queue' = Tail(queue)
      /\ stayed' = stayed \ {<<pid, procs[pid]>>}
      /\ UNCHANGED <<procs, mounts, maxOut, task, step, row, cut, stdout, written, table, lived>>
  BY DEF PsStatFails, AtEntry, worldVars
<1>2. PsWorking /\ DOMAIN procs = Pids /\ cut \in BOOLEAN
  BY <1>1 DEF HostInv
<1>3. /\ Tail(queue) \in Seq(Pids) /\ IsInjective(Tail(queue))
      /\ ToSet(queue) = {pid} \cup ToSet(Tail(queue))
  <2>1. queue \in Seq(Pids) /\ IsInjective(queue)
    BY <1>2 DEF PsWorking
  <2> QED
    BY <1>1, <2>1, NextLine, NextEntry
<1>4. Alive' = Alive /\ \A p : Ever(p)' = Ever(p)
  BY <1>1 DEF Alive, Ever
<1> HIDE DEF pid
<1>5. \A s \in stayed' : s \in stayed /\ s[1] # pid
  BY <1>1, <1>2 DEF PsWorking, Alive
<1>6. PsWorking'
  BY <1>1, <1>2, <1>3, <1>4, <1>5 DEF PsWorking
<1> QED
  BY <1>1, <1>2, <1>6, PsKeeps

\* The process behind a number is one that has been there.
LEMMA EverAlive ==
  ASSUME PsWorking, NEW p \in Pids
  PROVE  procs[p] \in Ever(p)
<1>1. CASE procs[p] = 0
  BY <1>1 DEF Ever
<1>2. CASE procs[p] # 0
  <2> DEFINE l == <<p, procs[p]>>
  <2>1. l \in lived
    BY <1>2 DEF PsWorking, Alive
  <2>2. l[1] = p /\ l[2] = procs[p]
    OBVIOUS
  <2> HIDE DEF l
  <2> QED
    BY <2>1, <2>2 DEF Ever
<1> QED
  BY <1>1, <1>2

\* /proc/<pid>/status.
LEMMA PsStatusStep ==
  ASSUME HostInv, PsStatus
  PROVE  HostInv'
<1> PICK status \in {0, procs[row.pid]} :
           row' = [pid |-> row.pid, stat |-> row.stat, status |-> status]
  BY DEF PsStatus
<1>1. /\ task = "ps" /\ step = "status" /\ step' = "cmdline"
      /\ UNCHANGED <<procs, mounts, maxOut, task, queue, cut, stdout, written, table, lived, stayed>>
  BY DEF PsStatus, worldVars, history
<1>2. PsWorking /\ DOMAIN procs = Pids /\ cut \in BOOLEAN
  BY <1>1 DEF HostInv
<1>3. Alive' = Alive /\ \A p : Ever(p)' = Ever(p)
  BY <1>1 DEF Alive, Ever
<1>4. row'.pid = row.pid /\ row'.stat = row.stat /\ row'.status = status
  OBVIOUS
<1>5. row.pid \in Pids
  BY <1>1, <1>2 DEF PsWorking
<1>6. status \in Ever(row.pid)
  <2>1. 0 \in Ever(row.pid)
    BY DEF Ever
  <2> QED
    BY <1>2, <1>5, <2>1, EverAlive
<1>7. \A s \in stayed : s[1] = row.pid => status \in {0, s[2]}
  BY <1>2 DEF PsWorking, Alive
<1>8. PsWorking'
  BY <1>1, <1>2, <1>3, <1>4, <1>6, <1>7 DEF PsWorking
<1> QED
  BY <1>1, <1>2, <1>8, PsKeeps

\* /proc/<pid>/cmdline, which completes a row.
LEMMA PsCmdlineStep ==
  ASSUME HostInv, PsCmdline
  PROVE  HostInv'
<1> PICK cmd \in IF row.pid = Self THEN {procs[Self]}
                ELSE {0, IF row.pid \in Bare THEN 0 ELSE procs[row.pid]} :
           table' = Append(table, [pid |-> row.pid, stat |-> row.stat, status |-> row.status,
                                   cmd |-> cmd, args |-> cmd # 0 /\ row.pid # Self])
  BY DEF PsCmdline
<1> DEFINE new == [pid |-> row.pid, stat |-> row.stat, status |-> row.status,
                   cmd |-> cmd, args |-> cmd # 0 /\ row.pid # Self]
           given == {table[i].pid : i \in DOMAIN table}
<1>1. /\ task = "ps" /\ step = "cmdline" /\ step' = "entry" /\ table' = Append(table, new)
      /\ UNCHANGED <<procs, mounts, maxOut, task, queue, cut, stdout, written, lived, stayed>>
  BY DEF PsCmdline, worldVars, history
<1>2. PsWorking /\ DOMAIN procs = Pids /\ cut \in BOOLEAN
  BY <1>1 DEF HostInv
<1>3. Alive' = Alive /\ \A p : Ever(p)' = Ever(p)
  BY <1>1 DEF Alive, Ever
<1>4. /\ Len(table) < PsMaxProcs /\ table \in Seq(ToSet(table))
      /\ row.pid \in Pids \ (ToSet(queue) \cup given)
      /\ <<row.pid, row.stat>> \in lived /\ row.status \in Ever(row.pid)
      /\ \A s \in stayed : s[1] = row.pid => row.stat = s[2] /\ row.status \in {0, s[2]}
  BY <1>1, <1>2 DEF PsWorking
<1>5. cmd \in Ever(row.pid)
  <2>1. 0 \in Ever(row.pid)
    BY DEF Ever
  <2>2. procs[row.pid] \in Ever(row.pid)
    BY <1>2, <1>4, EverAlive
  <2> QED
    BY <2>1, <2>2
<1>6. /\ new.pid = row.pid /\ new.stat = row.stat /\ new.status = row.status /\ new.cmd = cmd
      /\ row.pid = Self => ~new.args
  OBVIOUS
<1> HIDE DEF new
<1>7. Extended(table', table, new)
  BY <1>1, <1>4, Appended, Zenon
<1>8. /\ table' \in Seq(ToSet(table')) /\ ToSet(table') = ToSet(table) \cup {new}
      /\ Len(table) \in Nat /\ Len(table') = Len(table) + 1
      /\ DOMAIN table = 1..Len(table) /\ DOMAIN table' = 1..(Len(table) + 1)
      /\ table'[Len(table) + 1] = new
      /\ \A i \in 1..Len(table) : table'[i] = table[i]
  BY <1>7 DEF Extended
<1>9. \A i \in 1..(Len(table) + 1) : i \in 1..Len(table) \/ i = Len(table) + 1
  BY <1>8
<1>10. 1..Len(table) \subseteq 1..(Len(table) + 1) /\ Len(table) + 1 \in 1..(Len(table) + 1)
  BY <1>8
<1>11. {table'[i].pid : i \in DOMAIN table'} = given \cup {row.pid}
  BY <1>6, <1>8, <1>9, <1>10
<1>12. \A i, k \in DOMAIN table' : table'[i].pid = table'[k].pid => i = k
  <2>1. \A i \in 1..Len(table) : table'[i].pid # row.pid
    BY <1>4, <1>8
  <2>2. \A i, k \in 1..Len(table) : table[i].pid = table[k].pid => i = k
    BY <1>2, <1>8 DEF PsWorking
  <2> QED
    BY <1>6, <1>8, <1>9, <2>1, <2>2
<1>13. Len(table') <= PsMaxProcs
  BY <1>4, <1>8, HostToolsAssumption
<1>14. \A r \in ToSet(table') :
         /\ <<r.pid, r.stat>> \in lived /\ r.status \in Ever(r.pid) /\ r.cmd \in Ever(r.pid)
         /\ r.pid = Self => ~r.args
         /\ \A s \in stayed : s[1] = r.pid => r.stat = s[2] /\ r.status \in {0, s[2]}
  <2> DEFINE Good(r) ==
               /\ <<r.pid, r.stat>> \in lived /\ r.status \in Ever(r.pid) /\ r.cmd \in Ever(r.pid)
               /\ r.pid = Self => ~r.args
               /\ \A s \in stayed : s[1] = r.pid => r.stat = s[2] /\ r.status \in {0, s[2]}
  <2>1. \A r \in ToSet(table) : Good(r)
    BY <1>2 DEF PsWorking
  <2>2. Good(new)
    BY <1>4, <1>5, <1>6
  <2> HIDE DEF Good
  <2>3. \A r \in ToSet(table') : Good(r)
    BY <1>8, <2>1, <2>2
  <2> QED
    BY <2>3, Zenon DEF Good
<1>15. /\ queue \in Seq(Pids) /\ IsInjective(queue) /\ given \subseteq Pids \ ToSet(queue)
       /\ Alive \subseteq lived /\ stayed \subseteq Alive
       /\ cut \/ \A s \in stayed : s[1] \in ToSet(queue) \cup given \cup {row.pid}
  BY <1>1, <1>2 DEF PsWorking
<1> HIDE DEF given
<1>16. PsWorking'
  BY <1>1, <1>3, <1>4, <1>8, <1>11, <1>12, <1>13, <1>14, <1>15 DEF PsWorking
<1> QED
  BY <1>1, <1>2, <1>16, PsKeeps

\* The answer of ps.
LEMMA PsEndsStep ==
  ASSUME HostInv, NEW k \in 0..Len(table), PsEnds(k)
  PROVE  HostInv'
<1> DEFINE sorted == ByPid(table)
           rows == SubSeq(sorted, 1, k)
           r == [NoReply EXCEPT !.rows = rows, !.truncated = cut \/ k < Len(sorted)]
<1>1. task = "ps" /\ step = "entry" /\ queue = <<>> /\ Replies(r) /\ PsWorking
  BY DEF HostInv, PsEnds, RepliesTable
<1>2. /\ UNCHANGED <<task, lived, stayed, stdout, maxOut>> /\ reply' = r
      /\ r.rows = rows /\ r.truncated = (cut \/ k < Len(sorted))
  BY <1>1 DEF Replies, worldVars, history, NoReply
<1> HIDE DEF r
<1>3. /\ table \in Seq(ToSet(table)) /\ Len(table) \in Nat /\ DOMAIN table = 1..Len(table)
      /\ \A i \in DOMAIN table : table[i].pid \in Nat
      /\ \A i, j \in DOMAIN table : table[i].pid = table[j].pid => i = j
  <2>1. /\ table \in Seq(ToSet(table)) /\ \A i \in DOMAIN table : table[i].pid \in Pids
        /\ \A i, j \in DOMAIN table : table[i].pid = table[j].pid => i = j
    BY <1>1 DEF PsWorking
  <2>2. Pids \subseteq Nat
    BY HostToolsAssumption DEF Pids, ToSet
  <2>3. table \in Seq(ToSet(table)) => Len(table) \in Nat /\ DOMAIN table = 1..Len(table)
    OBVIOUS
  <2>4. \A i \in DOMAIN table : table[i].pid \in Nat
    BY <2>1, <2>2
  <2> QED
    BY <2>1, <2>3, <2>4, Zenon
<1>4. /\ sorted \in Seq(ToSet(table)) /\ Len(sorted) = Len(table)
      /\ \A i, j \in 1..Len(table) : i < j => sorted[i].pid < sorted[j].pid
      /\ \A t \in ToSet(table) : \E i \in 1..Len(table) : sorted[i] = t
  BY <1>3, ByPidSorts
<1> HIDE DEF sorted
<1>5. /\ DOMAIN rows = 1..k /\ Len(rows) = k /\ 1..k \subseteq 1..Len(table)
      /\ \A i \in 1..k : rows[i] = sorted[i] /\ rows[i] \in ToSet(table)
  <2> DEFINE T == ToSet(table)
             n == Len(table)
  <2>1. sorted \in Seq(T) /\ Len(sorted) = n /\ n \in Nat /\ k \in 0..n
    BY <1>3, <1>4
  <2> HIDE DEF T, n
  <2>2. /\ DOMAIN rows = 1..k /\ Len(rows) = k /\ 1..k \subseteq 1..n
        /\ \A i \in 1..k : rows[i] = sorted[i] /\ rows[i] \in T
    BY <2>1
  <2> QED
    BY <2>2 DEF T, n
<1> HIDE DEF rows
<1>6. \A i, j \in DOMAIN rows : i < j => rows[i].pid < rows[j].pid
  BY <1>4, <1>5
<1>7. ASSUME ~(cut \/ k < Len(table)), NEW s \in stayed
      PROVE  \E i \in DOMAIN rows :
               rows[i].pid = s[1] /\ rows[i].stat = s[2] /\ rows[i].status \in {0, s[2]}
  <2>1. k = Len(table)
    <3>1. k \in Int /\ Len(table) \in Int /\ k <= Len(table) /\ ~(k < Len(table))
      BY <1>3, <1>7
    <3> QED
      BY <3>1
  <2>2. s[1] \in {table[i].pid : i \in DOMAIN table}
    <3>1. ToSet(queue) = {}
      BY <1>1 DEF ToSet
    <3> QED
      BY <1>1, <1>7, <3>1 DEF PsWorking
  <2>3. PICK t \in ToSet(table) : t.pid = s[1]
    BY <2>2 DEF ToSet
  <2>4. t.stat = s[2] /\ t.status \in {0, s[2]}
    BY <1>1, <2>3 DEF PsWorking
  <2>5. PICK i \in 1..k : rows[i] = t
    BY <1>4, <1>5, <2>1
  <2> QED
    BY <1>5, <2>3, <2>4, <2>5
<1>8. ASSUME NEW i \in DOMAIN rows
      PROVE  /\ <<rows[i].pid, rows[i].stat>> \in lived
             /\ {rows[i].status, rows[i].cmd} \subseteq Ever(rows[i].pid)
             /\ rows[i].pid = Self => ~rows[i].args
  BY <1>1, <1>5 DEF PsWorking
<1>9. Len(rows) <= PsMaxProcs
  <2>1. k \in Int /\ Len(table) \in Int /\ PsMaxProcs \in Int /\ k <= Len(table) /\ Len(table) <= PsMaxProcs
    BY <1>1, <1>3, HostToolsAssumption DEF PsWorking
  <2> QED
    BY <1>5, <2>1
<1>10. PsSnapshot'
  <2>1. /\ reply'.rows = rows /\ (reply'.truncated <=> cut \/ k < Len(table))
        /\ stayed' = stayed /\ lived' = lived
    BY <1>2, <1>4
  <2> QED
    BY <1>6, <1>7, <1>8, <1>9, <2>1 DEF PsSnapshot, Ever
<1>11. JournalHonest'
  BY <1>1, <1>2 DEF HostInv, JournalHonest, Answered
<1> QED
  BY <1>1, <1>2, <1>10, <1>11, Answers DEF DiskTable, Answered

\* A process exits while ps reads.
LEMMA ProcExitsStep ==
  ASSUME HostInv, NEW p \in Pids, ProcExits(p)
  PROVE  HostInv'
<1>1. /\ task = "ps" /\ step # "done" /\ procs' = [procs EXCEPT ![p] = 0]
      /\ stayed' = stayed \ {<<p, procs[p]>>}
      /\ UNCHANGED <<mounts, maxOut, task, step, queue, row, cut, stdout, written, table, lived>>
  BY DEF ProcExits
<1>2. PsWorking /\ DOMAIN procs = Pids /\ cut \in BOOLEAN
  BY <1>1 DEF HostInv
<1>3. /\ DOMAIN procs' = Pids /\ procs'[p] = 0
      /\ \A q \in Pids : q # p => procs'[q] = procs[q]
  BY <1>1, <1>2
<1>4. Alive' \subseteq Alive /\ stayed' \subseteq Alive' /\ stayed' \subseteq stayed
  <2>1. \A s \in Alive' : s \in Alive
    BY <1>3 DEF Alive
  <2>2. \A s \in stayed : s # <<p, procs[p]>> => s \in Alive'
    BY <1>2, <1>3 DEF PsWorking, Alive
  <2> QED
    BY <1>1, <2>1, <2>2
<1>5. \A q : Ever(q)' = Ever(q)
  BY <1>1 DEF Ever
<1>6. PsWorking'
  BY <1>1, <1>2, <1>4, <1>5 DEF PsWorking
<1> QED
  BY <1>1, <1>2, <1>3, <1>6, PsKeeps

\* A process starts while ps reads, perhaps with a number that was another's.
LEMMA ProcStartsStep ==
  ASSUME HostInv, NEW p \in Pids, ProcStarts(p)
  PROVE  HostInv'
<1> DEFINE nth == 1 + Cardinality({l \in lived : l[1] = p})
<1>1. /\ task = "ps" /\ step # "done" /\ procs[p] = 0 /\ procs' = [procs EXCEPT ![p] = nth]
      /\ lived' = lived \cup {<<p, nth>>}
      /\ UNCHANGED <<mounts, maxOut, task, step, queue, row, cut, stdout, written, table, stayed>>
  BY DEF ProcStarts
<1> HIDE DEF nth
<1>2. PsWorking /\ DOMAIN procs = Pids /\ cut \in BOOLEAN
  BY <1>1 DEF HostInv
<1>3. /\ DOMAIN procs' = Pids /\ procs'[p] = nth
      /\ \A q \in Pids : q # p => procs'[q] = procs[q]
  BY <1>1, <1>2
<1>4. Alive' \subseteq lived' /\ stayed \subseteq Alive'
  <2>1. \A s \in Alive' : s \in Alive \/ s = <<p, nth>>
    BY <1>3 DEF Alive
  <2>2. \A s \in stayed : s \in Alive'
    BY <1>1, <1>2, <1>3 DEF PsWorking, Alive
  <2> QED
    BY <1>1, <1>2, <2>1, <2>2 DEF PsWorking
<1>5. \A q : Ever(q) \subseteq Ever(q)'
  BY <1>1 DEF Ever
<1>6. PsWorking'
  BY <1>1, <1>2, <1>4, <1>5 DEF PsWorking
<1> QED
  BY <1>1, <1>2, <1>3, <1>6, PsKeeps

\* A tool that cannot start says so.
LEMMA StartErrorStep ==
  ASSUME HostInv, NEW tool \in {"ps", "disk", "journal"}, StartError(tool)
  PROVE  HostInv'
<1>1. /\ task = "none" /\ task' = tool /\ step' = "done" /\ reply'.err = "unavailable"
      /\ UNCHANGED <<procs, mounts, maxOut, cut, stdout, written>>
  BY DEF StartError, worldVars, history, Error, NoReply
<1>2. PsSnapshot' /\ DiskTable' /\ JournalHonest'
  BY <1>1 DEF HostInv, PsSnapshot, DiskTable, JournalHonest, Answered
<1> QED
  BY <1>1, <1>2 DEF HostInv

\* The child fails, or the context ends.
LEMMA GivesUpStep ==
  ASSUME HostInv, ChildFails \/ HostCtxDone
  PROVE  HostInv'
<1>1. task # "none"
  BY DEF HostInv, ChildFails, HostCtxDone, AtEntry
<1>2. Error("journalctl").err # "none" /\ Error("context").err # "none"
  BY DEF Error, NoReply
<1> QED
  BY <1>1, <1>2, Answers DEF ChildFails, HostCtxDone

\* Each step keeps the invariant.
LEMMA HostInvStep == HostInv /\ [HostNext]_hostVars => HostInv'
<1> SUFFICES ASSUME HostInv, [HostNext]_hostVars PROVE HostInv'
  OBVIOUS
<1>1. CASE \E tool \in {"ps", "disk", "journal"} : StartError(tool)
  BY <1>1, StartErrorStep
<1>2. CASE PsStarts \/ PsFull \/ PsStat \/ PsStatFails \/ PsStatus \/ PsCmdline
  BY <1>2, PsStartsStep, PsFullStep, PsStatStep, PsStatFailsStep, PsStatusStep, PsCmdlineStep
<1>3. CASE DiskStarts \/ DiskSkips \/ DiskLine \/ DiskStatfsFails
  BY <1>3, DiskStartsStep, DiskSkipsStep, DiskLineStep, DiskStatfsFailsStep
<1>4. CASE \E k \in 0..Len(table) : PsEnds(k) \/ DiskEnds(k)
  BY <1>4, PsEndsStep, DiskEndsStep
<1>5. CASE JournalStarts \/ ChildExits \/ ChildFails \/ HostCtxDone
  BY <1>5, JournalStartsStep, ChildExitsStep, GivesUpStep
<1>6. CASE \E chunk \in Chunks : ChildWrites(chunk)
  BY <1>6, ChildWritesStep
<1>7. CASE \E p \in Pids : ProcExits(p) \/ ProcStarts(p)
  BY <1>7, ProcExitsStep, ProcStartsStep
<1>8. CASE (\E m \in MountLines : NewMount(m)) \/ (\E i \in DOMAIN mounts : Unmount(i))
  BY <1>8, NewMountStep, UnmountStep
<1>9. CASE UNCHANGED hostVars
  <2>1. UNCHANGED <<procs, mounts, maxOut, task, step, queue, row, table, points, cut, stdout,
                    reply, lived, stayed, written>>
    BY <1>9 DEF hostVars, worldVars, history
  <2>2. (Idle <=> Idle') /\ (JournalWorking <=> JournalWorking')
    BY <2>1 DEF Idle, JournalWorking, StdoutCap
  <2>3. DiskWorking <=> DiskWorking'
    BY <2>1 DEF DiskWorking, InSight
  <2>4. Alive' = Alive /\ \A p : Ever(p)' = Ever(p)
    BY <2>1 DEF Alive, Ever
  <2>5. PsWorking <=> PsWorking'
    BY <2>1, <2>4 DEF PsWorking
  <2>6. PsSnapshot <=> PsSnapshot'
    BY <2>1 DEF PsSnapshot, Answered
  <2>7. DiskTable <=> DiskTable'
    BY <2>1 DEF DiskTable, Answered
  <2>8. JournalHonest <=> JournalHonest'
    BY <2>1 DEF JournalHonest, Answered
  <2> QED
    BY <2>1, <2>2, <2>3, <2>5, <2>6, <2>7, <2>8 DEF HostInv
<1> QED
  BY <1>1, <1>2, <1>3, <1>4, <1>5, <1>6, <1>7, <1>8, <1>9 DEF HostNext

-----------------------------------------------------------------------------
(***************************************************************************)
(* What the tools tell.                                                    *)
(***************************************************************************)

\* What a tool holds of the host while it works is right: the rows of ps are of
\* processes that have been there, those of disk of the file systems at their mount
\* points, and the bytes of journal are those that were written.
THEOREM HostInvariant == HostSpec => []HostInv
  BY HostInvInit, HostInvStep, PTL DEF HostSpec

\* For any number of processes that start and exit while ps reads /proc, and numbers
\* that are used again, and reads that fail: its table is in order, has every process that
\* stays and whose stat can be read unless marked as truncated, mixes only processes that
\* had one number in turn, and hides the server's arguments (tool_ps.go:58-183).
THEOREM PsTellsTheTruth == HostSpec => []PsSnapshot
<1>1. HostInv => PsSnapshot
  BY DEF HostInv
<1> QED
  BY <1>1, HostInvariant, PTL

\* For any table of mounts, with file systems mounted and unmounted while disk runs: no
\* mount point is listed twice, and what stays in sight and answers is listed with its
\* own, correctly rounded, usage
\* (tool_disk.go:57-113).
THEOREM DiskTellsTheTruth == HostSpec => []DiskTable
<1>1. HostInv => DiskTable
  BY DEF HostInv
<1> QED
  BY <1>1, HostInvariant, PTL

\* Whatever journalctl writes, in whatever pieces, and for any cap: the answer is all
\* of it, or as many whole runes of its beginning as the cap allows, marked as truncated
\* (tool_journal.go:96-127, util.go:28-51).
THEOREM JournalTellsTheTruth == HostSpec => []JournalHonest
<1>1. HostInv => JournalHonest
  BY DEF HostInv
<1> QED
  BY <1>1, HostInvariant, PTL

-----------------------------------------------------------------------------
(***************************************************************************)
(* The list tool, for directories of any size and any bound on the heap.   *)
(* ListInv is inductive: the heap alone is not enough, since a listing is  *)
(* right only if every entry that stays is read exactly once before the    *)
(* names are looked up.                                                    *)
(***************************************************************************)

\* The initial states satisfy the invariant.
LEMMA ListInit == Init => ListInv
<1> SUFFICES ASSUME Init PROVE ListInv
  OBVIOUS
<1>1. IsFiniteSet(kept) /\ Cardinality(kept) = 0
  BY FS_EmptySet DEF Init
<1>2. TypeOK
  <2>1. kept \subseteq Names /\ IsFiniteSet(kept) /\ Cardinality(kept) <= MaxListEntries
    BY <1>1, ListAssumption DEF Init
  <2>2. out \in Seq(Names) /\ entries \subseteq Names
    BY DEF Init
  <2> QED
    BY <2>1, <2>2 DEF Init, TypeOK
<1>3. HeapIsPrefix
  BY DEF Init, HeapIsPrefix
<1>4. ScanInv
  BY DEF Init, ScanInv
<1>5. PrintInv
  BY DEF Init, PrintInv, Printed
<1> QED
  BY <1>2, <1>3, <1>4, <1>5 DEF ListInv

\* A step of the scan that takes a name keeps the order of reading and printing.
LEMMA TakesKeeps ==
  ASSUME ListInv, NEW n \in Names, Takes(n)
  PROVE  ScanInv' /\ PrintInv'
<1>1. out' = <<>> /\ todo' = {} /\ pc = "scan" /\ pc' = "scan"
  BY DEF ListInv, PrintInv, Takes
<1>2. ScanInv'
  BY <1>1 DEF ListInv, ScanInv, Takes, Shown
<1>3. PrintInv'
  BY <1>1 DEF PrintInv, Printed
<1> QED
  BY <1>2, <1>3

\* Taking a name keeps the type of everything but the heap.
LEMMA TakesType ==
  ASSUME ListInv, NEW n \in Names, Takes(n), truncated' \in BOOLEAN,
         kept' \subseteq Names, IsFiniteSet(kept'), Cardinality(kept') <= MaxListEntries
  PROVE  TypeOK'
<1>1. todo = {}
  BY DEF ListInv, PrintInv, Takes
<1> QED
  BY <1>1 DEF ListInv, TypeOK, Takes

\* The heap has room, so it holds every name seen, and the new one joins it.
LEMMA PushStep ==
  ASSUME ListInv, NEW n \in Names, Push(n)
  PROVE  ListInv'
<1>1. kept = seen /\ n \notin kept /\ truncated = FALSE
  BY ListAssumption DEF ListInv, HeapIsPrefix, ScanInv, TypeOK, Push, Takes
<1>2. IsFiniteSet(kept') /\ Cardinality(kept') = Cardinality(kept) + 1
  BY <1>1, FS_AddElement DEF ListInv, TypeOK, Push
<1>3. Cardinality(kept) \in Nat
  BY FS_CardinalityType DEF ListInv, TypeOK
<1>4. Cardinality(kept') <= MaxListEntries
  BY <1>2, <1>3, ListAssumption DEF Push
<1>5. TypeOK'
  BY <1>2, <1>4, TakesType DEF Push, ListInv, TypeOK
<1>6. HeapIsPrefix'
  BY <1>1 DEF Push, Takes, HeapIsPrefix
<1> QED
  BY <1>5, <1>6, TakesKeeps DEF ListInv, Push

\* The new name takes the place of the largest: the heap stays the prefix, for what
\* was left out earlier lies behind the old root, and so behind every name kept.
LEMMA ReplaceStep ==
  ASSUME ListInv, NEW n \in Names, NEW root \in Names, Replace(n, root)
  PROVE  ListInv'
<1>1. n \notin seen /\ n \notin kept /\ root \in kept /\ root # n
  BY ListAssumption DEF ListInv, HeapIsPrefix, ScanInv, TypeOK, Replace, Takes, Root
<1>2. IsFiniteSet(kept \ {root}) /\ Cardinality(kept \ {root}) = Cardinality(kept) - 1
  BY <1>1, FS_RemoveElement DEF ListInv, TypeOK
<1>3. IsFiniteSet(kept') /\ Cardinality(kept') = Cardinality(kept) - 1 + 1
  BY <1>1, <1>2, FS_AddElement DEF Replace
<1>4. Cardinality(kept) \in Nat
  BY FS_CardinalityType DEF ListInv, TypeOK
<1>5. Cardinality(kept') = MaxListEntries
  BY <1>3, <1>4, ListAssumption DEF Replace, ListInv, TypeOK
<1>6. TypeOK'
  <2>1. kept' \subseteq Names /\ truncated' \in BOOLEAN
    BY DEF Replace, ListInv, TypeOK
  <2> QED
    BY <1>3, <1>5, <2>1, ListAssumption, TakesType DEF Replace
<1>7. HeapIsPrefix'
  <2>1. kept' \subseteq seen' /\ root \in seen' \ kept'
    BY <1>1 DEF ListInv, HeapIsPrefix, Replace, Takes
  <2>2. ASSUME NEW x \in kept', NEW y \in seen' \ kept' PROVE x < y
    <3>1. x \in Int /\ y \in Int /\ n \in Int /\ root \in Int
      BY <2>2, ListAssumption DEF ListInv, TypeOK, Replace, Takes
    <3>2. x < root
      BY <2>2, <3>1, ListAssumption DEF Replace, Root, ListInv, TypeOK
    <3>3. y = root \/ root < y
      BY <1>1, <2>2 DEF Replace, Takes, ListInv, HeapIsPrefix
    <3> QED
      BY <3>1, <3>2, <3>3
  <2> QED
    BY <1>5, <2>1, <2>2 DEF HeapIsPrefix, Replace
<1> QED
  BY <1>6, <1>7, TakesKeeps DEF ListInv, Replace

\* A name behind the root of a full heap is left out.
LEMMA LeaveOutStep ==
  ASSUME ListInv, NEW n \in Names, NEW root \in Names, LeaveOut(n, root)
  PROVE  ListInv'
<1>1. n \notin seen /\ n \notin kept /\ root \in kept /\ root < n
  BY ListAssumption DEF ListInv, HeapIsPrefix, ScanInv, TypeOK, LeaveOut, Takes, Root
<1>2. Cardinality(kept) \in Nat
  BY FS_CardinalityType DEF ListInv, TypeOK
<1>3. Cardinality(kept) = MaxListEntries
  BY <1>2, ListAssumption DEF LeaveOut, ListInv, TypeOK
<1>4. TypeOK'
  <2>1. truncated' \in BOOLEAN /\ kept' = kept
    BY DEF LeaveOut
  <2> QED
    BY <2>1, TakesType DEF LeaveOut, ListInv, TypeOK
<1>5. HeapIsPrefix'
  <2>1. kept' \subseteq seen' /\ n \in seen' \ kept'
    BY <1>1 DEF ListInv, HeapIsPrefix, LeaveOut, Takes
  <2>2. ASSUME NEW x \in kept', NEW y \in seen' \ kept' PROVE x < y
    <3>1. x \in Int /\ y \in Int /\ n \in Int /\ root \in Int
      BY <2>2, ListAssumption DEF ListInv, TypeOK, LeaveOut, Takes
    <3>2. x <= root
      BY <2>2 DEF LeaveOut, Root
    <3>3. y = n \/ x < y
      BY <2>2 DEF LeaveOut, Takes, ListInv, HeapIsPrefix
    <3> QED
      BY <1>1, <3>1, <3>2, <3>3
  <2> QED
    BY <1>3, <2>1, <2>2 DEF HeapIsPrefix, LeaveOut
<1> QED
  BY <1>4, <1>5, TakesKeeps DEF ListInv, LeaveOut

\* The smallest of the names still to print is skipped, for its Lstat fails.
LEMMA SkipStep ==
  ASSUME ListInv, NEW n \in Names, SkipName(n)
  PROVE  ListInv'
<1>1. TypeOK'
  BY DEF ListInv, TypeOK, SkipName, LooksUp
<1>2. HeapIsPrefix'
  BY DEF ListInv, HeapIsPrefix, SkipName, LooksUp
<1>3. ScanInv'
  BY DEF ListInv, ScanInv, SkipName, LooksUp, Shown
<1>4. PrintInv'
  BY DEF ListInv, PrintInv, SkipName, LooksUp, Printed
<1> QED
  BY <1>1, <1>2, <1>3, <1>4 DEF ListInv

\* The smallest of the names still to print is printed.
LEMMA PrintStep ==
  ASSUME ListInv, NEW n \in Names, PrintName(n)
  PROVE  ListInv'
<1>1. out \in Seq(Names) /\ n \in kept /\ n \in todo /\ pc = "print" /\ Names \subseteq Int
  BY ListAssumption DEF ListInv, TypeOK, PrintName, LooksUp
<1>2. TypeOK'
  BY <1>1 DEF ListInv, TypeOK, PrintName, LooksUp
<1>3. HeapIsPrefix'
  BY DEF ListInv, HeapIsPrefix, PrintName, LooksUp
<1>4. ScanInv'
  BY DEF ListInv, ScanInv, PrintName, LooksUp, Shown
<1>5. PrintInv'
  <2>1. \A y \in todo' : y \in todo /\ n < y
    BY <1>1, ListAssumption DEF ListInv, TypeOK, PrintName, LooksUp
  <2>2. /\ DOMAIN out' = 1..(Len(out) + 1) /\ DOMAIN out = 1..Len(out) /\ Len(out) \in Nat
        /\ out'[Len(out) + 1] = n
        /\ \A i \in DOMAIN out : out'[i] = out[i]
    BY <1>1 DEF PrintName
  <2>3. Printed' = Printed \cup {n}
    BY <2>2 DEF Printed
  <2>4. \A i \in DOMAIN out' : \A y \in todo' : out'[i] < y
    BY <2>1, <2>2 DEF ListInv, PrintInv
  <2>5. \A i, k \in DOMAIN out' : i < k => out'[i] < out'[k]
    BY <1>1, <2>2 DEF ListInv, PrintInv
  <2> QED
    BY <1>1, <2>3, <2>4, <2>5 DEF ListInv, PrintInv, PrintName, LooksUp
<1> QED
  BY <1>2, <1>3, <1>4, <1>5 DEF ListInv

\* The output cap cuts names off the end, which lie behind all that is left.
LEMMA FinishStep ==
  ASSUME ListInv, NEW k \in 0..Len(out), Finish(k)
  PROVE  ListInv'
<1>1. out \in Seq(Names) /\ Len(out) \in Nat /\ DOMAIN out = 1..Len(out)
  BY DEF ListInv, TypeOK
<1>2. /\ out' \in Seq(Names) /\ DOMAIN out' = 1..k
      /\ \A i \in 1..k : i \in DOMAIN out /\ out'[i] = out[i]
  BY <1>1 DEF Finish
<1>3. TypeOK'
  BY <1>2 DEF ListInv, TypeOK, Finish
<1>4. HeapIsPrefix' /\ ScanInv'
  BY DEF ListInv, HeapIsPrefix, ScanInv, Finish, Shown
<1>5. PrintInv'
  <2>1. Printed' \subseteq Printed
    BY <1>2 DEF Printed
  <2>2. \A i, j \in DOMAIN out' : i < j => out'[i] < out'[j]
    BY <1>2 DEF ListInv, PrintInv
  <2>3. ASSUME NEW n \in (kept' \cap steady') \ Printed'
        PROVE  capTrunc' /\ \A x \in Printed' : x < n
    <3>1. n \in Printed
      BY DEF ListInv, PrintInv, Finish
    <3>2. PICK j \in DOMAIN out : out[j] = n
      BY <3>1 DEF Printed
    <3>3. j \in Nat /\ k < j /\ j <= Len(out)
      BY <1>1, <1>2, <2>3, <3>2 DEF Printed
    <3>4. ASSUME NEW i \in 1..k PROVE out'[i] < n
      BY <1>1, <1>2, <3>2, <3>3 DEF ListInv, PrintInv
    <3>5. k < Len(out)
      BY <1>1, <3>3
    <3>6. capTrunc'
      BY <3>5, Zenon DEF Finish
    <3>7. \A x \in Printed' : x < n
      BY <1>2, <3>4 DEF Printed
    <3> QED
      BY <3>6, <3>7
  <2> QED
    BY <2>1, <2>2, <2>3 DEF ListInv, PrintInv, Finish
<1> QED
  BY <1>3, <1>4, <1>5 DEF ListInv

\* Every step preserves the invariant.
LEMMA ListNext == ListInv /\ [Next]_vars => ListInv'
<1> SUFFICES ASSUME ListInv, [Next]_vars PROVE ListInv'
  OBVIOUS
<1> USE DEF ListInv
<1>1. CASE Start
  <2>1. kept' = kept /\ seen' = seen /\ todo' = todo /\ out' = out /\ truncated' = truncated
    BY <1>1 DEF Start
  <2>2. TypeOK' /\ HeapIsPrefix'
    BY <1>1, <2>1 DEF Start, TypeOK, HeapIsPrefix
  <2>3. ScanInv'
    BY <1>1 DEF Start, ScanInv, Shown
  <2>4. PrintInv'
    BY <1>1 DEF Start, PrintInv, Printed
  <2> QED
    BY <2>2, <2>3, <2>4
<1>2. ASSUME NEW n \in Names, Push(n) PROVE ListInv'
  BY <1>2, PushStep
<1>3. ASSUME NEW n \in Names, SkipDotfile(n) PROVE ListInv'
  BY <1>3 DEF SkipDotfile, TypeOK, HeapIsPrefix, ScanInv, PrintInv, Printed, Shown
<1>4. ASSUME NEW n \in Names, PrintName(n) \/ SkipName(n) PROVE ListInv'
  BY <1>4, PrintStep, SkipStep
<1>5. ASSUME NEW n \in Names, Create(n) PROVE ListInv'
  BY <1>5 DEF Create, TypeOK, HeapIsPrefix, ScanInv, PrintInv, Printed, Shown
<1>6. ASSUME NEW n \in Names, Unlink(n) PROVE ListInv'
  <2>1. TypeOK' /\ HeapIsPrefix'
    BY <1>6 DEF Unlink, TypeOK, HeapIsPrefix
  <2>2. ScanInv'
    BY <1>6 DEF Unlink, ScanInv, Shown
  <2>3. PrintInv'
    BY <1>6 DEF Unlink, PrintInv, Printed
  <2> QED
    BY <2>1, <2>2, <2>3
<1>7. ASSUME NEW n \in Names, NEW root \in Names, Replace(n, root) PROVE ListInv'
  BY <1>7, ReplaceStep
<1>8. ASSUME NEW n \in Names, NEW root \in Names, LeaveOut(n, root) PROVE ListInv'
  BY <1>8, LeaveOutStep
<1>9. CASE ScanEnds
  <2>1. TypeOK' /\ HeapIsPrefix' /\ ScanInv'
    BY <1>9 DEF ScanEnds, TypeOK, HeapIsPrefix, ScanInv, Shown
  <2>2. out' = <<>> /\ todo' = kept'
    BY <1>9 DEF ScanEnds, PrintInv
  <2>3. PrintInv'
    BY <1>9, <2>2 DEF ScanEnds, PrintInv, Printed
  <2> QED
    BY <2>1, <2>3
<1>10. ASSUME NEW k \in 0..Len(out), Finish(k) PROVE ListInv'
  BY <1>10, FinishStep
<1>11. CASE Fail
  BY <1>11 DEF Fail, TypeOK, HeapIsPrefix, ScanInv, PrintInv, Printed, Shown
<1>12. CASE UNCHANGED vars
  BY <1>12 DEF vars, TypeOK, HeapIsPrefix, ScanInv, PrintInv, Printed, Shown
<1> QED
  BY <1>1, <1>2, <1>3, <1>4, <1>5, <1>6, <1>7, <1>8, <1>9, <1>10, <1>11, <1>12 DEF Next

\* The invariant holds in every reachable state.
THEOREM ListInvariant == Spec => []ListInv
  BY ListInit, ListNext, PTL DEF Spec

\* The heap of the scan is always the alphabetical prefix of the names seen, and the
\* truncated flag tells whether one is missing (tool_list.go:84-118).
THEOREM HeapCorrect == Spec => []HeapIsPrefix
<1>1. ListInv => HeapIsPrefix
  BY DEF ListInv
<1> QED
  BY <1>1, ListInvariant, PTL

\* A finished listing is in order and leaves out an entry that was there all the time,
\* and whose Lstat did not fail, only if it says so and only behind the names it lists.
THEOREM ListingCorrect == Spec => []ListingIsPrefix
<1>1. ListInv => ListingIsPrefix
  <2> SUFFICES ASSUME ListInv, pc = "done",
                      NEW n \in (steady \cap Shown) \ Printed
               PROVE  (truncated \/ capTrunc) /\ \A x \in Printed : x < n
    BY DEF ListingIsPrefix, ListInv, PrintInv
  <2>1. CASE n \in kept
    BY <2>1 DEF ListInv, PrintInv
  <2>2. CASE n \notin kept
    <3>1. n \in seen \ kept
      BY <2>2 DEF ListInv, ScanInv
    <3> QED
      BY <3>1 DEF ListInv, HeapIsPrefix, PrintInv
  <2> QED
    BY <2>1, <2>2
<1> QED
  BY <1>1, ListInvariant, PTL
=============================================================================
