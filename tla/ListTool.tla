------------------------------ MODULE ListTool ------------------------------
(***************************************************************************)
(* The list tool (internal/tools/tool_list.go): a directory of any size is *)
(* scanned once while only the maxListEntries smallest names are kept, and *)
(* the survivors are then looked up one by one, each of which may fail,    *)
(* all of it while the host creates and removes entries.  Names are        *)
(* integers, in their order.                                               *)
(*                                                                         *)
(* The heap is the set of names in it: container/heap keeps the largest at *)
(* the root.  ReadDir hands over an entry that is there all the time       *)
(* exactly once, one that comes or goes meanwhile once or not at all.      *)
(***************************************************************************)
EXTENDS Integers, Sequences, FiniteSets

CONSTANTS
  Names,          \* the names of directory entries
  Dot,            \* those that begin with a dot
  MaxListEntries  \* maxListEntries

ASSUME ListAssumption ==
  /\ Names \subseteq Int /\ Dot \subseteq Names
  /\ MaxListEntries \in Nat \ {0}

VARIABLES
  entries,    \* the names in the directory
  all,        \* the --all flag of the request
  pc,         \* "idle", "scan", "print", "done" or "failed"
  unread,     \* the entries ReadDir is still to hand over
  kept,       \* the heap
  truncated,  \* whether a name was left out
  todo,       \* the kept names still to be looked up
  out,        \* the names printed so far
  capTrunc,   \* whether the output cap cut the listing
  seen,       \* history: the names the scan has let through the dot filter
  steady      \* history: the entries that have been there since the request, but for
              \* those whose Lstat failed

vars == <<entries, all, pc, unread, kept, truncated, todo, out, capTrunc, seen, steady>>

Init ==
  /\ entries \in SUBSET Names
  /\ all \in BOOLEAN
  /\ pc = "idle"
  /\ unread = {}
  /\ kept = {}
  /\ truncated = FALSE
  /\ todo = {}
  /\ out = <<>>
  /\ capTrunc = FALSE
  /\ seen = {}
  /\ steady = {}

\* The names a request asks for.
Shown == IF all THEN Names ELSE Names \ Dot

-----------------------------------------------------------------------------

\* The directory is opened.
Start ==
  /\ pc = "idle"
  /\ pc' = "scan"
  /\ unread' = entries
  /\ steady' = entries
  /\ UNCHANGED <<entries, all, kept, truncated, todo, out, capTrunc, seen>>

\* ReadDir hands over n, which the scan lets through.
Takes(n) ==
  /\ pc = "scan"
  /\ n \in unread
  /\ unread' = unread \ {n}
  /\ n \in Shown
  /\ seen' = seen \cup {n}
  /\ UNCHANGED <<entries, all, pc, todo, out, capTrunc, steady>>

\* strings.HasPrefix(name, "."): left out without --all.
SkipDotfile(n) ==
  /\ pc = "scan"
  /\ n \in unread \ Shown
  /\ unread' = unread \ {n}
  /\ UNCHANGED <<entries, all, pc, kept, truncated, todo, out, capTrunc, seen, steady>>

MutantPush(n) ==
  /\ Takes(n)
  /\ Cardinality(kept) <= MaxListEntries
  /\ kept' = kept \cup {n}
  /\ UNCHANGED truncated

Push(n) ==
  /\ Takes(n)
  /\ Cardinality(kept) < MaxListEntries
  /\ kept' = kept \cup {n}
  /\ UNCHANGED truncated

\* The root of the heap.
Root(x) == x \in kept /\ \A y \in kept : y <= x

MutantReplace(n, root) ==
  /\ Takes(n)
  /\ Cardinality(kept) >= MaxListEntries
  /\ Root(root) /\ n < root
  /\ kept' = (kept \ {root}) \cup {n}
  /\ UNCHANGED truncated

\* A name before the root takes its place, and heap.Fix finds the new root.
Replace(n, root) ==
  /\ Takes(n)
  /\ Cardinality(kept) >= MaxListEntries
  /\ Root(root) /\ n < root
  /\ kept' = (kept \ {root}) \cup {n}
  /\ truncated' = TRUE

\* A name behind the root is left out.
LeaveOut(n, root) ==
  /\ Takes(n)
  /\ Cardinality(kept) >= MaxListEntries
  /\ Root(root) /\ ~(n < root)
  /\ truncated' = TRUE
  /\ UNCHANGED kept

MutantScanEnds ==
  /\ pc = "scan"
  /\ Cardinality(kept) >= MaxListEntries
  /\ pc' = "print"
  /\ todo' = kept
  /\ UNCHANGED <<entries, all, unread, kept, truncated, out, capTrunc, seen, steady>>

\* io.EOF; the names are sorted.
ScanEnds ==
  /\ pc = "scan"
  /\ unread = {}
  /\ pc' = "print"
  /\ todo' = kept
  /\ UNCHANGED <<entries, all, unread, kept, truncated, out, capTrunc, seen, steady>>

\* os.Lstat is asked about n, the next name in order.
LooksUp(n) ==
  /\ pc = "print"
  /\ n \in todo /\ \A m \in todo : n <= m
  /\ todo' = todo \ {n}
  /\ UNCHANGED <<entries, all, pc, unread, kept, truncated, capTrunc, seen>>

PrintName(n) ==
  /\ LooksUp(n)
  /\ n \in entries
  /\ out' = Append(out, n)
  /\ UNCHANGED steady

\* os.Lstat fails: the entry has gone, or it cannot be looked up (a directory that may
\* be read but not searched, an I/O error). The name is skipped, and nothing marks it.
SkipName(n) ==
  /\ LooksUp(n)
  /\ steady' = steady \ {n}
  /\ UNCHANGED out

\* capOutput: the whole listing is returned, or its first k lines and a part of the
\* next one, for lines are of any length and Limits.MaxOutput is of any value.
Finish(k) ==
  /\ pc = "print"
  /\ todo = {}
  /\ pc' = "done"
  /\ out' = SubSeq(out, 1, k)
  /\ capTrunc' = (k < Len(out))
  /\ UNCHANGED <<entries, all, unread, kept, truncated, todo, seen, steady>>

\* The path is refused or cannot be opened, ReadDir fails, or the context ends
\* between two batches or two names.
Fail ==
  /\ pc \in {"idle", "scan"} \/ (pc = "print" /\ todo # {})
  /\ pc' = "failed"
  /\ UNCHANGED <<entries, all, unread, kept, truncated, todo, out, capTrunc, seen, steady>>

\* The host creates an entry; the scan may still come across it.
Create(n) ==
  /\ pc \in {"scan", "print"}
  /\ n \notin entries
  /\ entries' = entries \cup {n}
  /\ \/ UNCHANGED unread
     \/ pc = "scan" /\ n \notin seen /\ unread' = unread \cup {n}
  /\ UNCHANGED <<all, pc, kept, truncated, todo, out, capTrunc, seen, steady>>

\* The host removes an entry; ReadDir may have it in its buffer already.
Unlink(n) ==
  /\ pc \in {"scan", "print"}
  /\ n \in entries
  /\ entries' = entries \ {n}
  /\ steady' = steady \ {n}
  /\ unread' \in {unread, unread \ {n}}
  /\ UNCHANGED <<all, pc, kept, truncated, todo, out, capTrunc, seen>>

Next ==
  \/ Start
  \/ \E n \in Names : Push(n) \/ SkipDotfile(n) \/ PrintName(n) \/ SkipName(n)
                        \/ Create(n) \/ Unlink(n)
  \/ \E n, root \in Names : Replace(n, root) \/ LeaveOut(n, root)
  \/ ScanEnds
  \/ \E k \in 0..Len(out) : Finish(k)
  \/ Fail

Spec == Init /\ [][Next]_vars

-----------------------------------------------------------------------------
(***************************************************************************)
(* Properties.                                                             *)
(***************************************************************************)

\* Every variable keeps its type, and the heap stays within its bound.
TypeOK ==
  /\ entries \subseteq Names
  /\ all \in BOOLEAN
  /\ pc \in {"idle", "scan", "print", "done", "failed"}
  /\ unread \subseteq Names
  /\ kept \subseteq Names /\ IsFiniteSet(kept) /\ Cardinality(kept) <= MaxListEntries
  /\ truncated \in BOOLEAN
  /\ todo \subseteq kept
  /\ out \in Seq(Names)
  /\ capTrunc \in BOOLEAN
  /\ seen \subseteq Names
  /\ steady \subseteq entries

\* At every moment of the scan the heap is the alphabetical prefix of the names seen
\* so far, full if a name is missing from it, and truncated tells whether one is.
HeapIsPrefix ==
  /\ kept \subseteq seen
  /\ \A x \in kept, y \in seen \ kept : x < y
  /\ kept # seen => Cardinality(kept) = MaxListEntries
  /\ truncated <=> kept # seen

Printed == {out[i] : i \in DOMAIN out}

\* "yields the true alphabetical prefix when the cap is hit" (tool_list.go:84-87):
\* whatever came and went meanwhile, a listing is in order, and an entry that was
\* there all the time and whose Lstat did not fail is missing only from a listing
\* marked as truncated, by the heap or by the output cap, and then comes behind every
\* name listed (an entry whose Lstat fails is left out unmarked, tool_list.go:132-135).
ListingIsPrefix ==
  pc = "done" =>
    /\ \A i, k \in DOMAIN out : i < k => out[i] < out[k]
    /\ \A n \in (steady \cap Shown) \ Printed :
         (truncated \/ capTrunc) /\ \A x \in Printed : x < n
=============================================================================
