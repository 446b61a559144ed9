-------------------------------- MODULE Jail --------------------------------
(***************************************************************************)
(* The path jail of the file tools (internal/tools/jail.go).  The roots    *)
(* are resolved once, when the server starts; a path is resolved at every  *)
(* request, on whatever the filesystem has become by then.                 *)
(*                                                                         *)
(* A name is a sequence of letters, a path the sequence of its names from  *)
(* the filesystem root.  A node of the filesystem is absent, a directory,  *)
(* a regular file, or a symlink to a path.  The check and the use of a     *)
(* resolved path are one step here: a host that changes its filesystem     *)
(* between the two is outside what the jail claims.                        *)
(***************************************************************************)
EXTENDS Integers, Sequences, SequencesExt

CONSTANTS
  Names,     \* the file names, sequences of letters
  MaxDepth,  \* how deep the filesystem is
  Targets,   \* the paths symlinks point to
  Given,     \* the sets of paths the server may be started on
  Inputs,    \* the paths clients ask for: [abs : BOOLEAN, comps : Seq]
  Cwd,       \* the working directory of the server
  MaxTarget, \* how many names such a path has at most
  MaxLinks   \* how many symlinks EvalSymlinks follows before it gives up

\* The name that stands for the parent directory.
Up == <<".", ".">>

\* A file name is not empty and has no separator in it.
ASSUME NameAssumption ==
  \A x \in Names : x \in Seq(ToSet(x)) \ {<<>>} /\ "/" \notin ToSet(x) /\ x # Up

ASSUME JailAssumption ==
  /\ MaxDepth \in Nat /\ MaxTarget \in Nat /\ MaxLinks \in Nat
  /\ \A t \in Targets : t \in Seq(Names) /\ Len(t) <= MaxTarget
  /\ \A given \in Given : given \subseteq Seq(Names)
  /\ \A in \in Inputs : in.abs \in BOOLEAN /\ in.comps \in Seq(Names \cup {Up})
  /\ Cwd \in Seq(Names)

Paths == UNION {[1..n -> Names] : n \in 1..MaxDepth}

Absent == [kind |-> "absent", to |-> <<>>]
Nodes ==
  {Absent} \cup [kind : {"dir", "file"}, to : {<<>>}] \cup [kind : {"link"}, to : Targets]

\* What is not absent is an entry of a directory.
WellFormed(f) ==
  \A p \in Paths : Len(p) > 1 /\ f[p].kind # "absent" => f[Front(p)].kind = "dir"

VARIABLES
  fs,    \* the filesystem: a node for every path below the root
  jail,  \* JailSet.roots, empty until NewJailSet has returned
  last   \* the last request: its tool call, its path and what came back

vars == <<fs, jail, last>>

NoJail == {}
NoRequest == [call |-> "none", path |-> <<>>, err |-> "none", real |-> <<>>]

Init ==
  /\ fs \in {f \in [Paths -> Nodes] : WellFormed(f)}
  /\ jail = NoJail
  /\ last = NoRequest

-----------------------------------------------------------------------------

\* The node of a physical path.
NodeAt(p) ==
  IF p = <<>> THEN [kind |-> "dir", to |-> <<>>]
  ELSE IF p \in Paths THEN fs[p] ELSE Absent

\* filepath.EvalSymlinks (the Go library) walks name by name.  It is in the physical
\* directory s.done, or at a file, with the names in s.todo still to walk, and has
\* followed s.links symlinks.
At(done, todo, links) == [done |-> done, todo |-> todo, links |-> links, err |-> "none"]
Ended(s) == s.err # "none" \/ s.todo = <<>>

Step(s) ==
  LET p == Append(s.done, Head(s.todo))
      kind == IF NodeAt(s.done).kind = "file" THEN "below a file" ELSE NodeAt(p).kind
  IN  IF Ended(s) THEN s
      ELSE CASE kind = "below a file" -> [s EXCEPT !.err = "not a directory"]
             [] kind = "absent" -> [s EXCEPT !.err = "not exist"]
             [] kind \in {"dir", "file"} -> At(p, Tail(s.todo), s.links)
             [] kind = "link" /\ s.links < MaxLinks ->
                  At(<<>>, NodeAt(p).to \o Tail(s.todo), s.links + 1)
             [] kind = "link" /\ s.links >= MaxLinks -> [s EXCEPT !.err = "too many links"]

\* How many steps a walk may still take: a step walks a name, or follows a link.
StepsLeft(s) == Len(s.todo) + (MaxLinks - s.links) * MaxTarget

Walk(s) ==
  LET walk[i \in 0..StepsLeft(s)] == IF i = 0 THEN s ELSE Step(walk[i - 1])
  IN  walk[StepsLeft(s)]

EvalSymlinks(p) ==
  LET end == Walk(At(<<>>, p, 0))
  IN  [err |-> end.err, real |-> IF end.err = "none" THEN end.done ELSE <<>>]

\* filepath.Clean on the components of an absolute path: lexical, before any
\* symlink is looked at.
Clean(comps) ==
  LET clean[i \in 0..Len(comps)] ==
        CASE i > 0 /\ comps[i] # Up -> Append(clean[i - 1], comps[i])
          [] i > 0 /\ comps[i] = Up /\ clean[i - 1] # <<>> -> Front(clean[i - 1])
          [] OTHER -> <<>>
  IN  clean[Len(comps)]

\* A path as the string the prefix test sees.
Str(p) ==
  IF p = <<>> THEN <<"/">> ELSE FlattenSeq([i \in 1..Len(p) |-> <<"/">> \o p[i]])

MutantContains(real) ==
  \E root \in jail : IsPrefix(Str(root), Str(real))

\* JailSet.contains: equal to a root, or longer with a separator in between.
contains(real) ==
  \E root \in jail :
    LET s == Str(root)
        prefix == IF Last(s) = "/" THEN s ELSE Append(s, "/")
    IN  real = root \/ IsPrefix(prefix, Str(real))

MutantResolveExisting(p) ==
  LET r == EvalSymlinks(p)
  IN  IF r.err # "not exist" THEN [err |-> r.err, real |-> r.real, exists |-> TRUE]
      ELSE [err |-> "none", real |-> p, exists |-> FALSE]

\* The symlinks of the longest existing prefix of p are resolved; a missing path has
\* the names behind its nearest existing parent put back on that parent's place.
resolveExisting(p) ==
  LET r == EvalSymlinks(p)
      parent(i) == EvalSymlinks(SubSeq(p, 1, i))
      i == Max({k \in 0..(Len(p) - 1) : parent(k).err # "not exist"})
  IN  IF r.err # "not exist" THEN [err |-> r.err, real |-> r.real, exists |-> TRUE]
      ELSE [err |-> parent(i).err, real |-> parent(i).real \o SubSeq(p, i + 1, Len(p)),
            exists |-> FALSE]

MutantResolve(in) ==
  LET p == Clean(IF in.abs THEN in.comps ELSE Cwd \o in.comps)
      r == resolveExisting(p)
      answer(err, real) == [path |-> p, err |-> err, real |-> real]
  IN  CASE r.err # "none" -> answer(r.err, <<>>)
        [] r.err = "none" /\ ~contains(p) -> answer("not in jail", <<>>)
        [] r.err = "none" /\ contains(p) /\ ~r.exists -> answer("no such file", <<>>)
        [] OTHER -> answer("none", r.real)

\* JailSet.Resolve. An empty path is refused; one with a NUL byte is not modelled.
Resolve(in) ==
  LET p == Clean(IF in.abs THEN in.comps ELSE Cwd \o in.comps)
      answer(err, real) == [path |-> p, err |-> err, real |-> real]
      judged(r) ==
        CASE r.err # "none" -> answer(r.err, <<>>)
          [] r.err = "none" /\ ~contains(r.real) -> answer("not in jail", <<>>)
          [] r.err = "none" /\ contains(r.real) /\ ~r.exists -> answer("no such file", <<>>)
          [] OTHER -> answer("none", r.real)
  IN  IF ~in.abs /\ in.comps = <<>> THEN answer("empty path", <<>>)
      ELSE judged(resolveExisting(p))

\* JailSet.ResolveFile: os.Stat of the resolved path must show a regular file.
ResolveFile(in) ==
  LET r == Resolve(in)
  IN  IF r.err = "none" /\ NodeAt(r.real).kind # "file"
        THEN [r EXCEPT !.err = "not a regular file", !.real = <<>>]
        ELSE r

-----------------------------------------------------------------------------

\* NewJailSet succeeds when there is a path and every path resolves to a directory.
NewJailSet(given) ==
  /\ jail = NoJail
  /\ given # {}
  /\ \A p \in given : LET r == EvalSymlinks(p)
                      IN  r.err = "none" /\ NodeAt(r.real).kind = "dir"
  /\ jail' = {EvalSymlinks(p).real : p \in given}
  /\ UNCHANGED <<fs, last>>

\* A tool resolves the path of a request: list and grep with Resolve, read, tail
\* and stat with either.
Request(call, in) ==
  /\ jail # NoJail
  /\ last = NoRequest
  /\ LET r == IF call = "file" THEN ResolveFile(in) ELSE Resolve(in)
     IN  last' = [call |-> call, path |-> r.path, err |-> r.err, real |-> r.real]
  /\ UNCHANGED <<fs, jail>>

\* The tool has its answer; the jail keeps nothing of a request.
Answered ==
  /\ last # NoRequest
  /\ last' = NoRequest
  /\ UNCHANGED <<fs, jail>>

\* The host's own processes change the filesystem between requests.
HostChanges(p, n) ==
  /\ last = NoRequest
  /\ n # fs[p]
  /\ WellFormed([fs EXCEPT ![p] = n])
  /\ fs' = [fs EXCEPT ![p] = n]
  /\ UNCHANGED <<jail, last>>

Next ==
  \/ \E given \in Given : NewJailSet(given)
  \/ \E call \in {"path", "file"}, in \in Inputs : Request(call, in)
  \/ Answered
  \/ \E p \in Paths, n \in Nodes : HostChanges(p, n)

Spec == Init /\ [][Next]_vars

-----------------------------------------------------------------------------
(***************************************************************************)
(* Properties.                                                             *)
(***************************************************************************)

\* The reference: where a path really is, name by name from its parent's place.  The
\* entry x of a directory d, if there[t] is the place of the symlink target t:
Entry(d, x, there) ==
  LET n == NodeAt(Append(d, x))
  IN  CASE NodeAt(d).kind # "dir" \/ n.kind = "absent" -> {}
        [] NodeAt(d).kind = "dir" /\ n.kind \in {"dir", "file"} -> {Append(d, x)}
        [] NodeAt(d).kind = "dir" /\ n.kind = "link" -> there[n.to]

Place(p, there) ==
  LET at[i \in 0..Len(p)] ==
        IF i = 0 THEN {<<>>} ELSE UNION {Entry(d, p[i], there) : d \in at[i - 1]}
  IN  at[Len(p)]

\* The places of the symlink targets, through fewer than n further symlinks each.
LinkPlaces(n) ==
  LET there[k \in 0..n] ==
        IF k = 0 THEN [t \in Targets |-> {}] ELSE [t \in Targets |-> Place(t, there[k - 1])]
  IN  there[n]

RealLoc(p) == Place(p, LinkPlaces(MaxLinks))

\* Below a root, name by name.
Inside(p) == \E root \in jail : IsPrefix(root, p)

\* What Resolve hands to a tool is a physical path, free of symlinks, that exists
\* and lies below a root name by name, on the filesystem as it is at the request
\* and whatever it was when the roots were resolved (jail.go:57-63, 112-115); it
\* is a regular file when the tool asked for one (jail.go:95-96).
ResolvedInside ==
  last.call # "none" /\ last.err = "none" =>
    /\ Inside(last.real)
    /\ NodeAt(last.real).kind \in IF last.call = "file" THEN {"file"} ELSE {"dir", "file"}
    /\ \A i \in 1..(Len(last.real) - 1) : NodeAt(SubSeq(last.real, 1, i)).kind = "dir"

\* Resolve is exact: an existing path whose real place is inside is resolved to
\* that place, and one whose real place is outside is refused as outside.
ResolveExact ==
  \A q \in RealLoc(last.path) :
    last.call = "path" /\ last.err \notin {"empty path", "too many links"} =>
      /\ Inside(q) => last.err = "none" /\ last.real = q
      /\ ~Inside(q) => last.err = "not in jail"

\* "no such file" is said only of a path that does not exist and whose deepest
\* existing ancestor, or the path itself, is inside (jail.go:60-62, 132-135).
MissingOnlyInside ==
  last.call # "none" /\ last.err = "no such file" =>
    /\ RealLoc(last.path) = {}
    /\ \E i \in 0..(Len(last.path) - 1) :
         \E q \in RealLoc(SubSeq(last.path, 1, i)) :
           /\ \A k \in (i + 1)..Len(last.path) :
                RealLoc(SubSeq(last.path, 1, k)) = {}
           /\ Inside(q \o SubSeq(last.path, i + 1, Len(last.path)))
=============================================================================
