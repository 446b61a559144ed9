----------------------------- MODULE JailProofs -----------------------------
(***************************************************************************)
(* Proofs about the path jail, for any names, filesystems, symlinks and    *)
(* roots.  They rest on two facts about symlink resolution: a walk never   *)
(* stands anywhere but at a physical path, and where it ends is the place  *)
(* that the reference finds from the parents.                              *)
(***************************************************************************)
EXTENDS Jail, ToolUtilProofs

\* The filesystem has a node for every path.
FsOK == fs \in [Paths -> Nodes]

\* A path free of symlinks that exists.
Physical(p) ==
  /\ p \in Seq(Names)
  /\ NodeAt(p).kind \in {"dir", "file"}
  /\ \A i \in 1..(Len(p) - 1) : NodeAt(SubSeq(p, 1, i)).kind = "dir"

Errors == {"not a directory", "not exist", "too many links"}

\* The states a walk can be in.
Walks ==
  [done : {p \in Seq(Names) : Physical(p)}, todo : Seq(Names), links : 0..MaxLinks,
   err : {"none"} \cup Errors]

-----------------------------------------------------------------------------
(***************************************************************************)
(* Steps.                                                                  *)
(***************************************************************************)

\* Every path has a node.
LEMMA NodeOf ==
  ASSUME FsOK, NEW p
  PROVE  /\ NodeAt(p) \in Nodes /\ NodeAt(p).kind \in {"absent", "dir", "file", "link"}
         /\ NodeAt(p).kind = "link" => NodeAt(p).to \in Targets
<1>1. Absent \in Nodes /\ [kind |-> "dir", to |-> <<>>] \in Nodes
  BY DEF Nodes, Absent
<1>2. NodeAt(p) \in Nodes
  BY <1>1 DEF NodeAt, FsOK
<1>3. \A n \in Nodes : n.kind \in {"absent", "dir", "file", "link"} /\ (n.kind = "link" => n.to \in Targets)
  BY DEF Nodes, Absent
<1> QED
  BY <1>2, <1>3

\* What a step of the walk s from d does at the node of the name x, if rest is to come.
Steps(s, d, x, rest, l) ==
  LET p == Append(d, x) IN
  /\ ~Ended(s)
  /\ NodeAt(d).kind = "file" => Step(s) = [s EXCEPT !.err = "not a directory"]
  /\ NodeAt(d).kind # "file" =>
       /\ NodeAt(p).kind = "absent" => Step(s) = [s EXCEPT !.err = "not exist"]
       /\ NodeAt(p).kind \in {"dir", "file"} => Step(s) = At(p, rest, l)
       /\ NodeAt(p).kind = "link" /\ l < MaxLinks =>
            Step(s) = At(<<>>, NodeAt(p).to \o rest, l + 1)
       /\ NodeAt(p).kind = "link" /\ ~(l < MaxLinks) =>
            Step(s) = [s EXCEPT !.err = "too many links"]

\* What a step does in front of the name x, by the node of that name.
LEMMA StepOf ==
  ASSUME FsOK, NEW d \in Seq(Names), NEW x \in Names, NEW rest \in Seq(Names), NEW l \in 0..MaxLinks
  PROVE  Steps(At(d, <<x>> \o rest, l), d, x, rest, l)
<1> DEFINE todo == <<x>> \o rest
           s == At(d, todo, l)
           p == Append(d, x)
           kind == IF NodeAt(d).kind = "file" THEN "below a file" ELSE NodeAt(p).kind
<1>1. todo # <<>> /\ Head(todo) = x /\ Tail(todo) = rest
  OBVIOUS
<1> HIDE DEF todo
<1>2. /\ s.done = d /\ s.todo = todo /\ s.links = l /\ s.err = "none" /\ ~Ended(s)
      /\ s = [done |-> d, todo |-> todo, links |-> l, err |-> "none"]
  BY <1>1 DEF At, Ended
<1>3. kind \in {"below a file", "absent", "dir", "file", "link"}
  BY NodeOf
<1> HIDE DEF s
<1>4. NodeAt(d).kind = "file" => kind = "below a file"
  OBVIOUS
<1>5. NodeAt(d).kind # "file" => kind = NodeAt(p).kind
  OBVIOUS
<1>6. NodeAt(p).kind # "below a file"
  BY NodeOf
<1>7. Step(s) =
        CASE kind = "below a file" -> [s EXCEPT !.err = "not a directory"]
          [] kind = "absent" -> [s EXCEPT !.err = "not exist"]
          [] kind \in {"dir", "file"} -> At(p, rest, l)
          [] kind = "link" /\ l < MaxLinks -> At(<<>>, NodeAt(p).to \o rest, l + 1)
          [] kind = "link" /\ l >= MaxLinks -> [s EXCEPT !.err = "too many links"]
  <2>1. s.done = d /\ Head(s.todo) = x /\ Tail(s.todo) = rest /\ s.links = l
    BY <1>1, <1>2
  <2> QED
    BY <1>2, <2>1 DEF Step
<1> HIDE DEF p, kind
<1>10. kind = "below a file" => Step(s) = [s EXCEPT !.err = "not a directory"]
  BY <1>7
<1>11. kind = "absent" => Step(s) = [s EXCEPT !.err = "not exist"]
  BY <1>7
<1>12. kind \in {"dir", "file"} => Step(s) = At(p, rest, l)
  BY <1>7
<1>13. kind = "link" /\ l < MaxLinks => Step(s) = At(<<>>, NodeAt(p).to \o rest, l + 1)
  <2>1. l < MaxLinks => ~(l >= MaxLinks)
    BY JailAssumption
  <2> QED
    BY <1>7, <2>1
<1>14. kind = "link" /\ ~(l < MaxLinks) => Step(s) = [s EXCEPT !.err = "too many links"]
  <2>1. ~(l < MaxLinks) => l >= MaxLinks
    BY JailAssumption
  <2> QED
    BY <1>7, <2>1
<1> QED
  BY <1>2, <1>4, <1>5, <1>10, <1>11, <1>12, <1>13, <1>14 DEF Steps, s, p, todo

\* A walk that has not ended is in front of a name.
LEMMA InFront ==
  ASSUME NEW s \in Walks, ~Ended(s)
  PROVE  \E x \in Names, rest \in Seq(Names) :
           s = At(s.done, <<x>> \o rest, s.links) /\ s.todo = <<x>> \o rest
<1>1. s.todo \in Seq(Names) /\ s.todo # <<>> /\ s.err = "none"
  BY DEF Walks, Ended
<1>2. s = [done |-> s.done, todo |-> s.todo, links |-> s.links, err |-> s.err]
  BY DEF Walks
<1>3. Head(s.todo) \in Names /\ Tail(s.todo) \in Seq(Names) /\ s.todo = <<Head(s.todo)>> \o Tail(s.todo)
  BY <1>1
<1> QED
  BY <1>1, <1>2, <1>3 DEF At

\* Following a link costs a step, also if its target is as long as targets are.
LEMMA LinkCosts ==
  ASSUME NEW l \in 0..MaxLinks, l < MaxLinks, NEW n \in Nat, NEW m \in Nat, m <= MaxTarget
  PROVE  /\ (MaxLinks - l) * MaxTarget \in Nat
         /\ m + n + (MaxLinks - (l + 1)) * MaxTarget <= n + (MaxLinks - l) * MaxTarget
<1>1. MaxLinks \in Nat /\ MaxTarget \in Nat
  BY JailAssumption
<1> DEFINE k == MaxLinks - (l + 1)
<1>2. k \in Nat /\ MaxLinks - l = k + 1
  BY <1>1
<1> HIDE DEF k
<1>3. (k + 1) * MaxTarget = k * MaxTarget + MaxTarget /\ k * MaxTarget \in Nat
  BY <1>1, <1>2
<1> QED
  BY <1>1, <1>2, <1>3 DEF k

\* A step of a walk leads to a walk, which ends or has fewer steps left.
LEMMA StepWalks ==
  ASSUME FsOK, NEW s \in Walks
  PROVE  /\ Step(s) \in Walks /\ StepsLeft(s) \in Nat
         /\ Ended(s) => Step(s) = s
         /\ ~Ended(s) => /\ StepsLeft(s) > 0
                         /\ Ended(Step(s)) \/ StepsLeft(Step(s)) < StepsLeft(s)
<1>1. /\ s.todo \in Seq(Names) /\ Len(s.todo) \in Nat /\ s.links \in 0..MaxLinks
      /\ s.done \in Seq(Names) /\ Physical(s.done)
  BY DEF Walks
<1>2. (MaxLinks - s.links) * MaxTarget \in Nat
  <2>1. MaxLinks - s.links \in Nat /\ MaxTarget \in Nat
    BY <1>1, JailAssumption
  <2> QED
    BY <2>1
<1>3. StepsLeft(s) \in Nat
  BY <1>1, <1>2 DEF StepsLeft
<1>4. CASE Ended(s)
  BY <1>3, <1>4 DEF Step
<1>5. CASE ~Ended(s)
  <2>1. PICK x \in Names, rest \in Seq(Names) :
          s = At(s.done, <<x>> \o rest, s.links) /\ s.todo = <<x>> \o rest
    BY <1>5, InFront
  <2> DEFINE d == s.done
             l == s.links
             p == Append(d, x)
  <2>2. /\ ~Ended(s)
        /\ NodeAt(d).kind = "file" => Step(s) = [s EXCEPT !.err = "not a directory"]
        /\ NodeAt(d).kind # "file" =>
             /\ NodeAt(p).kind = "absent" => Step(s) = [s EXCEPT !.err = "not exist"]
             /\ NodeAt(p).kind \in {"dir", "file"} => Step(s) = At(p, rest, l)
             /\ NodeAt(p).kind = "link" /\ l < MaxLinks =>
                  Step(s) = At(<<>>, NodeAt(p).to \o rest, l + 1)
             /\ NodeAt(p).kind = "link" /\ ~(l < MaxLinks) =>
                  Step(s) = [s EXCEPT !.err = "too many links"]
    <3>1. Steps(At(d, <<x>> \o rest, l), d, x, rest, l)
      BY <1>1, StepOf
    <3>2. Steps(s, d, x, rest, l)
      BY <2>1, <3>1
    <3> QED
      BY <3>2 DEF Steps
  <2>3. Len(s.todo) = Len(rest) + 1 /\ Len(rest) \in Nat
    BY <2>1
  <2>4. StepsLeft(s) > 0
    BY <1>2, <2>3 DEF StepsLeft
  <2>5. ASSUME NEW e \in Errors PROVE [s EXCEPT !.err = e] \in Walks /\ Ended([s EXCEPT !.err = e])
    BY DEF Walks, Ended, Errors
  <2>6. CASE NodeAt(d).kind # "file" /\ NodeAt(p).kind \in {"dir", "file"}
    <3>1. Step(s) = At(p, rest, l)
      BY <2>2, <2>6
    <3>2. p \in Seq(Names) /\ Len(p) = Len(d) + 1 /\ Len(d) \in Nat
      BY <1>1
    <3>3. NodeAt(d).kind = "dir"
      BY <1>1, <2>6 DEF Physical
    <3>4. ASSUME NEW i \in 1..(Len(p) - 1) PROVE NodeAt(SubSeq(p, 1, i)).kind = "dir"
      <4>1. i \in 1..Len(d)
        BY <3>2
      <4>2. SubSeq(p, 1, i) = SubSeq(d, 1, i)
        BY <1>1, <4>1
      <4>3. CASE i = Len(d)
        <5>1. SubSeq(d, 1, i) = d
          BY <1>1, <4>3
        <5> QED
          BY <3>3, <4>2, <5>1
      <4>4. CASE i # Len(d)
        <5>1. i \in 1..(Len(d) - 1)
          BY <3>2, <4>1, <4>4
        <5> QED
          BY <1>1, <4>2, <5>1 DEF Physical
      <4> QED
        BY <4>3, <4>4
    <3>5. Physical(p)
      BY <2>6, <3>2, <3>4 DEF Physical
    <3> HIDE DEF p
    <3>6. At(p, rest, l) \in Walks
      BY <1>1, <3>2, <3>5 DEF Walks, At
    <3>7. StepsLeft(At(p, rest, l)) < StepsLeft(s)
      BY <1>1, <1>2, <2>3 DEF StepsLeft, At
    <3> QED
      BY <1>3, <1>5, <2>4, <3>1, <3>6, <3>7
  <2>7. CASE NodeAt(d).kind # "file" /\ NodeAt(p).kind = "link" /\ l < MaxLinks
    <3> DEFINE to == NodeAt(p).to
    <3>1. Step(s) = At(<<>>, to \o rest, l + 1)
      BY <2>2, <2>7
    <3>2. to \in Seq(Names) /\ Len(to) <= MaxTarget
      BY <2>7, NodeOf, JailAssumption
    <3> HIDE DEF to
    <3>3. /\ Len(to) \in Nat /\ to \o rest \in Seq(Names) /\ Len(to \o rest) = Len(to) + Len(rest)
          /\ l + 1 \in 0..MaxLinks
      BY <1>1, <2>7, <3>2, JailAssumption
    <3>4. Physical(<<>>) /\ <<>> \in Seq(Names)
      BY DEF Physical, NodeAt
    <3>5. At(<<>>, to \o rest, l + 1) \in Walks
      BY <3>3, <3>4 DEF Walks, At
    <3>6. Len(to) + Len(rest) + (MaxLinks - (l + 1)) * MaxTarget <= Len(rest) + (MaxLinks - l) * MaxTarget
      BY <1>1, <2>3, <2>7, <3>2, <3>3, LinkCosts
    <3>7. StepsLeft(At(<<>>, to \o rest, l + 1)) = Len(to) + Len(rest) + (MaxLinks - (l + 1)) * MaxTarget
      BY <3>3 DEF StepsLeft, At
    <3>8. StepsLeft(s) = Len(rest) + 1 + (MaxLinks - l) * MaxTarget
      BY <2>3 DEF StepsLeft
    <3>9. (MaxLinks - (l + 1)) * MaxTarget \in Int
      BY <1>1, JailAssumption
    <3>10. StepsLeft(At(<<>>, to \o rest, l + 1)) < StepsLeft(s)
      <4> DEFINE u == (MaxLinks - (l + 1)) * MaxTarget
                 v == (MaxLinks - l) * MaxTarget
      <4>1. u \in Int /\ v \in Int
        BY <1>2, <3>9
      <4> HIDE DEF u, v
      <4>2. Len(to) + Len(rest) + u <= Len(rest) + v
        BY <3>6 DEF u, v
      <4>3. Len(to) + Len(rest) + u < Len(rest) + 1 + v
        BY <2>3, <3>3, <4>1, <4>2
      <4> QED
        BY <3>7, <3>8, <4>3 DEF u, v
    <3> QED
      BY <1>3, <1>5, <2>4, <3>1, <3>5, <3>10
  <2>8. CASE ~(NodeAt(d).kind # "file" /\ NodeAt(p).kind \in {"dir", "file"})
             /\ ~(NodeAt(d).kind # "file" /\ NodeAt(p).kind = "link" /\ l < MaxLinks)
    <3>1. \E e \in Errors : Step(s) = [s EXCEPT !.err = e]
      <4>1. NodeAt(p).kind \in {"absent", "dir", "file", "link"}
        BY NodeOf
      <4> HIDE DEF d, l, p
      <4> QED
        BY <2>2, <2>8, <4>1 DEF Errors
    <3> QED
      BY <1>3, <1>5, <2>4, <2>5, <3>1
  <2> QED
    BY <2>6, <2>7, <2>8
<1> QED
  BY <1>4, <1>5

-----------------------------------------------------------------------------
(***************************************************************************)
(* Walks.                                                                  *)
(***************************************************************************)

\* The walk that starts in s, for n steps.
Runs(g, s, n) == g = [i \in 0..n |-> IF i = 0 THEN s ELSE Step(g[i - 1])]

\* A walk goes on for as many steps as one likes.
LEMMA RunExists ==
  ASSUME NEW s, NEW n \in Nat
  PROVE  \E g : Runs(g, s, n)
<1> DEFINE S == {m \in 0..n : \E g : Runs(g, s, m)}
<1>1. 0 \in S
  <2>1. Runs([i \in 0..0 |-> s], s, 0)
    BY DEF Runs
  <2> QED
    BY <2>1
<1>2. ASSUME NEW m \in 1..n, m - 1 \in S PROVE m \in S
  <2>1. PICK g : Runs(g, s, m - 1)
    BY <1>2
  <2> DEFINE h == [i \in 0..m |-> IF i = m THEN Step(g[i - 1]) ELSE g[i]]
  <2>2. ASSUME NEW i \in 0..m PROVE h[i] = IF i = 0 THEN s ELSE Step(h[i - 1])
    <3>1. i # 0 => i - 1 \in 0..m /\ i - 1 # m /\ h[i - 1] = g[i - 1]
      OBVIOUS
    <3>2. CASE i = m
      BY <3>1, <3>2
    <3>3. CASE i # m
      <4>1. i \in 0..(m - 1)
        BY <3>3
      <4>2. g[i] = IF i = 0 THEN s ELSE Step(g[i - 1])
        BY <2>1, <4>1 DEF Runs
      <4> QED
        BY <3>1, <3>3, <4>2
    <3> QED
      BY <3>2, <3>3
  <2>3. Runs(h, s, m)
    <3>1. h = [i \in 0..m |-> h[i]]
      OBVIOUS
    <3> HIDE DEF h
    <3> QED
      BY <2>2, <3>1 DEF Runs
  <2> QED
    BY <2>3
<1> HIDE DEF S
<1>3. 0..n \subseteq S
  BY <1>1, <1>2, FromNought
<1>4. n \in S
  BY <1>3
<1> QED
  BY <1>4 DEF S

\* Each step of a walk.
LEMMA RunSteps ==
  ASSUME NEW s, NEW n \in Nat, NEW g, Runs(g, s, n)
  PROVE  g[0] = s /\ \A i \in 1..n : g[i] = Step(g[i - 1])
<1>1. g = [i \in 0..n |-> IF i = 0 THEN s ELSE Step(g[i - 1])]
  BY DEF Runs
<1>2. \A i \in 0..n : g[i] = IF i = 0 THEN s ELSE Step(g[i - 1])
  BY <1>1
<1> QED
  BY <1>2

\* A walk stays a walk, and has ended when it has no steps left.
LEMMA RunEnds ==
  ASSUME FsOK, NEW s \in Walks, NEW n \in Nat, NEW g, Runs(g, s, n)
  PROVE  /\ \A i \in 0..n : g[i] \in Walks
         /\ n >= StepsLeft(s) => Ended(g[n])
<1>1. g[0] = s /\ \A i \in 1..n : g[i] = Step(g[i - 1])
  BY RunSteps DEF Runs
<1> DEFINE S == {i \in 0..n : g[i] \in Walks /\ (Ended(g[i]) \/ StepsLeft(g[i]) <= StepsLeft(s) - i)}
<1>2. 0 \in S
  BY <1>1, StepWalks
<1>3. ASSUME NEW i \in 1..n, i - 1 \in S PROVE i \in S
  <2> DEFINE t == g[i - 1]
  <2>1. t \in Walks /\ (Ended(t) \/ StepsLeft(t) <= StepsLeft(s) - (i - 1))
    BY <1>3
  <2>2. g[i] = Step(t)
    BY <1>1
  <2> HIDE DEF t
  <2>3. /\ Step(t) \in Walks /\ StepsLeft(t) \in Nat /\ StepsLeft(Step(t)) \in Nat /\ StepsLeft(s) \in Nat
        /\ Ended(t) => Step(t) = t
        /\ ~Ended(t) => Ended(Step(t)) \/ StepsLeft(Step(t)) < StepsLeft(t)
    BY <2>1, StepWalks
  <2>4. Ended(Step(t)) \/ StepsLeft(Step(t)) <= StepsLeft(s) - i
    BY <2>1, <2>3
  <2> QED
    BY <2>2, <2>3, <2>4
<1> HIDE DEF S
<1>4. 0..n \subseteq S
  BY <1>2, <1>3, FromNought
<1>5. ASSUME n >= StepsLeft(s) PROVE Ended(g[n])
  <2>1. g[n] \in Walks /\ (Ended(g[n]) \/ StepsLeft(g[n]) <= StepsLeft(s) - n)
    BY <1>4 DEF S
  <2>2. StepsLeft(g[n]) \in Nat /\ StepsLeft(s) \in Nat /\ (~Ended(g[n]) => StepsLeft(g[n]) > 0)
    BY <2>1, StepWalks
  <2> QED
    BY <1>5, <2>1, <2>2
<1> QED
  BY <1>4, <1>5 DEF S

\* A walk that has ended stays where it is.
LEMMA RunStays ==
  ASSUME FsOK, NEW s \in Walks, NEW n \in Nat, NEW g, Runs(g, s, n), NEW m \in 0..n, Ended(g[m])
  PROVE  g[n] = g[m]
<1>1. g[0] = s /\ \A i \in 1..n : g[i] = Step(g[i - 1])
  BY RunSteps
<1>2. \A i \in 0..n : g[i] \in Walks
  BY RunEnds
<1> DEFINE S == {i \in 0..n : i >= m => g[i] = g[m]}
<1>3. 0 \in S
  OBVIOUS
<1>4. ASSUME NEW i \in 1..n, i - 1 \in S PROVE i \in S
  <2>1. CASE i > m
    <3>1. g[i - 1] = g[m]
      BY <1>4, <2>1
    <3>2. Step(g[m]) = g[m]
      BY <1>2, StepWalks
    <3> QED
      BY <1>1, <3>1, <3>2
  <2>2. CASE ~(i > m)
    <3>1. i >= m => i = m
      BY <2>2
    <3> QED
      BY <3>1
  <2> QED
    BY <2>1, <2>2
<1> HIDE DEF S
<1>5. 0..n \subseteq S
  BY <1>3, <1>4, FromNought
<1>6. n \in S
  BY <1>5
<1> QED
  BY <1>6 DEF S

\* Two walks from one place are the same for as long as both go on.
LEMMA RunsAgree ==
  ASSUME NEW s, NEW n \in Nat, NEW g, Runs(g, s, n), NEW m \in 0..n, NEW h, Runs(h, s, m)
  PROVE  h[m] = g[m]
<1>1. g[0] = s /\ \A i \in 1..n : g[i] = Step(g[i - 1])
  BY RunSteps
<1>2. h[0] = s /\ \A i \in 1..m : h[i] = Step(h[i - 1])
  <2>1. m \in Nat
    OBVIOUS
  <2> QED
    BY <2>1, RunSteps
<1> DEFINE S == {i \in 0..m : h[i] = g[i]}
<1>3. 0 \in S
  BY <1>1, <1>2
<1>4. ASSUME NEW i \in 1..m, i - 1 \in S PROVE i \in S
  <2>1. h[i - 1] = g[i - 1] /\ i \in 1..n
    BY <1>4
  <2> QED
    BY <1>1, <1>2, <2>1
<1> HIDE DEF S
<1>5. m \in Nat
  OBVIOUS
<1>6. 0..m \subseteq S
  BY <1>3, <1>4, <1>5, FromNought
<1>7. m \in S
  BY <1>5, <1>6
<1> QED
  BY <1>7 DEF S

\* Walk is where a walk of that many steps, or more, ends.
LEMMA WalkIs ==
  ASSUME FsOK, NEW s \in Walks, NEW n \in Nat, n >= StepsLeft(s), NEW g, Runs(g, s, n)
  PROVE  Walk(s) = g[n] /\ Walk(s) \in Walks /\ Ended(Walk(s))
<1> DEFINE m == StepsLeft(s)
           walk == CHOOSE walk : walk = [i \in 0..m |-> IF i = 0 THEN s ELSE Step(walk[i - 1])]
<1>1. m \in Nat
  BY StepWalks
<1>2. Walk(s) = walk[m]
  BY DEF Walk
<1>3. Runs(walk, s, m)
  <2>1. \E h : Runs(h, s, m)
    BY <1>1, RunExists
  <2> HIDE DEF m
  <2> QED
    BY <2>1 DEF Runs
<1> HIDE DEF walk
<1>4. walk[m] \in Walks /\ Ended(walk[m])
  <2>1. m >= m /\ m \in 0..m
    BY <1>1
  <2> QED
    BY <1>1, <1>3, <2>1, RunEnds
<1>5. m \in 0..n
  BY <1>1
<1>6. walk[m] = g[m]
  BY <1>3, <1>5, RunsAgree
<1>7. g[n] = g[m]
  BY <1>4, <1>5, <1>6, RunStays
<1> QED
  BY <1>2, <1>4, <1>6, <1>7

\* Where a walk ends it ends from each of its steps.
LEMMA WalkOn ==
  ASSUME FsOK, NEW s \in Walks
  PROVE  /\ Walk(s) \in Walks /\ Ended(Walk(s))
         /\ Walk(Step(s)) = Walk(s)
         /\ Ended(s) => Walk(s) = s
<1>1. Step(s) \in Walks
  BY StepWalks
<1>2. StepsLeft(s) \in Nat /\ StepsLeft(Step(s)) \in Nat
  BY <1>1, StepWalks
<1> DEFINE n == StepsLeft(s) + StepsLeft(Step(s)) + 1
<1>3. n \in Nat /\ n - 1 \in Nat /\ n >= StepsLeft(s) /\ n - 1 >= StepsLeft(Step(s)) /\ 0 \in 0..n
  BY <1>2
<1> HIDE DEF n
<1>4. PICK g : Runs(g, s, n)
  BY <1>3, RunExists
<1>5. g[0] = s /\ \A i \in 1..n : g[i] = Step(g[i - 1])
  BY <1>3, <1>4, RunSteps
<1> DEFINE h == [i \in 0..(n - 1) |-> g[i + 1]]
<1>6. ASSUME NEW i \in 0..(n - 1) PROVE h[i] = IF i = 0 THEN Step(s) ELSE Step(h[i - 1])
  <2>1. h[i] = g[i + 1] /\ i + 1 \in 1..n /\ i + 1 - 1 = i
    BY <1>3
  <2>2. g[i + 1] = Step(g[i])
    BY <1>5, <2>1
  <2>3. i # 0 => i - 1 \in 0..(n - 1) /\ h[i - 1] = g[i]
    BY <1>3
  <2> HIDE DEF h
  <2> QED
    BY <1>5, <2>1, <2>2, <2>3
<1>7. Runs(h, Step(s), n - 1)
  <2>1. h = [i \in 0..(n - 1) |-> h[i]]
    OBVIOUS
  <2> HIDE DEF h
  <2> QED
    BY <1>6, <2>1 DEF Runs
<1>8. h[n - 1] = g[n]
  BY <1>3
<1> HIDE DEF h
<1>9. Walk(Step(s)) = h[n - 1]
  BY <1>1, <1>3, <1>7, WalkIs
<1>10. Walk(s) = g[n] /\ Walk(s) \in Walks /\ Ended(Walk(s))
  BY <1>3, <1>4, WalkIs
<1>11. ASSUME Ended(s) PROVE g[n] = s
  BY <1>3, <1>4, <1>5, <1>11, RunStays
<1> QED
  BY <1>8, <1>9, <1>10, <1>11

-----------------------------------------------------------------------------
(***************************************************************************)
(* Places.                                                                 *)
(***************************************************************************)

\* The entries x of all the directories in D.
Below(D, x, there) == UNION {Entry(d, x, there) : d \in D}

\* The places of the first n beginnings of p.
Traces(at, p, there, n) ==
  at = [i \in 0..n |-> IF i = 0 THEN {<<>>} ELSE Below(at[i - 1], p[i], there)]

\* Every beginning of a path has its places.
LEMMA TraceExists ==
  ASSUME NEW p, NEW there, NEW n \in Nat
  PROVE  \E at : Traces(at, p, there, n)
<1> DEFINE S == {m \in 0..n : \E at : Traces(at, p, there, m)}
<1>1. 0 \in S
  <2>1. Traces([i \in 0..0 |-> {<<>>}], p, there, 0)
    BY DEF Traces
  <2> QED
    BY <2>1
<1>2. ASSUME NEW m \in 1..n, m - 1 \in S PROVE m \in S
  <2>1. PICK at : Traces(at, p, there, m - 1)
    BY <1>2
  <2> DEFINE h == [i \in 0..m |-> IF i = m THEN Below(at[i - 1], p[i], there) ELSE at[i]]
  <2>2. ASSUME NEW i \in 0..m PROVE h[i] = IF i = 0 THEN {<<>>} ELSE Below(h[i - 1], p[i], there)
    <3>1. i # 0 => i - 1 \in 0..m /\ i - 1 # m /\ h[i - 1] = at[i - 1]
      OBVIOUS
    <3>2. CASE i = m
      BY <3>1, <3>2
    <3>3. CASE i # m
      <4>1. i \in 0..(m - 1)
        BY <3>3
      <4>2. at[i] = IF i = 0 THEN {<<>>} ELSE Below(at[i - 1], p[i], there)
        BY <2>1, <4>1 DEF Traces
      <4> QED
        BY <3>1, <3>3, <4>2
    <3> QED
      BY <3>2, <3>3
  <2>3. Traces(h, p, there, m)
    <3>1. h = [i \in 0..m |-> h[i]]
      OBVIOUS
    <3> HIDE DEF h
    <3> QED
      BY <2>2, <3>1 DEF Traces
  <2> QED
    BY <2>3
<1> HIDE DEF S
<1>3. 0..n \subseteq S
  BY <1>1, <1>2, FromNought
<1>4. n \in S
  BY <1>3
<1> QED
  BY <1>4 DEF S

\* The place of a path is the last of them.
LEMMA PlaceTraced ==
  ASSUME NEW p \in Seq(Names), NEW there
  PROVE  \E at : /\ Place(p, there) = at[Len(p)] /\ at[0] = {<<>>}
                 /\ \A i \in 1..Len(p) : at[i] = Below(at[i - 1], p[i], there)
<1> DEFINE n == Len(p)
           at == CHOOSE at : at = [i \in 0..n |->
                   IF i = 0 THEN {<<>>} ELSE UNION {Entry(d, p[i], there) : d \in at[i - 1]}]
<1>1. Place(p, there) = at[n]
  BY DEF Place
<1>2. n \in Nat
  OBVIOUS
<1>3. Traces(at, p, there, n)
  <2>1. \E h : Traces(h, p, there, n)
    BY <1>2, TraceExists
  <2> HIDE DEF n
  <2> QED
    BY <2>1 DEF Traces, Below
<1> HIDE DEF at, n
<1>4. \A i \in 0..n : at[i] = IF i = 0 THEN {<<>>} ELSE Below(at[i - 1], p[i], there)
  BY <1>3 DEF Traces
<1>5. at[0] = {<<>>} /\ \A i \in 1..n : at[i] = Below(at[i - 1], p[i], there)
  BY <1>2, <1>4
<1> QED
  BY <1>1, <1>5 DEF n

\* The root is where it is; the place of a longer path comes from its parent's.
LEMMA PlaceOf ==
  ASSUME NEW there
  PROVE  /\ Place(<<>>, there) = {<<>>}
         /\ \A p \in Seq(Names), x \in Names :
              Place(Append(p, x), there) = Below(Place(p, there), x, there)
<1>1. Place(<<>>, there) = {<<>>}
  <2>1. <<>> \in Seq(Names) /\ Len(<<>>) = 0
    OBVIOUS
  <2> QED
    BY <2>1, PlaceTraced
<1>2. ASSUME NEW p \in Seq(Names), NEW x \in Names
      PROVE  Place(Append(p, x), there) = Below(Place(p, there), x, there)
  <2> DEFINE q == Append(p, x)
             n == Len(p)
  <2>1. /\ q \in Seq(Names) /\ n \in Nat /\ Len(q) = n + 1 /\ q[n + 1] = x
        /\ \A i \in 1..n : q[i] = p[i]
    OBVIOUS
  <2> HIDE DEF q
  <2>2. PICK at : /\ Place(p, there) = at[n] /\ at[0] = {<<>>}
                  /\ \A i \in 1..n : at[i] = Below(at[i - 1], p[i], there)
    BY PlaceTraced
  <2> HIDE DEF n
  <2>3. PICK h : /\ Place(q, there) = h[n + 1] /\ h[0] = {<<>>}
                 /\ \A i \in 1..(n + 1) : h[i] = Below(h[i - 1], q[i], there)
    <3>1. \E h : /\ Place(q, there) = h[Len(q)] /\ h[0] = {<<>>}
                 /\ \A i \in 1..Len(q) : h[i] = Below(h[i - 1], q[i], there)
      BY <2>1, PlaceTraced
    <3> QED
      BY <2>1, <3>1
  <2> DEFINE S == {i \in 0..n : h[i] = at[i]}
  <2>4. 0 \in S
    <3>1. 0 \in 0..n
      BY <2>1
    <3> QED
      BY <2>2, <2>3, <3>1
  <2>5. ASSUME NEW i \in 1..n, i - 1 \in S PROVE i \in S
    <3>1. i \in 1..(n + 1) /\ q[i] = p[i] /\ h[i - 1] = at[i - 1]
      BY <2>1, <2>5
    <3> QED
      BY <2>2, <2>3, <3>1
  <2> HIDE DEF S
  <2>6. 0..n \subseteq S
    BY <2>1, <2>4, <2>5, FromNought
  <2>7. n \in S
    BY <2>1, <2>6
  <2>8. h[n] = at[n]
    BY <2>7 DEF S
  <2>9. n + 1 \in 1..(n + 1) /\ n + 1 - 1 = n
    BY <2>1
  <2> QED
    BY <2>1, <2>2, <2>3, <2>8, <2>9 DEF q
<1> QED
  BY <1>1, <1>2

\* The places of the links through one more link come from those through fewer.
Nowhere == [t \in Targets |-> {}]
Further(there) == [t \in Targets |-> Place(t, there)]
Layers(th, n) == th = [k \in 0..n |-> IF k = 0 THEN Nowhere ELSE Further(th[k - 1])]

\* The recursion of LinkPlaces has a solution.
LEMMA LayersExist ==
  ASSUME NEW n \in Nat
  PROVE  \E th : Layers(th, n)
<1> DEFINE S == {m \in 0..n : \E th : Layers(th, m)}
<1>1. 0 \in S
  <2>1. Layers([k \in 0..0 |-> Nowhere], 0)
    BY DEF Layers
  <2> QED
    BY <2>1
<1>2. ASSUME NEW m \in 1..n, m - 1 \in S PROVE m \in S
  <2>1. PICK th : Layers(th, m - 1)
    BY <1>2
  <2> DEFINE h == [k \in 0..m |-> IF k = m THEN Further(th[k - 1]) ELSE th[k]]
  <2>2. ASSUME NEW k \in 0..m
        PROVE  h[k] = IF k = 0 THEN Nowhere ELSE Further(h[k - 1])
    <3>1. k # 0 => k - 1 \in 0..m /\ k - 1 # m /\ h[k - 1] = th[k - 1]
      OBVIOUS
    <3>2. CASE k = m
      BY <3>1, <3>2
    <3>3. CASE k # m
      <4>1. k \in 0..(m - 1)
        BY <3>3
      <4>2. th[k] = IF k = 0 THEN Nowhere ELSE Further(th[k - 1])
        BY <2>1, <4>1 DEF Layers
      <4> QED
        BY <3>1, <3>3, <4>2
    <3> QED
      BY <3>2, <3>3
  <2>3. Layers(h, m)
    <3>1. h = [k \in 0..m |-> h[k]]
      OBVIOUS
    <3> HIDE DEF h
    <3> QED
      BY <2>2, <3>1 DEF Layers
  <2> QED
    BY <2>3
<1> HIDE DEF S
<1>3. 0..n \subseteq S
  BY <1>1, <1>2, FromNought
<1>4. n \in S
  BY <1>3
<1> QED
  BY <1>4 DEF S

\* LinkPlaces takes one link more at every step.
LEMMA LayersOf ==
  ASSUME NEW n \in Nat
  PROVE  \E th : /\ LinkPlaces(n) = th[n] /\ th[0] = Nowhere
                 /\ \A k \in 1..n : th[k] = Further(th[k - 1])
<1> DEFINE th == CHOOSE th : th = [k \in 0..n |->
                   IF k = 0 THEN [t \in Targets |-> {}] ELSE [t \in Targets |-> Place(t, th[k - 1])]]
<1>1. LinkPlaces(n) = th[n]
  BY DEF LinkPlaces
<1>2. Layers(th, n)
  BY LayersExist DEF Layers, Nowhere, Further
<1> HIDE DEF th
<1>3. \A k \in 0..n : th[k] = IF k = 0 THEN Nowhere ELSE Further(th[k - 1])
  BY <1>2 DEF Layers
<1>4. th[0] = Nowhere /\ \A k \in 1..n : th[k] = Further(th[k - 1])
  BY <1>3
<1> QED
  BY <1>1, <1>4

\* So one link more is one step further.
LEMMA LinkPlacesOf ==
  ASSUME NEW n \in Nat
  PROVE  LinkPlaces(n + 1) = Further(LinkPlaces(n))
<1>1. PICK th : /\ LinkPlaces(n) = th[n] /\ th[0] = Nowhere
                /\ \A k \in 1..n : th[k] = Further(th[k - 1])
  BY LayersOf
<1>2. PICK h : /\ LinkPlaces(n + 1) = h[n + 1] /\ h[0] = Nowhere
               /\ \A k \in 1..(n + 1) : h[k] = Further(h[k - 1])
  <2>1. n + 1 \in Nat
    OBVIOUS
  <2> QED
    BY <2>1, LayersOf
<1> DEFINE S == {k \in 0..n : h[k] = th[k]}
<1>3. 0 \in S
  <2>1. 0 \in 0..n
    OBVIOUS
  <2> QED
    BY <1>1, <1>2, <2>1
<1>4. ASSUME NEW k \in 1..n, k - 1 \in S PROVE k \in S
  <2>1. k \in 0..n /\ k \in 1..(n + 1) /\ h[k - 1] = th[k - 1]
    BY <1>4
  <2> QED
    BY <1>1, <1>2, <2>1
<1> HIDE DEF S
<1>5. 0..n \subseteq S
  BY <1>3, <1>4, FromNought
<1>6. n \in S
  BY <1>5
<1>7. h[n] = th[n]
  BY <1>6 DEF S
<1>8. n + 1 \in 1..(n + 1) /\ n + 1 - 1 = n
  OBVIOUS
<1> QED
  BY <1>1, <1>2, <1>7, <1>8

-----------------------------------------------------------------------------
(***************************************************************************)
(* A walk ends at the place of the path.                                   *)
(***************************************************************************)

\* What a walk along p comes to, that still has rest before it and has followed l
\* links: it passes the place of p, or stops because there is none.
Passes(t, p, rest, l, k) ==
  \/ t.err = "none" /\ t.todo = rest /\ t.links >= l /\ Place(p, LinkPlaces(k)) = {t.done}
  \/ t.err = "too many links"
  \/ t.err \in {"not exist", "not a directory"} /\ Place(p, LinkPlaces(k)) = {}

\* Every walk along p that has at most k links left to follow.
Leads(p, k) ==
  \A rest \in Seq(Names), l \in 0..MaxLinks :
    MaxLinks - l <= k =>
      \E t \in Walks : Walk(At(<<>>, p \o rest, l)) = Walk(t) /\ Passes(t, p, rest, l, k)

\* Every target, with fewer links.
Targeted(k) == k > 0 => \A to \in Targets : Leads(to, k - 1)

\* An empty path leads where the walk is.
LEMMA LeadsNowhere ==
  ASSUME FsOK, NEW k \in Nat
  PROVE  Leads(<<>>, k)
<1> SUFFICES ASSUME NEW rest \in Seq(Names), NEW l \in 0..MaxLinks
             PROVE  \E t \in Walks : /\ Walk(At(<<>>, <<>> \o rest, l)) = Walk(t)
                                     /\ Passes(t, <<>>, rest, l, k)
  BY DEF Leads
<1>1. <<>> \o rest = rest
  OBVIOUS
<1>2. Physical(<<>>) /\ <<>> \in Seq(Names)
  BY DEF Physical, NodeAt
<1> DEFINE t == At(<<>>, rest, l)
<1>3. t \in Walks
  BY <1>2 DEF Walks, At
<1>4. t.err = "none" /\ t.todo = rest /\ t.links >= l /\ t.done = <<>>
  BY DEF At
<1>5. Place(<<>>, LinkPlaces(k)) = {<<>>}
  BY PlaceOf
<1> HIDE DEF t
<1>6. Passes(t, <<>>, rest, l, k)
  BY <1>4, <1>5 DEF Passes
<1> QED
  BY <1>1, <1>3, <1>6 DEF t

\* A walk that passes the place of p passes that of the name x behind it.
LEMMA PassesOn ==
  ASSUME FsOK, NEW k \in Nat, Targeted(k), NEW p \in Seq(Names), NEW x \in Names,
         NEW rest \in Seq(Names), NEW l \in 0..MaxLinks, MaxLinks - l <= k,
         NEW s \in Walks, Passes(s, p, <<x>> \o rest, l, k)
  PROVE  \E t \in Walks : Walk(s) = Walk(t) /\ Passes(t, Append(p, x), rest, l, k)
<1> DEFINE there == LinkPlaces(k)
           q == Append(p, x)
<1>1. Place(q, there) = Below(Place(p, there), x, there)
  BY PlaceOf
<1> HIDE DEF there, q
<1>2. CASE s.err = "too many links"
  BY <1>2 DEF Passes, q
<1>3. CASE s.err \in {"not exist", "not a directory"}
  <2>1. Place(p, there) = {}
    BY <1>3 DEF Passes, there
  <2>2. Place(q, there) = {}
    BY <1>1, <2>1 DEF Below
  <2> QED
    BY <1>3, <2>2 DEF Passes, q, there
<1>4. CASE s.err = "none"
  <2> DEFINE d == s.done
             m == s.links
             e == Append(d, x)
  <2>1. s.todo = <<x>> \o rest /\ m >= l /\ Place(p, there) = {d}
    BY <1>4 DEF Passes, there
  <2>2. /\ d \in Seq(Names) /\ Physical(d) /\ m \in 0..MaxLinks
        /\ s = [done |-> d, todo |-> s.todo, links |-> m, err |-> s.err]
    BY DEF Walks
  <2>3. s = At(d, <<x>> \o rest, m)
    BY <1>4, <2>1, <2>2 DEF At
  <2>4. Place(q, there) = Entry(d, x, there)
    BY <1>1, <2>1 DEF Below
  <2>5. Steps(s, d, x, rest, m)
    <3>1. Steps(At(d, <<x>> \o rest, m), d, x, rest, m)
      BY <2>2, StepOf
    <3> QED
      BY <2>3, <3>1
  <2>6. Step(s) \in Walks /\ Walk(Step(s)) = Walk(s)
    BY StepWalks, WalkOn
  <2>7. /\ NodeAt(e).kind \in {"absent", "dir", "file", "link"} /\ NodeAt(d).kind \in {"dir", "file"}
        /\ NodeAt(e).kind = "link" => NodeAt(e).to \in Targets
    BY <2>2, NodeOf DEF Physical
  <2> HIDE DEF d, m, e
  <2>8. CASE NodeAt(d).kind = "file"
    <3>1. Step(s) = [s EXCEPT !.err = "not a directory"]
      BY <2>5, <2>8 DEF Steps
    <3>2. Step(s).err = "not a directory"
      BY <2>2, <3>1
    <3>3. Entry(d, x, there) = {}
      BY <2>8 DEF Entry
    <3> QED
      BY <2>4, <2>6, <3>2, <3>3 DEF Passes, q, there
  <2>9. CASE NodeAt(d).kind = "dir" /\ NodeAt(e).kind = "absent"
    <3>1. Step(s) = [s EXCEPT !.err = "not exist"]
      BY <2>5, <2>9 DEF Steps, e
    <3>2. Step(s).err = "not exist"
      BY <2>2, <3>1
    <3>3. Entry(d, x, there) = {}
      BY <2>9 DEF Entry, e
    <3> QED
      BY <2>4, <2>6, <3>2, <3>3 DEF Passes, q, there
  <2>10. CASE NodeAt(d).kind = "dir" /\ NodeAt(e).kind \in {"dir", "file"}
    <3>1. Step(s) = At(e, rest, m)
      BY <2>5, <2>10 DEF Steps, e
    <3>2. Step(s).err = "none" /\ Step(s).todo = rest /\ Step(s).links = m /\ Step(s).done = e
      BY <3>1 DEF At
    <3>3. Entry(d, x, there) = {e}
      BY <2>10 DEF Entry, e
    <3> QED
      BY <2>1, <2>4, <2>6, <3>2, <3>3 DEF Passes, q, there
  <2>11. CASE NodeAt(d).kind = "dir" /\ NodeAt(e).kind = "link" /\ m < MaxLinks
    <3> DEFINE to == NodeAt(e).to
    <3>1. Step(s) = At(<<>>, to \o rest, m + 1)
      BY <2>5, <2>11 DEF Steps, e
    <3>2. Entry(d, x, there) = there[to]
      BY <2>11 DEF Entry, e
    <3>3. to \in Targets
      BY <2>7, <2>11
    <3> HIDE DEF to
    <3>4. /\ k > 0 /\ k - 1 \in Nat /\ k - 1 + 1 = k /\ m + 1 >= l
          /\ m + 1 \in 0..MaxLinks /\ MaxLinks - (m + 1) <= k - 1
      <4>1. MaxLinks \in Nat /\ m \in Nat /\ l \in Nat /\ m < MaxLinks /\ m >= l
        BY <2>1, <2>2, <2>11, JailAssumption
      <4>2. MaxLinks - l <= k
        OBVIOUS
      <4> QED
        BY <4>1, <4>2
    <3>5. there[to] = Place(to, LinkPlaces(k - 1))
      <4>1. LinkPlaces(k) = Further(LinkPlaces(k - 1))
        <5>1. LinkPlaces(k - 1 + 1) = Further(LinkPlaces(k - 1))
          BY <3>4, LinkPlacesOf
        <5> QED
          BY <3>4, <5>1
      <4> QED
        BY <3>3, <4>1 DEF Further, there
    <3>6. Leads(to, k - 1)
      BY <3>3, <3>4 DEF Targeted
    <3>7. PICK t \in Walks : /\ Walk(At(<<>>, to \o rest, m + 1)) = Walk(t)
                             /\ Passes(t, to, rest, m + 1, k - 1)
      BY <3>4, <3>6 DEF Leads
    <3>8. Walk(s) = Walk(t)
      BY <2>6, <3>1, <3>7
    <3>9. Passes(t, q, rest, l, k)
      <4>1. Place(q, LinkPlaces(k)) = Place(to, LinkPlaces(k - 1))
        BY <2>4, <3>2, <3>5 DEF there
      <4>2. t.links \in Int /\ l \in Int /\ m + 1 \in Int
        BY <3>4 DEF Walks
      <4>3. t.links >= m + 1 => t.links >= l
        BY <3>4, <4>2
      <4> QED
        BY <3>7, <4>1, <4>3 DEF Passes
    <3> QED
      BY <3>8, <3>9 DEF q
  <2>12. CASE NodeAt(d).kind = "dir" /\ NodeAt(e).kind = "link" /\ ~(m < MaxLinks)
    <3>1. Step(s) = [s EXCEPT !.err = "too many links"]
      BY <2>5, <2>12 DEF Steps, e
    <3>2. Step(s).err = "too many links"
      BY <2>2, <3>1
    <3> QED
      BY <2>6, <3>2 DEF Passes, q
  <2> QED
    BY <2>7, <2>8, <2>9, <2>10, <2>11, <2>12
<1> QED
  BY <1>2, <1>3, <1>4 DEF Passes

\* From the root, name by name.
LEMMA LeadsOn ==
  ASSUME FsOK, NEW k \in Nat, Targeted(k), NEW p \in Seq(Names)
  PROVE  Leads(p, k)
<1> DEFINE n == Len(p)
           S == {i \in 0..n : Leads(SubSeq(p, 1, i), k)}
<1>1. n \in Nat /\ n \in 0..n
  OBVIOUS
<1>2. 0 \in S
  <2>1. SubSeq(p, 1, 0) = <<>>
    OBVIOUS
  <2>2. Leads(SubSeq(p, 1, 0), k)
    BY <2>1, LeadsNowhere
  <2> QED
    BY <1>1, <2>2
<1>3. ASSUME NEW i \in 1..n, i - 1 \in S PROVE i \in S
  <2> DEFINE b == SubSeq(p, 1, i - 1)
             x == p[i]
  <2>1. Leads(b, k) /\ i - 1 \in 0..n /\ i \in 0..n
    BY <1>3
  <2>2. b \in Seq(Names) /\ x \in Names
    BY <2>1, Beginning
  <2>3. SubSeq(p, 1, i) = Append(b, x)
    OBVIOUS
  <2> HIDE DEF b, x
  <2>4. ASSUME NEW rest \in Seq(Names), NEW l \in 0..MaxLinks, MaxLinks - l <= k
        PROVE  \E t \in Walks : /\ Walk(At(<<>>, Append(b, x) \o rest, l)) = Walk(t)
                                /\ Passes(t, Append(b, x), rest, l, k)
    <3>1. <<x>> \o rest \in Seq(Names) /\ Append(b, x) \o rest = b \o (<<x>> \o rest)
      BY <2>2
    <3>2. PICK s \in Walks : /\ Walk(At(<<>>, b \o (<<x>> \o rest), l)) = Walk(s)
                             /\ Passes(s, b, <<x>> \o rest, l, k)
      BY <2>1, <2>4, <3>1 DEF Leads
    <3>3. PICK t \in Walks : Walk(s) = Walk(t) /\ Passes(t, Append(b, x), rest, l, k)
      BY <2>2, <2>4, <3>2, PassesOn
    <3> QED
      BY <3>1, <3>2, <3>3
  <2>5. Leads(SubSeq(p, 1, i), k)
    BY <2>3, <2>4 DEF Leads
  <2> QED
    BY <2>1, <2>5
<1> HIDE DEF S
<1>4. 0..n \subseteq S
  BY <1>1, <1>2, <1>3, FromNought
<1>5. n \in S
  BY <1>1, <1>4
<1>6. SubSeq(p, 1, n) = p
  OBVIOUS
<1> QED
  BY <1>5, <1>6 DEF S

\* Link by link, however many may be followed.
LEMMA LeadsAll ==
  ASSUME FsOK, NEW k \in Nat, NEW p \in Seq(Names)
  PROVE  Leads(p, k)
<1> DEFINE S == {i \in 0..k : Targeted(i)}
<1>1. 0 \in S
  BY DEF Targeted
<1>2. ASSUME NEW i \in 1..k, i - 1 \in S PROVE i \in S
  <2>1. Targeted(i - 1) /\ i - 1 \in Nat /\ i \in 0..k
    BY <1>2
  <2>2. ASSUME NEW to \in Targets PROVE Leads(to, i - 1)
    <3>1. to \in Seq(Names)
      BY JailAssumption
    <3> QED
      BY <2>1, <3>1, LeadsOn
  <2>3. Targeted(i)
    BY <2>2 DEF Targeted
  <2> QED
    BY <2>1, <2>3
<1> HIDE DEF S
<1>3. 0..k \subseteq S
  BY <1>1, <1>2, FromNought
<1>4. k \in S
  BY <1>3
<1>5. Targeted(k)
  BY <1>4 DEF S
<1> QED
  BY <1>5, LeadsOn

\* filepath.EvalSymlinks finds the place that the reference finds, and finds none only
\* where there is none.
LEMMA EvalSymlinksFinds ==
  ASSUME FsOK, NEW p \in Seq(Names)
  PROVE  LET r == EvalSymlinks(p)
         IN  \/ r.err = "none" /\ r.real \in Seq(Names) /\ Physical(r.real) /\ RealLoc(p) = {r.real}
             \/ r.err = "too many links" /\ r.real = <<>>
             \/ r.err \in {"not exist", "not a directory"} /\ r.real = <<>> /\ RealLoc(p) = {}
<1>1. MaxLinks \in Nat /\ 0 \in 0..MaxLinks /\ MaxLinks - 0 <= MaxLinks
  BY JailAssumption
<1>2. <<>> \in Seq(Names) /\ p \o <<>> = p
  OBVIOUS
<1>3. Leads(p, MaxLinks)
  BY <1>1, LeadsAll
<1>4. PICK t \in Walks : /\ Walk(At(<<>>, p \o <<>>, 0)) = Walk(t)
                         /\ Passes(t, p, <<>>, 0, MaxLinks)
  BY <1>1, <1>2, <1>3 DEF Leads
<1>5. Ended(t)
  BY <1>4 DEF Passes, Ended
<1>6. Walk(At(<<>>, p, 0)) = t
  <2>1. Walk(t) = t
    BY <1>5, WalkOn
  <2> QED
    BY <1>2, <1>4, <2>1
<1>7. EvalSymlinks(p) = [err |-> t.err, real |-> IF t.err = "none" THEN t.done ELSE <<>>]
  BY <1>6 DEF EvalSymlinks
<1>8. t.done \in Seq(Names) /\ Physical(t.done)
  BY DEF Walks
<1>9. Place(p, LinkPlaces(MaxLinks)) = RealLoc(p)
  BY DEF RealLoc
<1>10. /\ EvalSymlinks(p).err = t.err
       /\ t.err = "none" => EvalSymlinks(p).real = t.done
       /\ t.err # "none" => EvalSymlinks(p).real = <<>>
  BY <1>7
<1>11. CASE t.err = "none"
  BY <1>4, <1>8, <1>9, <1>10, <1>11 DEF Passes
<1>12. CASE t.err = "too many links"
  BY <1>10, <1>12
<1>13. CASE t.err \in {"not exist", "not a directory"}
  BY <1>4, <1>9, <1>10, <1>13 DEF Passes
<1> QED
  BY <1>4, <1>11, <1>12, <1>13 DEF Passes

-----------------------------------------------------------------------------
(***************************************************************************)
(* Clean.                                                                  *)
(***************************************************************************)

\* A part of a path with its names cleaned one after the other.
Cleaned(d, x) == IF x # Up THEN Append(d, x) ELSE IF d # <<>> THEN Front(d) ELSE <<>>
Cleans(c, comps, n) == c = [i \in 0..n |-> IF i = 0 THEN <<>> ELSE Cleaned(c[i - 1], comps[i])]

\* The recursion of Clean has a solution.
LEMMA CleansExist ==
  ASSUME NEW comps, NEW n \in Nat
  PROVE  \E c : Cleans(c, comps, n)
<1> DEFINE S == {m \in 0..n : \E c : Cleans(c, comps, m)}
<1>1. 0 \in S
  <2>1. Cleans([i \in 0..0 |-> <<>>], comps, 0)
    BY DEF Cleans
  <2> QED
    BY <2>1
<1>2. ASSUME NEW m \in 1..n, m - 1 \in S PROVE m \in S
  <2>1. PICK c : Cleans(c, comps, m - 1)
    BY <1>2
  <2> DEFINE h == [i \in 0..m |-> IF i = m THEN Cleaned(c[i - 1], comps[i]) ELSE c[i]]
  <2>2. ASSUME NEW i \in 0..m PROVE h[i] = IF i = 0 THEN <<>> ELSE Cleaned(h[i - 1], comps[i])
    <3>1. i # 0 => i - 1 \in 0..m /\ i - 1 # m /\ h[i - 1] = c[i - 1]
      OBVIOUS
    <3>2. CASE i = m
      BY <3>1, <3>2
    <3>3. CASE i # m
      <4>1. i \in 0..(m - 1)
        BY <3>3
      <4>2. c[i] = IF i = 0 THEN <<>> ELSE Cleaned(c[i - 1], comps[i])
        BY <2>1, <4>1 DEF Cleans
      <4> QED
        BY <3>1, <3>3, <4>2
    <3> QED
      BY <3>2, <3>3
  <2>3. Cleans(h, comps, m)
    <3>1. h = [i \in 0..m |-> h[i]]
      OBVIOUS
    <3> HIDE DEF h
    <3> QED
      BY <2>2, <3>1 DEF Cleans
  <2> QED
    BY <2>3
<1> HIDE DEF S
<1>3. 0..n \subseteq S
  BY <1>1, <1>2, FromNought
<1>4. n \in S
  BY <1>3
<1> QED
  BY <1>4 DEF S

\* filepath.Clean leaves no way up in a path.
LEMMA CleanType ==
  ASSUME NEW comps \in Seq(Names \cup {Up})
  PROVE  Clean(comps) \in Seq(Names)
<1> DEFINE n == Len(comps)
           c == CHOOSE c : c = [i \in 0..n |->
                  CASE i > 0 /\ comps[i] # Up -> Append(c[i - 1], comps[i])
                    [] i > 0 /\ comps[i] = Up /\ c[i - 1] # <<>> -> Front(c[i - 1])
                    [] OTHER -> <<>>]
<1>1. n \in Nat
  OBVIOUS
<1>2. Clean(comps) = c[n]
  BY DEF Clean
<1>3. \E h : h = [i \in 0..n |->
                    CASE i > 0 /\ comps[i] # Up -> Append(h[i - 1], comps[i])
                      [] i > 0 /\ comps[i] = Up /\ h[i - 1] # <<>> -> Front(h[i - 1])
                      [] OTHER -> <<>>]
  <2>1. PICK h : Cleans(h, comps, n)
    BY <1>1, CleansExist
  <2> HIDE DEF n
  <2> DEFINE alt(i) == CASE i > 0 /\ comps[i] # Up -> Append(h[i - 1], comps[i])
                         [] i > 0 /\ comps[i] = Up /\ h[i - 1] # <<>> -> Front(h[i - 1])
                         [] OTHER -> <<>>
  <2>2. ASSUME NEW i \in 0..n
        PROVE  (IF i = 0 THEN <<>> ELSE Cleaned(h[i - 1], comps[i])) = alt(i)
    <3>1. i > 0 <=> i # 0
      BY <1>1
    <3> QED
      BY <3>1 DEF Cleaned
  <2> HIDE DEF alt
  <2>3. h = [i \in 0..n |-> alt(i)]
    BY <2>1, <2>2 DEF Cleans
  <2> QED
    BY <2>3 DEF alt
<1>4. \A i \in 0..n : c[i] = CASE i > 0 /\ comps[i] # Up -> Append(c[i - 1], comps[i])
                               [] i > 0 /\ comps[i] = Up /\ c[i - 1] # <<>> -> Front(c[i - 1])
                               [] OTHER -> <<>>
  BY <1>3
<1> HIDE DEF c, n
<1> DEFINE S == {i \in 0..n : c[i] \in Seq(Names)}
<1>5. 0 \in S
  <2>1. 0 \in 0..n
    BY <1>1
  <2>2. c[0] = <<>>
    BY <1>4, <2>1
  <2>3. c[0] \in Seq(Names)
    BY <2>2
  <2> QED
    BY <2>1, <2>3
<1>6. ASSUME NEW i \in 1..n, i - 1 \in S PROVE i \in S
  <2>1. i \in 0..n /\ i > 0 /\ comps[i] \in Names \cup {Up}
    BY <1>1 DEF n
  <2>2. c[i - 1] \in Seq(Names)
    BY <1>6
  <2>3. c[i] = CASE i > 0 /\ comps[i] # Up -> Append(c[i - 1], comps[i])
                 [] i > 0 /\ comps[i] = Up /\ c[i - 1] # <<>> -> Front(c[i - 1])
                 [] OTHER -> <<>>
    BY <1>4, <2>1
  <2>4. CASE comps[i] # Up
    <3>1. c[i] = Append(c[i - 1], comps[i]) /\ comps[i] \in Names
      BY <2>1, <2>3, <2>4
    <3>2. c[i] \in Seq(Names)
      BY <2>2, <3>1
    <3> QED
      BY <2>1, <3>2
  <2>5. CASE comps[i] = Up /\ c[i - 1] # <<>>
    <3>1. c[i] = Front(c[i - 1])
      BY <2>1, <2>3, <2>5
    <3>2. Len(c[i - 1]) - 1 \in 0..Len(c[i - 1])
      BY <2>2, <2>5
    <3>3. Front(c[i - 1]) \in Seq(Names)
      BY <2>2, <3>2, Beginning DEF Front
    <3>4. c[i] \in Seq(Names)
      BY <3>1, <3>3
    <3> QED
      BY <2>1, <3>4
  <2>6. CASE comps[i] = Up /\ c[i - 1] = <<>>
    <3>1. c[i] = <<>>
      BY <2>3, <2>6
    <3>2. c[i] \in Seq(Names)
      BY <3>1
    <3> QED
      BY <2>1, <3>2
  <2> QED
    BY <2>4, <2>5, <2>6
<1> HIDE DEF S
<1>7. 0..n \subseteq S
  BY <1>1, <1>5, <1>6, FromNought
<1>8. n \in S
  BY <1>1, <1>7
<1> QED
  BY <1>2, <1>8 DEF S

-----------------------------------------------------------------------------
(***************************************************************************)
(* Paths as strings.                                                       *)
(***************************************************************************)

Letters == UNION {ToSet(x) : x \in Names}
Chars == Letters \cup {"/"}
Written(x) == <<"/">> \o x
Text(p) == FlattenSeq([i \in 1..Len(p) |-> Written(p[i])])

\* No letter of a name is the separator.
LEMMA NameIs ==
  ASSUME NEW x \in Names
  PROVE  /\ x \in Seq(Chars) /\ Len(x) \in Nat /\ Len(x) > 0
         /\ \A i \in 1..Len(x) : x[i] # "/"
<1>1. x \in Seq(ToSet(x)) /\ x # <<>> /\ "/" \notin ToSet(x)
  BY NameAssumption
<1>2. Len(x) \in Nat /\ Len(x) > 0 /\ \A i \in 1..Len(x) : x[i] \in ToSet(x)
  BY <1>1
<1>3. ToSet(x) \subseteq Chars
  BY DEF Chars, Letters
<1>4. x \in Seq(Chars)
  BY <1>1, <1>3
<1> QED
  BY <1>1, <1>2, <1>4

\* Texts can be joined from either end.
LEMMA Joined ==
  \A a, b, c \in Seq(Chars) : (a \o b) \o c = a \o (b \o c)
<1> TAKE a, b, c \in Seq(Chars)
<1> QED
  BY ConcatAssociative

\* A name is written behind a separator.
LEMMA WrittenIs ==
  ASSUME NEW x \in Names
  PROVE  /\ Written(x) \in Seq(Chars) /\ Len(Written(x)) = Len(x) + 1 /\ Written(x)[1] = "/"
         /\ \A i \in 1..Len(x) : Written(x)[i + 1] = x[i]
<1>1. x \in Seq(Chars) /\ <<"/">> \in Seq(Chars) /\ Len(<<"/">>) = 1
  BY NameIs DEF Chars
<1> QED
  BY <1>1 DEF Written

\* The text of a path grows with its names.
LEMMA TextGrows ==
  /\ Text(<<>>) = <<>>
  /\ \A p \in Seq(Names) : Text(p) \in Seq(Chars)
  /\ \A p \in Seq(Names), x \in Names : Text(Append(p, x)) = Text(p) \o Written(x)
<1> DEFINE w(p) == [i \in 1..Len(p) |-> Written(p[i])]
<1>1. ASSUME NEW p \in Seq(Names) PROVE w(p) \in Seq(Seq(Chars)) /\ Len(w(p)) = Len(p)
  <2>1. \A i \in 1..Len(p) : p[i] \in Names
    OBVIOUS
  <2>2. \A i \in 1..Len(p) : Written(p[i]) \in Seq(Chars)
    BY <2>1, WrittenIs
  <2> QED
    BY <2>2
<1>2. w(<<>>) = <<>>
  OBVIOUS
<1>3. ASSUME NEW p \in Seq(Names), NEW x \in Names PROVE w(Append(p, x)) = Append(w(p), Written(x))
  <2> DEFINE q == Append(p, x)
             n == Len(p)
  <2>1. /\ q \in Seq(Names) /\ Len(q) = n + 1 /\ n \in Nat /\ q[n + 1] = x
        /\ \A i \in 1..n : q[i] = p[i]
    OBVIOUS
  <2> HIDE DEF q
  <2>2. /\ w(p) \in Seq(Seq(Chars)) /\ Len(w(p)) = n /\ w(q) \in Seq(Seq(Chars)) /\ Len(w(q)) = n + 1
        /\ Written(x) \in Seq(Chars)
    BY <1>1, <2>1, WrittenIs
  <2>3. \A i \in 1..n : w(p)[i] = Written(p[i])
    OBVIOUS
  <2>4. \A i \in 1..(n + 1) : w(q)[i] = Written(q[i])
    BY <2>1
  <2> HIDE DEF w, n
  <2>5. \A i \in 1..(n + 1) : w(q)[i] = Append(w(p), Written(x))[i]
    <3>1. ASSUME NEW i \in 1..(n + 1) PROVE w(q)[i] = Append(w(p), Written(x))[i]
      <4>1. CASE i \in 1..n
        BY <2>1, <2>2, <2>3, <2>4, <4>1
      <4>2. CASE i = n + 1
        BY <2>1, <2>2, <2>4, <4>2
      <4>3. i \in 1..n \/ i = n + 1
        <5>1. n \in Nat
          BY <2>1
        <5> QED
          BY <5>1
      <4> QED
        BY <4>1, <4>2, <4>3
    <3> QED
      BY <3>1
  <2>6. Append(w(p), Written(x)) \in Seq(Seq(Chars)) /\ Len(Append(w(p), Written(x))) = n + 1
    BY <2>2
  <2> QED
    BY <2>2, <2>5, <2>6, SeqEqual DEF q
<1>4. \A p : Text(p) = FlattenSeq(w(p))
  BY DEF Text
<1> HIDE DEF w
<1>5. ASSUME NEW p \in Seq(Names) PROVE Text(p) \in Seq(Chars)
  BY <1>1, <1>4, FlattenType
<1>6. ASSUME NEW p \in Seq(Names), NEW x \in Names PROVE Text(Append(p, x)) = Text(p) \o Written(x)
  BY <1>1, <1>3, <1>4, FlattenAppend, WrittenIs
<1>7. Text(<<>>) = <<>>
  <2>1. FlattenSeq(<<>>) = <<>>
    BY DEF FlattenSeq
  <2> QED
    BY <1>2, <1>4, <2>1
<1> QED
  BY <1>5, <1>6, <1>7

\* The text of two paths is that of one and then that of the other.
LEMMA TextJoins ==
  ASSUME NEW p \in Seq(Names), NEW q \in Seq(Names)
  PROVE  Text(p \o q) = Text(p) \o Text(q)
<1> DEFINE n == Len(q)
           S == {i \in 0..n : Text(p \o SubSeq(q, 1, i)) = Text(p) \o Text(SubSeq(q, 1, i))}
<1>1. n \in Nat /\ n \in 0..n /\ 0 \in 0..n
  OBVIOUS
<1>2. 0 \in S
  <2>1. SubSeq(q, 1, 0) = <<>> /\ p \o <<>> = p
    OBVIOUS
  <2>2. Text(p) \o <<>> = Text(p)
    <3>1. Text(p) \in Seq(Chars)
      BY TextGrows
    <3> QED
      BY <3>1
  <2>3. Text(p \o SubSeq(q, 1, 0)) = Text(p) \o Text(SubSeq(q, 1, 0))
    BY <2>1, <2>2, TextGrows
  <2> QED
    BY <1>1, <2>3
<1>3. ASSUME NEW i \in 1..n, i - 1 \in S PROVE i \in S
  <2> DEFINE b == SubSeq(q, 1, i - 1)
             x == q[i]
  <2>1. i - 1 \in 0..n /\ i \in 0..n /\ Text(p \o b) = Text(p) \o Text(b)
    BY <1>3
  <2>2. b \in Seq(Names) /\ x \in Names
    BY <2>1, Beginning
  <2>3. SubSeq(q, 1, i) = Append(b, x)
    OBVIOUS
  <2> HIDE DEF b, x
  <2>4. p \o b \in Seq(Names) /\ p \o Append(b, x) = Append(p \o b, x)
    BY <2>2
  <2>5. Text(p \o Append(b, x)) = (Text(p) \o Text(b)) \o Written(x)
    BY <2>1, <2>2, <2>4, TextGrows
  <2>6. /\ Text(p) \in Seq(Chars) /\ Text(b) \in Seq(Chars) /\ Written(x) \in Seq(Chars)
        /\ Text(Append(b, x)) = Text(b) \o Written(x)
    BY <2>2, TextGrows, WrittenIs
  <2>7. (Text(p) \o Text(b)) \o Written(x) = Text(p) \o (Text(b) \o Written(x))
    BY <2>6, Joined, Zenon
  <2>8. Text(p \o SubSeq(q, 1, i)) = Text(p) \o Text(SubSeq(q, 1, i))
    BY <2>3, <2>5, <2>6, <2>7
  <2> QED
    BY <2>1, <2>8
<1> HIDE DEF S, n
<1>4. 0..n \subseteq S
  BY <1>1, <1>2, <1>3, FromNought
<1>5. n \in S
  BY <1>1, <1>4
<1>6. SubSeq(q, 1, n) = q
  BY DEF n
<1> QED
  BY <1>5, <1>6 DEF S

\* The text of a path that is not the root starts with a separator, then its first name.
LEMMA TextStarts ==
  ASSUME NEW p \in Seq(Names), p # <<>>
  PROVE  /\ Head(p) \in Names /\ Tail(p) \in Seq(Names) /\ p = <<Head(p)>> \o Tail(p)
         /\ Len(Tail(p)) = Len(p) - 1
         /\ Text(p) = Written(Head(p)) \o Text(Tail(p))
         /\ Text(p) \in Seq(Chars) /\ Len(Text(p)) \in Nat /\ Len(Text(p)) > 0 /\ Text(p)[1] = "/"
<1> DEFINE x == Head(p)
           r == Tail(p)
<1>1. x \in Names /\ r \in Seq(Names) /\ p = <<x>> \o r /\ Len(r) = Len(p) - 1
  OBVIOUS
<1> HIDE DEF x, r
<1>2. Written(x) \in Seq(Chars) /\ Len(Written(x)) > 0 /\ Len(Written(x)) \in Nat /\ Written(x)[1] = "/"
  BY <1>1, WrittenIs, NameIs
<1>3. Text(<<x>>) = Written(x)
  <2>1. <<x>> = Append(<<>>, x) /\ <<>> \in Seq(Names)
    OBVIOUS
  <2>2. Text(<<x>>) = <<>> \o Written(x)
    BY <1>1, <2>1, TextGrows
  <2> QED
    BY <1>2, <2>2
<1>4. Text(p) = Written(x) \o Text(r) /\ Text(r) \in Seq(Chars)
  <2>1. <<x>> \in Seq(Names)
    BY <1>1
  <2> QED
    BY <1>1, <1>3, <2>1, TextJoins, TextGrows
<1>5. /\ Written(x) \o Text(r) \in Seq(Chars)
      /\ Len(Written(x) \o Text(r)) = Len(Written(x)) + Len(Text(r)) /\ Len(Text(r)) \in Nat
      /\ (Written(x) \o Text(r))[1] = "/"
  BY <1>2, <1>4
<1>6. /\ Text(p) \in Seq(Chars) /\ Len(Text(p)) \in Nat /\ Len(Text(p)) > 0 /\ Text(p)[1] = "/"
  BY <1>2, <1>4, <1>5
<1> QED
  BY <1>1, <1>4, <1>6 DEF x, r

\* One sequence is a prefix of another if it agrees with it for as long as it is.
LEMMA PrefixOf ==
  ASSUME NEW T, NEW s \in Seq(T), NEW t \in Seq(T)
  PROVE  IsPrefix(s, t) <=> Len(s) <= Len(t) /\ \A i \in 1..Len(s) : s[i] = t[i]
<1> DEFINE n == Len(s)
<1>1. n \in Nat /\ Len(t) \in Nat /\ n \in 0..n /\ n \in Int /\ n <= n
  OBVIOUS
<1>2. ASSUME IsPrefix(s, t) PROVE n <= Len(t) /\ \A i \in 1..n : s[i] = t[i]
  <2>1. n <= Len(t) /\ SubSeq(s, 1, n) = SubSeq(t, 1, n)
    BY <1>2 DEF IsPrefix
  <2>2. n \in 0..Len(t)
    BY <1>1, <2>1
  <2>3. \A i \in 1..n : SubSeq(s, 1, n)[i] = s[i]
    BY <1>1, Beginning
  <2>4. \A i \in 1..n : SubSeq(t, 1, n)[i] = t[i]
    BY <2>2, Beginning
  <2> QED
    BY <2>1, <2>3, <2>4
<1>3. ASSUME n <= Len(t), \A i \in 1..n : s[i] = t[i] PROVE IsPrefix(s, t)
  <2>1. SubSeq(s, 1, n) = SubSeq(t, 1, n)
    BY <1>1, <1>3, SamePart
  <2> QED
    BY <1>3, <2>1 DEF IsPrefix
<1> QED
  BY <1>2, <1>3

\* What comes behind a prefix.
LEMMA BehindPrefix ==
  ASSUME NEW T, NEW s \in Seq(T), NEW t \in Seq(T), IsPrefix(s, t)
  PROVE  /\ SubSeq(t, Len(s) + 1, Len(t)) \in Seq(T)
         /\ t = s \o SubSeq(t, Len(s) + 1, Len(t))
<1> DEFINE n == Len(s)
           u == SubSeq(t, n + 1, Len(t))
<1>1. n \in Nat /\ Len(t) \in Nat
  OBVIOUS
<1>2. n <= Len(t) /\ \A i \in 1..n : s[i] = t[i]
  BY PrefixOf
<1>3. u \in Seq(T) /\ Len(u) = Len(t) - n /\ \A i \in 1..(Len(t) - n) : u[i] = t[n + i]
  BY <1>1, <1>2
<1> HIDE DEF u
<1>4. s \o u \in Seq(T) /\ Len(s \o u) = Len(t)
  BY <1>1, <1>2, <1>3
<1>5. ASSUME NEW i \in 1..Len(t) PROVE t[i] = (s \o u)[i]
  <2>1. CASE i <= n
    <3>1. i \in 1..n /\ (s \o u)[i] = s[i]
      BY <1>1, <1>3, <2>1
    <3> QED
      BY <1>2, <3>1
  <2>2. CASE i > n
    <3>1. i - n \in 1..(Len(t) - n) /\ n + (i - n) = i /\ i - n \in 1..Len(u)
      BY <1>1, <1>2, <1>3, <2>2
    <3>2. (s \o u)[i] = u[i - n]
      BY <1>1, <1>3, <2>2, <3>1
    <3> QED
      BY <1>3, <3>1, <3>2
  <2>3. i <= n \/ i > n
    BY <1>1
  <2> QED
    BY <2>1, <2>2, <2>3
<1>6. t = s \o u
  BY <1>4, <1>5, SeqEqual
<1> QED
  BY <1>3, <1>6 DEF u

\* What is written before a text.
LEMMA WrittenBefore ==
  ASSUME NEW x \in Names, NEW u \in Seq(Chars)
  PROVE  LET s == Written(x) \o u IN
         /\ s \in Seq(Chars) /\ Len(s) = Len(x) + 1 + Len(u)
         /\ \A i \in 1..Len(x) : s[i + 1] = x[i]
         /\ \A i \in 1..Len(u) : s[Len(x) + 1 + i] = u[i]
<1> DEFINE s == Written(x) \o u
           n == Len(x)
<1>1. Len(u) \in Nat
  OBVIOUS
<1>2. /\ n \in Nat /\ Written(x) \in Seq(Chars) /\ Len(Written(x)) = n + 1
      /\ \A i \in 1..n : Written(x)[i + 1] = x[i]
  BY NameIs, WrittenIs
<1>3. /\ s \in Seq(Chars) /\ Len(s) = Len(Written(x)) + Len(u)
      /\ \A i \in 1..(Len(Written(x)) + Len(u)) :
           s[i] = IF i <= Len(Written(x)) THEN Written(x)[i] ELSE u[i - Len(Written(x))]
  BY <1>2, ConcatProperties
<1> HIDE DEF s, n
<1>4. \A i \in 1..(n + 1 + Len(u)) : s[i] = IF i <= n + 1 THEN Written(x)[i] ELSE u[i - (n + 1)]
  BY <1>2, <1>3
<1>5. ASSUME NEW i \in 1..n PROVE s[i + 1] = x[i]
  <2>1. i + 1 \in 1..(n + 1 + Len(u)) /\ i + 1 <= n + 1
    BY <1>1, <1>2
  <2> QED
    BY <1>2, <1>4, <2>1
<1>6. ASSUME NEW i \in 1..Len(u) PROVE s[n + 1 + i] = u[i]
  <2> DEFINE j == n + 1 + i
  <2>1. j \in 1..(n + 1 + Len(u)) /\ ~(j <= n + 1) /\ j - (n + 1) = i
    BY <1>1, <1>2
  <2> HIDE DEF j
  <2>2. s[j] = u[i]
    BY <1>4, <2>1
  <2> QED
    BY <2>2 DEF j
<1>7. Len(s) = n + 1 + Len(u)
  BY <1>2, <1>3
<1> QED
  BY <1>3, <1>5, <1>6, <1>7 DEF s, n

\* A name ends where a separator comes.
LEMMA SameName ==
  ASSUME NEW x \in Names, NEW y \in Names, NEW u \in Seq(Chars), NEW v \in Seq(Chars),
         Len(u) > 0, u[1] = "/", v = <<>> \/ v[1] = "/",
         IsPrefix(Written(x) \o u, Written(y) \o v)
  PROVE  x = y /\ IsPrefix(u, v)
<1> DEFINE s == Written(x) \o u
           t == Written(y) \o v
           n == Len(x)
           m == Len(y)
<1>1. /\ Len(u) \in Nat /\ Len(v) \in Nat /\ v # <<>> => Len(v) > 0
  OBVIOUS
<1>2. /\ x \in Seq(Chars) /\ n \in Nat /\ n > 0 /\ \A i \in 1..n : x[i] # "/"
      /\ Written(x) \in Seq(Chars) /\ Len(Written(x)) = n + 1 /\ \A i \in 1..n : Written(x)[i + 1] = x[i]
  BY NameIs, WrittenIs
<1>3. /\ y \in Seq(Chars) /\ m \in Nat /\ m > 0 /\ \A i \in 1..m : y[i] # "/"
      /\ Written(y) \in Seq(Chars) /\ Len(Written(y)) = m + 1 /\ \A i \in 1..m : Written(y)[i + 1] = y[i]
  BY NameIs, WrittenIs
<1>4. /\ s \in Seq(Chars) /\ Len(s) = n + 1 + Len(u)
      /\ \A i \in 1..n : s[i + 1] = x[i]
      /\ \A i \in 1..Len(u) : s[n + 1 + i] = u[i]
  BY WrittenBefore
<1>5. /\ t \in Seq(Chars) /\ Len(t) = m + 1 + Len(v)
      /\ \A i \in 1..m : t[i + 1] = y[i]
      /\ \A i \in 1..Len(v) : t[m + 1 + i] = v[i]
  BY WrittenBefore
<1>12. IsPrefix(s, t)
  OBVIOUS
<1> HIDE DEF s, t, n, m
<1>6. Len(s) <= Len(t) /\ \A i \in 1..Len(s) : s[i] = t[i]
  BY <1>4, <1>5, <1>12, PrefixOf
<1>7. ~(n < m)
  <2> SUFFICES ASSUME n < m PROVE FALSE
    OBVIOUS
  <2>1. 1 \in 1..Len(u) /\ n + 1 \in 1..m /\ n + 1 + 1 \in 1..Len(s)
    BY <1>1, <1>2, <1>3, <1>4
  <2>2. s[n + 1 + 1] = "/" /\ t[n + 1 + 1] = y[n + 1] /\ y[n + 1] # "/"
    BY <1>3, <1>4, <1>5, <2>1
  <2> QED
    BY <1>6, <2>1, <2>2
<1>8. ~(m < n)
  <2> SUFFICES ASSUME m < n PROVE FALSE
    OBVIOUS
  <2>1. m + 1 \in 1..n /\ m + 1 + 1 \in 1..Len(s) /\ Len(v) > 0 /\ 1 \in 1..Len(v)
    BY <1>1, <1>2, <1>3, <1>4, <1>5, <1>6
  <2>2. v[1] = "/"
    BY <2>1
  <2>3. t[m + 1 + 1] = "/" /\ s[m + 1 + 1] = x[m + 1] /\ x[m + 1] # "/"
    BY <1>2, <1>4, <1>5, <2>1, <2>2
  <2> QED
    BY <1>6, <2>1, <2>3
<1>9. n = m
  BY <1>2, <1>3, <1>7, <1>8
<1>10. x = y
  <2>1. ASSUME NEW i \in 1..n PROVE x[i] = y[i]
    <3>1. i + 1 \in 1..Len(s) /\ s[i + 1] = x[i] /\ t[i + 1] = y[i]
      BY <1>1, <1>2, <1>4, <1>5, <1>9
    <3> QED
      BY <1>6, <3>1
  <2>2. Len(x) = Len(y) /\ \A i \in 1..Len(x) : x[i] = y[i]
    BY <1>9, <2>1 DEF n, m
  <2> QED
    BY <1>2, <1>3, <2>2, SeqEqual
<1>11. IsPrefix(u, v)
  <2>1. ASSUME NEW i \in 1..Len(u) PROVE u[i] = v[i]
    <3>1. Len(u) <= Len(v)
      BY <1>1, <1>2, <1>4, <1>5, <1>6, <1>9
    <3>2. n + 1 + i \in 1..Len(s) /\ i \in 1..Len(v)
      BY <1>1, <1>2, <1>4, <3>1
    <3>3. s[n + 1 + i] = u[i] /\ t[n + 1 + i] = v[i]
      BY <1>4, <1>5, <1>9, <3>2
    <3> QED
      BY <1>6, <3>2, <3>3
  <2>2. Len(u) <= Len(v)
    BY <1>1, <1>2, <1>4, <1>5, <1>6, <1>9
  <2> QED
    BY <2>1, <2>2, PrefixOf
<1> QED
  BY <1>10, <1>11

\* Behind the text of the shorter path comes a separator: then its names come first.
LEMMA SeparatedPrefix ==
  ASSUME NEW a \in Seq(Names), NEW b \in Seq(Names), IsPrefix(Append(Text(a), "/"), Text(b))
  PROVE  IsPrefix(a, b)
<1> DEFINE good(k) == \A p, q \in Seq(Names) :
                        Len(p) = k /\ IsPrefix(Append(Text(p), "/"), Text(q)) => IsPrefix(p, q)
           n == Len(a)
           S == {k \in 0..n : good(k)}
<1>1. n \in Nat /\ n \in 0..n /\ 0 \in 0..n
  OBVIOUS
<1>2. good(0)
  <2>1. ASSUME NEW p \in Seq(Names), NEW q \in Seq(Names), Len(p) = 0 PROVE IsPrefix(p, q)
    <3>1. Len(p) <= Len(q) /\ \A i \in 1..Len(p) : p[i] = q[i]
      BY <2>1
    <3> QED
      BY <3>1, PrefixOf
  <2> QED
    BY <2>1
<1>3. ASSUME NEW k \in 1..n, good(k - 1) PROVE good(k)
  <2> SUFFICES ASSUME NEW p \in Seq(Names), NEW q \in Seq(Names), Len(p) = k,
                      IsPrefix(Append(Text(p), "/"), Text(q))
               PROVE  IsPrefix(p, q)
    OBVIOUS
  <2>1. /\ Text(p) \in Seq(Chars) /\ Text(q) \in Seq(Chars) /\ "/" \in Chars
        /\ Append(Text(p), "/") \in Seq(Chars) /\ Len(Append(Text(p), "/")) > 0
    <3>1. Text(p) \in Seq(Chars) /\ Text(q) \in Seq(Chars) /\ "/" \in Chars
      BY TextGrows DEF Chars
    <3> QED
      BY <3>1
  <2>2. p # <<>>
    OBVIOUS
  <2>3. q # <<>>
    <3>1. Len(Append(Text(p), "/")) <= Len(Text(q))
      BY <2>1, PrefixOf
    <3>2. Len(<<>>) = 0
      OBVIOUS
    <3> QED
      BY <2>1, <3>1, <3>2, TextGrows
  <2> DEFINE x == Head(p)
             y == Head(q)
             r == Tail(p)
             w == Tail(q)
             u == Append(Text(r), "/")
             v == Text(w)
  <2>4. x \in Names /\ r \in Seq(Names) /\ p = <<x>> \o r /\ Len(r) = k - 1 /\ Text(p) = Written(x) \o Text(r)
    BY <2>2, TextStarts
  <2>5. y \in Names /\ w \in Seq(Names) /\ q = <<y>> \o w /\ Text(q) = Written(y) \o v
    BY <2>3, TextStarts
  <2> HIDE DEF x, y, r, w
  <2>6. Text(r) \in Seq(Chars) /\ Written(x) \in Seq(Chars) /\ v \in Seq(Chars)
    BY <2>4, <2>5, TextGrows, WrittenIs
  <2>7. /\ Append(Text(p), "/") = Written(x) \o u
        /\ u \in Seq(Chars) /\ Len(u) > 0
    <3> DEFINE sep == <<"/">>
    <3>1. u = Text(r) \o sep /\ Append(Text(p), "/") = Text(p) \o sep
      BY <2>1, <2>6, AppendIsConcat
    <3>2. sep \in Seq(Chars)
      BY <2>1
    <3> HIDE DEF sep
    <3>3. (Written(x) \o Text(r)) \o sep = Written(x) \o (Text(r) \o sep)
      BY <2>6, <3>2, Joined, Zenon
    <3>4. u \in Seq(Chars) /\ Len(u) > 0
      BY <2>1, <2>6
    <3> QED
      BY <2>4, <3>1, <3>3, <3>4
  <2>8. u[1] = "/"
    <3>1. CASE r = <<>>
      <4>1. Text(r) = <<>>
        BY <3>1, TextGrows
      <4>2. u = Append(<<>>, "/") /\ Append(<<>>, "/")[1] = "/"
        BY <4>1
      <4> QED
        BY <4>2, Zenon
    <3>2. CASE r # <<>>
      <4>1. Len(Text(r)) \in Nat /\ Len(Text(r)) > 0 /\ Text(r)[1] = "/"
        BY <2>4, <3>2, TextStarts
      <4> QED
        BY <2>6, <4>1
    <3> QED
      BY <3>1, <3>2
  <2>9. v = <<>> \/ v[1] = "/"
    BY <2>5, TextStarts, TextGrows
  <2>10. IsPrefix(Written(x) \o u, Written(y) \o v)
    BY <2>5, <2>7
  <2> HIDE DEF u, v
  <2>11. x = y /\ IsPrefix(u, v)
    BY <2>4, <2>5, <2>6, <2>7, <2>8, <2>9, <2>10, SameName
  <2>12. IsPrefix(r, w)
    <3>1. IsPrefix(Append(Text(r), "/"), Text(w))
      BY <2>11 DEF u, v
    <3>2. \A f, h \in Seq(Names) :
            Len(f) = k - 1 /\ IsPrefix(Append(Text(f), "/"), Text(h)) => IsPrefix(f, h)
      BY <1>3
    <3> QED
      BY <2>4, <2>5, <3>1, <3>2
  <2> DEFINE z == SubSeq(w, Len(r) + 1, Len(w))
  <2>13. z \in Seq(Names) /\ w = r \o z
    BY <2>4, <2>5, <2>12, BehindPrefix
  <2> HIDE DEF z
  <2>14. q = p \o z
    <3>1. <<x>> \in Seq(Names)
      BY <2>4
    <3>2. (<<x>> \o r) \o z = <<x>> \o (r \o z)
      BY <2>4, <2>13, <3>1
    <3>3. q = <<x>> \o (r \o z)
      BY <2>5, <2>11, <2>13
    <3> QED
      BY <2>4, <3>2, <3>3
  <2>15. Len(p) <= Len(p \o z) /\ \A i \in 1..Len(p) : (p \o z)[i] = p[i]
    BY <2>13
  <2> QED
    BY <2>14, <2>15, PrefixOf
<1> HIDE DEF good
<1>4. 0..n \subseteq S
  <2>1. 0 \in S
    BY <1>1, <1>2
  <2>2. ASSUME NEW k \in 1..n, k - 1 \in S PROVE k \in S
    BY <1>1, <1>3, <2>2
  <2> HIDE DEF S
  <2> QED
    BY <1>1, <2>1, <2>2, FromNought
<1>5. good(n)
  BY <1>1, <1>4
<1> QED
  BY <1>5 DEF good

\* JailSet.contains, a test of strings, is right about the names: a path is below a root.
LEMMA ContainsInside ==
  ASSUME jail \in SUBSET Seq(Names), NEW p \in Seq(Names)
  PROVE  contains(p) <=> Inside(p)
<1> DEFINE s(root) == Str(root)
           prefix(root) == IF Last(s(root)) = "/" THEN s(root) ELSE Append(s(root), "/")
           below(root) == p = root \/ IsPrefix(prefix(root), Str(p))
<1>1. contains(p) <=> \E root \in jail : below(root)
  BY DEF contains
<1>2. \A q \in Seq(Names) : q # <<>> => Str(q) = Text(q)
  BY DEF Str, Text, Written
<1>3. Str(<<>>) = <<"/">> /\ "/" \in Chars /\ <<"/">> \in Seq(Chars) /\ Len(<<"/">>) = 1 /\ <<"/">>[1] = "/"
  BY DEF Str, Chars
<1>4. ASSUME NEW root \in jail PROVE below(root) <=> IsPrefix(root, p)
  <2>1. root \in Seq(Names)
    OBVIOUS
  <2>2. CASE root = <<>>
    <3>1. IsPrefix(root, p)
      BY <2>1, <2>2, PrefixOf
    <3>2. prefix(root) = <<"/">>
      BY <1>3, <2>2 DEF Last
    <3>3. CASE p = <<>>
      BY <2>2, <3>1, <3>3
    <3>4. CASE p # <<>>
      <4>1. Str(p) \in Seq(Chars) /\ Len(Str(p)) \in Nat /\ Len(Str(p)) > 0 /\ Str(p)[1] = "/"
        BY <1>2, <3>4, TextStarts
      <4>2. Len(<<"/">>) <= Len(Str(p)) /\ \A i \in 1..Len(<<"/">>) : <<"/">>[i] = Str(p)[i]
        BY <1>3, <4>1
      <4>3. IsPrefix(<<"/">>, Str(p))
        BY <1>3, <4>1, <4>2, PrefixOf
      <4> QED
        BY <3>1, <3>2, <4>3
    <3> QED
      BY <3>3, <3>4
  <2>3. CASE root # <<>>
    <3>1. Str(root) = Text(root) /\ Text(root) \in Seq(Chars) /\ Len(Text(root)) \in Nat /\ Len(Text(root)) > 0
      BY <1>2, <2>1, <2>3, TextStarts
    <3>2. Last(Text(root)) # "/"
      <4> DEFINE r == Front(root)
                 x == root[Len(root)]
      <4>1. x \in Names /\ r \in Seq(Names) /\ root = Append(r, x)
        <5>1. Len(root) \in 1..Len(root) /\ Len(root) - 1 \in 0..Len(root)
          BY <2>1, <2>3
        <5>2. x \in Names /\ r \in Seq(Names)
          BY <2>1, <5>1, Beginning DEF Front
        <5>3. root = Append(SubSeq(root, 1, Len(root) - 1), root[Len(root)])
          BY <2>1, <2>3
        <5> QED
          BY <5>2, <5>3 DEF Front
      <4> HIDE DEF r, x
      <4>2. Text(root) = Text(r) \o Written(x) /\ Text(r) \in Seq(Chars)
        BY <4>1, TextGrows
      <4>3. /\ Written(x) \in Seq(Chars) /\ Len(Written(x)) = Len(x) + 1 /\ Len(x) \in Nat /\ Len(x) > 0
            /\ Written(x)[Len(x) + 1] = x[Len(x)] /\ x[Len(x)] # "/"
        <5>1. Len(x) \in Nat /\ Len(x) > 0 /\ \A i \in 1..Len(x) : x[i] # "/"
          BY <4>1, NameIs
        <5>2. Len(x) \in 1..Len(x)
          BY <5>1
        <5> QED
          BY <4>1, <5>1, <5>2, WrittenIs
      <4> DEFINE m == Len(Text(r))
      <4>4. m \in Nat
        BY <4>2
      <4>5. /\ Len(Text(root)) = m + (Len(x) + 1)
            /\ \A i \in 1..(m + (Len(x) + 1)) : Text(root)[i] = IF i <= m THEN Text(r)[i] ELSE Written(x)[i - m]
        <5>1. LET t == Text(r) \o Written(x)
                  n == Len(Written(x)) IN
              /\ Len(t) = m + n
              /\ \A i \in 1..(m + n) : t[i] = IF i <= m THEN Text(r)[i] ELSE Written(x)[i - m]
          BY <4>2, <4>3, ConcatProperties, Zenon
        <5> HIDE DEF m
        <5> QED
          BY <4>2, <4>3, <5>1
      <4> HIDE DEF m
      <4> DEFINE j == m + (Len(x) + 1)
      <4>6. j \in 1..j /\ ~(j <= m) /\ j - m = Len(x) + 1
        BY <4>3, <4>4
      <4> HIDE DEF j
      <4>7. Text(root)[j] = Written(x)[Len(x) + 1]
        BY <4>5, <4>6 DEF j
      <4> QED
        BY <4>3, <4>5, <4>7 DEF Last, j
    <3>3. prefix(root) = Append(Text(root), "/")
      BY <3>1, <3>2
    <3>4. Append(Text(root), "/") \in Seq(Chars) /\ Len(Append(Text(root), "/")) = Len(Text(root)) + 1
      BY <1>3, <3>1
    <3> HIDE DEF prefix, s
    <3>5. ASSUME p = root PROVE IsPrefix(root, p)
      BY <2>1, <3>5, PrefixOf
    <3>6. ASSUME IsPrefix(prefix(root), Str(p)) PROVE IsPrefix(root, p)
      <4>1. p # <<>>
        <5> SUFFICES ASSUME p = <<>> PROVE FALSE
          OBVIOUS
        <5>1. IsPrefix(Append(Text(root), "/"), <<"/">>)
          BY <1>3, <3>3, <3>6
        <5>2. Len(Append(Text(root), "/")) <= Len(<<"/">>)
          BY <1>3, <3>4, <5>1, PrefixOf
        <5> QED
          BY <1>3, <3>1, <3>4, <5>2
      <4>2. IsPrefix(Append(Text(root), "/"), Text(p))
        BY <1>2, <3>3, <3>6, <4>1
      <4> QED
        BY <2>1, <4>2, SeparatedPrefix
    <3>7. ASSUME IsPrefix(root, p), p # root PROVE IsPrefix(prefix(root), Str(p))
      <4> DEFINE c == SubSeq(p, Len(root) + 1, Len(p))
      <4>1. c \in Seq(Names) /\ p = root \o c
        BY <2>1, <3>7, BehindPrefix
      <4> HIDE DEF c
      <4>2. c # <<>> /\ p # <<>>
        BY <2>1, <2>3, <3>7, <4>1
      <4>3. Text(p) = Text(root) \o Text(c)
        BY <2>1, <4>1, TextJoins
      <4>4. Text(c) \in Seq(Chars) /\ Len(Text(c)) \in Nat /\ Len(Text(c)) > 0 /\ Text(c)[1] = "/"
        BY <4>1, <4>2, TextStarts
      <4> DEFINE t == Text(root)
                 e == Text(c)
      <4>5. /\ t \in Seq(Chars) /\ e \in Seq(Chars) /\ Len(t) \in Nat /\ Len(e) \in Nat /\ Len(e) > 0 /\ e[1] = "/"
            /\ Append(t, "/") \in Seq(Chars) /\ Len(Append(t, "/")) = Len(t) + 1
        BY <3>1, <3>4, <4>4
      <4> HIDE DEF t, e
      <4>6. t \o e \in Seq(Chars) /\ Len(t \o e) = Len(t) + Len(e)
        BY <4>5
      <4>7. ASSUME NEW i \in 1..(Len(t) + 1) PROVE Append(t, "/")[i] = (t \o e)[i]
        <5>1. CASE i \in 1..Len(t)
          BY <4>5, <5>1
        <5>2. CASE i = Len(t) + 1
          <6>1. (t \o e)[Len(t) + 1] = e[1]
            BY <4>5
          <6>2. Append(t, "/")[Len(t) + 1] = "/"
            BY <4>5
          <6> QED
            BY <4>5, <5>2, <6>1, <6>2
        <5>3. i \in 1..Len(t) \/ i = Len(t) + 1
          BY <4>5
        <5> QED
          BY <5>1, <5>2, <5>3
      <4>8. Len(Append(t, "/")) <= Len(t \o e)
        BY <4>5, <4>6
      <4>9. \A i \in 1..Len(Append(t, "/")) : Append(t, "/")[i] = (t \o e)[i]
        BY <4>5, <4>7
      <4>10. IsPrefix(Append(t, "/"), t \o e)
        BY <4>5, <4>6, <4>8, <4>9, PrefixOf
      <4> QED
        BY <1>2, <3>3, <4>2, <4>3, <4>10 DEF t, e
    <3> QED
      BY <3>5, <3>6, <3>7
  <2> QED
    BY <2>2, <2>3
<1> QED
  BY <1>1, <1>4 DEF Inside

\* The places are those of the filesystem.
LEMMA PlacesStay ==
  ASSUME fs' = fs
  PROVE  /\ \A p : RealLoc(p)' = RealLoc(p)
         /\ \A p : NodeAt(p)' = NodeAt(p)
<1>1. \A p : NodeAt(p)' = NodeAt(p)
  BY DEF NodeAt
<1>2. \A d, x, there : Entry(d, x, there)' = Entry(d, x, there)
  BY <1>1 DEF Entry
<1>3. \A p, there : Place(p, there)' = Place(p, there)
  <2> SUFFICES ASSUME NEW p, NEW there PROVE Place(p, there)' = Place(p, there)
    OBVIOUS
  <2> DEFINE below(D, x) == UNION {Entry(d, x, there) : d \in D}
             next(at) == [i \in 0..Len(p) |-> IF i = 0 THEN {<<>>} ELSE below(at[i - 1], p[i])]
  <2>1. \A D, x : below(D, x)' = below(D, x)
    BY <1>2
  <2> HIDE DEF below
  <2>2. ASSUME NEW at PROVE next(at)' = next(at)
    BY <2>1
  <2>3. \A at : next(at)' = next(at)
    BY <2>2
  <2> QED
    BY <2>3 DEF Place, below
<1>4. \A n : LinkPlaces(n)' = LinkPlaces(n)
  BY <1>3 DEF LinkPlaces
<1> QED
  BY <1>1, <1>3, <1>4 DEF RealLoc

-----------------------------------------------------------------------------
(***************************************************************************)
(* Requests.                                                               *)
(***************************************************************************)

\* What the properties say of an answer r.
RightPlace(r) ==
  r.call # "none" /\ r.err = "none" =>
    /\ Inside(r.real)
    /\ NodeAt(r.real).kind \in IF r.call = "file" THEN {"file"} ELSE {"dir", "file"}
    /\ \A i \in 1..(Len(r.real) - 1) : NodeAt(SubSeq(r.real, 1, i)).kind = "dir"
Exact(r) ==
  \A q \in RealLoc(r.path) :
    r.call = "path" /\ r.err \notin {"empty path", "too many links"} =>
      /\ Inside(q) => r.err = "none" /\ r.real = q
      /\ ~Inside(q) => r.err = "not in jail"
Missing(r) ==
  r.call # "none" /\ r.err = "no such file" =>
    /\ RealLoc(r.path) = {}
    /\ \E i \in 0..(Len(r.path) - 1) :
         \E q \in RealLoc(SubSeq(r.path, 1, i)) :
           /\ \A k \in (i + 1)..Len(r.path) : RealLoc(SubSeq(r.path, 1, k)) = {}
           /\ Inside(q \o SubSeq(r.path, i + 1, Len(r.path)))

\* An answer stays right while nothing changes.
LEMMA RightStays ==
  ASSUME fs' = fs, jail' = jail
  PROVE  \A r : /\ RightPlace(r)' <=> RightPlace(r)
                /\ Exact(r)' <=> Exact(r)
                /\ Missing(r)' <=> Missing(r)
<1>1. (\A p : RealLoc(p)' = RealLoc(p)) /\ (\A p : NodeAt(p)' = NodeAt(p))
  BY PlacesStay
<1>2. \A p : Inside(p)' <=> Inside(p)
  BY DEF Inside
<1>3. \A r : RightPlace(r)' <=> RightPlace(r)
  BY <1>1, <1>2 DEF RightPlace
<1>4. \A r : Exact(r)' <=> Exact(r)
  BY <1>1, <1>2 DEF Exact
<1>5. \A r : Missing(r)' <=> Missing(r)
  BY <1>1, <1>2 DEF Missing
<1> QED
  BY <1>3, <1>4, <1>5

\* No such path.
Gone(p) == EvalSymlinks(p).err = "not exist"

\* A path that does not exist has a longest beginning that does, or that cannot be
\* resolved for another reason.
LEMMA ExistingParent ==
  ASSUME FsOK, NEW p \in Seq(Names), Gone(p)
  PROVE  LET i == Max({k \in 0..(Len(p) - 1) : ~Gone(SubSeq(p, 1, k))}) IN
         /\ i \in 0..(Len(p) - 1) /\ ~Gone(SubSeq(p, 1, i))
         /\ \A k \in (i + 1)..Len(p) : RealLoc(SubSeq(p, 1, k)) = {}
<1> DEFINE n == Len(p)
           gone(k) == Gone(SubSeq(p, 1, k))
           S == {k \in 0..(n - 1) : ~gone(k)}
           i == Max(S)
<1>1. ~Gone(<<>>)
  <2>1. RealLoc(<<>>) = {<<>>}
    BY PlaceOf DEF RealLoc
  <2>2. <<>> \in Seq(Names)
    OBVIOUS
  <2> QED
    BY <2>1, <2>2, EvalSymlinksFinds DEF Gone
<1>2. n \in Nat /\ n > 0 /\ 0 \in 0..(n - 1) /\ SubSeq(p, 1, 0) = <<>> /\ SubSeq(p, 1, n) = p
  <2>1. p # <<>>
    BY <1>1
  <2> QED
    BY <2>1
<1>3. \A k \in 0..n : SubSeq(p, 1, k) \in Seq(Names)
  BY Beginning
<1>4. ~gone(0) /\ gone(n)
  BY <1>1, <1>2
<1>5. \A k \in 0..n : gone(k) => RealLoc(SubSeq(p, 1, k)) = {}
  BY <1>3, EvalSymlinksFinds DEF Gone
<1> HIDE DEF gone, n
<1>6. S \in SUBSET Nat /\ S # {} /\ n \in Nat /\ \A x \in S : x <= n
  BY <1>2, <1>4
<1>7. i \in S /\ \A x \in S : x <= i
  <2> HIDE DEF S
  <2> QED
    BY <1>6, MaxOf
<1> HIDE DEF i
<1>8. ASSUME NEW k \in (i + 1)..n PROVE RealLoc(SubSeq(p, 1, k)) = {}
  <2>1. i \in 0..(n - 1) /\ k \in 0..n /\ ~(k <= i)
    BY <1>2, <1>7
  <2>2. k \notin S
    BY <1>7, <2>1
  <2>3. gone(k)
    <3>1. CASE k = n
      BY <1>4, <3>1
    <3>2. CASE k # n
      <4>1. k \in 0..(n - 1)
        BY <1>2, <2>1, <3>2
      <4> QED
        BY <2>2, <4>1
    <3> QED
      BY <3>1, <3>2
  <2> QED
    BY <1>5, <2>1, <2>3
<1>9. i \in 0..(n - 1) /\ ~gone(i)
  BY <1>7
<1> QED
  BY <1>8, <1>9 DEF i, n, gone

\* What resolveExisting makes of each outcome.
LEMMA ResolveExistingIs ==
  ASSUME FsOK, NEW p \in Seq(Names)
  PROVE  LET e == EvalSymlinks(p)
             i == Max({k \in 0..(Len(p) - 1) : ~Gone(SubSeq(p, 1, k))})
             parent == EvalSymlinks(SubSeq(p, 1, i))
         IN  resolveExisting(p) =
               IF ~Gone(p) THEN [err |-> e.err, real |-> e.real, exists |-> TRUE]
               ELSE [err |-> parent.err, real |-> parent.real \o SubSeq(p, i + 1, Len(p)), exists |-> FALSE]
BY DEF resolveExisting, Gone

\* Resolve, for a path that is not empty.
Answer(p, err, real) == [path |-> p, err |-> err, real |-> real]
Absolute(in) == Clean(IF in.abs THEN in.comps ELSE Cwd \o in.comps)
Resolved(p, r, a) ==
  /\ r.err # "none" => a = Answer(p, r.err, <<>>)
  /\ r.err = "none" /\ ~contains(r.real) => a = Answer(p, "not in jail", <<>>)
  /\ r.err = "none" /\ contains(r.real) /\ ~r.exists => a = Answer(p, "no such file", <<>>)
  /\ r.err = "none" /\ contains(r.real) /\ r.exists => a = Answer(p, "none", r.real)

\* Resolve refuses an empty path, and answers any other by what resolveExisting found.
LEMMA ResolveIs ==
  ASSUME NEW in
  PROVE  LET p == Absolute(in) IN
         \/ Resolve(in) = Answer(p, "empty path", <<>>)
         \/ Resolved(p, resolveExisting(p), Resolve(in))
<1> DEFINE p == Absolute(in)
           r == resolveExisting(p)
           inside == contains(r.real)
           empty == ~in.abs /\ in.comps = <<>>
<1>1. Resolve(in) =
        IF empty THEN Answer(p, "empty path", <<>>)
        ELSE CASE r.err # "none" -> Answer(p, r.err, <<>>)
               [] r.err = "none" /\ ~inside -> Answer(p, "not in jail", <<>>)
               [] r.err = "none" /\ inside /\ ~r.exists -> Answer(p, "no such file", <<>>)
               [] OTHER -> Answer(p, "none", r.real)
  BY DEF Resolve, Absolute, Answer
<1> HIDE DEF p, r, inside, empty
<1>2. CASE empty
  <2>1. Resolve(in) = Answer(p, "empty path", <<>>)
    BY <1>1, <1>2
  <2> QED
    BY <2>1 DEF p
<1>3. CASE ~empty
  <2>1. /\ r.err # "none" => Resolve(in) = Answer(p, r.err, <<>>)
        /\ r.err = "none" /\ ~inside => Resolve(in) = Answer(p, "not in jail", <<>>)
        /\ r.err = "none" /\ inside /\ ~r.exists => Resolve(in) = Answer(p, "no such file", <<>>)
        /\ r.err = "none" /\ inside /\ r.exists => Resolve(in) = Answer(p, "none", r.real)
    BY <1>1, <1>3
  <2> QED
    BY <2>1 DEF Resolved, p, r, inside
<1> QED
  BY <1>2, <1>3

Asked(a) == [call |-> "path", path |-> a.path, err |-> a.err, real |-> a.real]
RightAnswer(a) ==
  /\ RightPlace(Asked(a)) /\ Exact(Asked(a)) /\ Missing(Asked(a))
  /\ a = [path |-> a.path, err |-> a.err, real |-> a.real]
  /\ a.err = "none" => a.real \in Seq(Names)

\* The answer of Resolve is right, for a tool that asked for a path.
LEMMA ResolveRight ==
  ASSUME FsOK, jail \in SUBSET Seq(Names), NEW in \in Inputs
  PROVE  RightAnswer(Resolve(in))
<1> DEFINE a == Resolve(in)
           p == Absolute(in)
           e == EvalSymlinks(p)
           r == Asked(a)
           x == resolveExisting(p)
<1> SUFFICES RightAnswer(a)
  OBVIOUS
<1>1. p \in Seq(Names)
  <2>1. in.comps \in Seq(Names \cup {Up}) /\ Cwd \in Seq(Names)
    BY JailAssumption
  <2>2. Cwd \in Seq(Names \cup {Up})
    BY <2>1
  <2>3. (IF in.abs THEN in.comps ELSE Cwd \o in.comps) \in Seq(Names \cup {Up})
    BY <2>1, <2>2
  <2> QED
    BY <2>3, CleanType DEF Absolute
<1>2. /\ \/ e.err = "none" /\ e.real \in Seq(Names) /\ Physical(e.real) /\ RealLoc(p) = {e.real}
         \/ e.err = "too many links" /\ e.real = <<>>
         \/ e.err \in {"not exist", "not a directory"} /\ e.real = <<>> /\ RealLoc(p) = {}
      /\ Gone(p) <=> e.err = "not exist"
  BY <1>1, EvalSymlinksFinds DEF Gone
<1>3. a = Answer(p, "empty path", <<>>) \/ Resolved(p, x, a)
  BY ResolveIs
<1>10. ASSUME ~Gone(p) PROVE x.err = e.err /\ x.real = e.real /\ x.exists
  <2>1. x = [err |-> e.err, real |-> e.real, exists |-> TRUE]
    BY <1>1, <1>10, ResolveExistingIs
  <2> QED
    BY <2>1
<1> HIDE DEF a, p, x
\* An answer that is an error other than these says nothing.
<1>4. ASSUME NEW why, a = Answer(p, why, <<>>), why # "none", why # "no such file",
             why = "empty path" \/ why = "too many links" \/ RealLoc(p) = {}
      PROVE  RightAnswer(a)
  <2>1. a.path = p /\ a.err = why /\ a = [path |-> a.path, err |-> a.err, real |-> a.real]
    BY <1>4 DEF Answer
  <2>2. r.path = p /\ r.err = why
    BY <2>1 DEF Asked
  <2> HIDE DEF r
  <2>3. RightPlace(r)
    BY <1>4, <2>2 DEF RightPlace
  <2>4. Exact(r)
    BY <1>4, <2>2 DEF Exact
  <2>5. Missing(r)
    BY <1>4, <2>2 DEF Missing
  <2> QED
    BY <1>4, <2>1, <2>3, <2>4, <2>5 DEF RightAnswer, r
<1>5. CASE a = Answer(p, "empty path", <<>>)
  BY <1>4, <1>5
<1>6. CASE Resolved(p, x, a) /\ e.err = "too many links"
  <2>1. x.err = e.err
    BY <1>2, <1>6, <1>10
  <2>2. a = Answer(p, "too many links", <<>>)
    BY <1>6, <2>1 DEF Resolved
  <2> QED
    BY <1>4, <2>2
<1>7. CASE Resolved(p, x, a) /\ e.err = "not a directory"
  <2>1. x.err = e.err
    BY <1>2, <1>7, <1>10
  <2>2. a = Answer(p, "not a directory", <<>>)
    BY <1>7, <2>1 DEF Resolved
  <2> QED
    BY <1>2, <1>4, <1>7, <2>2
<1>8. CASE Resolved(p, x, a) /\ e.err = "none"
  <2> DEFINE d == e.real
  <2>1. x.err = "none" /\ x.real = d /\ x.exists
    BY <1>2, <1>8, <1>10
  <2>2. d \in Seq(Names) /\ Physical(d) /\ RealLoc(p) = {d}
    BY <1>2, <1>8
  <2>3. contains(d) <=> Inside(d)
    BY <2>2, ContainsInside
  <2> HIDE DEF d
  <2>4. a = IF Inside(d) THEN Answer(p, "none", d) ELSE Answer(p, "not in jail", <<>>)
    <3>1. CASE Inside(d)
      BY <1>8, <2>1, <2>3, <3>1 DEF Resolved
    <3>2. CASE ~Inside(d)
      BY <1>8, <2>1, <2>3, <3>2 DEF Resolved
    <3> QED
      BY <3>1, <3>2
  <2>5. /\ a.path = p /\ a = [path |-> a.path, err |-> a.err, real |-> a.real]
        /\ Inside(d) => a.err = "none" /\ a.real = d
        /\ ~Inside(d) => a.err = "not in jail"
    BY <2>4 DEF Answer
  <2>6. /\ r.call = "path" /\ r.path = p
        /\ Inside(d) => r.err = "none" /\ r.real = d
        /\ ~Inside(d) => r.err = "not in jail"
    BY <2>5 DEF Asked
  <2> HIDE DEF r
  <2>7. RightPlace(r)
    BY <2>2, <2>6 DEF RightPlace, Physical
  <2>8. Exact(r)
    BY <2>2, <2>6 DEF Exact
  <2>9. Missing(r)
    BY <2>6 DEF Missing
  <2> QED
    BY <2>2, <2>5, <2>7, <2>8, <2>9 DEF RightAnswer, r
<1>9. CASE Resolved(p, x, a) /\ e.err = "not exist"
  <2> DEFINE i == Max({k \in 0..(Len(p) - 1) : ~Gone(SubSeq(p, 1, k))})
             front == SubSeq(p, 1, i)
             parent == EvalSymlinks(front)
             err == parent.err
             place == parent.real
             rest == SubSeq(p, i + 1, Len(p))
             d == place \o rest
  <2>1. Gone(p) /\ RealLoc(p) = {}
    BY <1>2, <1>9
  <2>2. x.err = err /\ x.real = d /\ ~x.exists
    <3>1. x = [err |-> parent.err, real |-> d, exists |-> FALSE]
      BY <1>1, <2>1, ResolveExistingIs DEF x
    <3> QED
      BY <3>1
  <2>3. /\ i \in 0..(Len(p) - 1) /\ ~Gone(front)
        /\ \A k \in (i + 1)..Len(p) : RealLoc(SubSeq(p, 1, k)) = {}
    BY <1>1, <2>1, ExistingParent
  <2> HIDE DEF i
  <2>4. front \in Seq(Names) /\ rest \in Seq(Names)
    BY <1>1, <2>3
  <2>5. \/ err = "none" /\ place \in Seq(Names) /\ RealLoc(front) = {place}
        \/ err \in {"too many links", "not a directory"}
    BY <2>3, <2>4, EvalSymlinksFinds DEF Gone
  <2> HIDE DEF err, place, rest, front
  <2>6. CASE err # "none"
    <3>1. a = Answer(p, err, <<>>)
      BY <1>9, <2>2, <2>6 DEF Resolved
    <3> QED
      BY <1>4, <2>1, <2>5, <2>6, <3>1
  <2>7. CASE err = "none"
    <3>1. place \in Seq(Names) /\ RealLoc(front) = {place} /\ d \in Seq(Names)
      BY <2>4, <2>5, <2>7
    <3>2. contains(d) <=> Inside(d)
      BY <3>1, ContainsInside
    <3>3. CASE ~Inside(d)
      <4>1. a = Answer(p, "not in jail", <<>>)
        BY <1>9, <2>2, <2>7, <3>2, <3>3 DEF Resolved
      <4> QED
        BY <1>4, <2>1, <4>1
    <3>4. CASE Inside(d)
      <4>1. a = Answer(p, "no such file", <<>>)
        BY <1>9, <2>2, <2>7, <3>2, <3>4 DEF Resolved
      <4>2. a.path = p /\ a.err = "no such file" /\ a = [path |-> a.path, err |-> a.err, real |-> a.real]
        BY <4>1 DEF Answer
      <4>3. r.path = p /\ r.err = "no such file"
        BY <4>2 DEF Asked
      <4> HIDE DEF r, d
      <4>4. RightPlace(r)
        BY <4>3 DEF RightPlace
      <4>5. Exact(r)
        BY <2>1, <4>3 DEF Exact
      <4>6. Missing(r)
        <5>1. \E q \in RealLoc(SubSeq(p, 1, i)) : Inside(q \o SubSeq(p, i + 1, Len(p)))
          BY <3>1, <3>4 DEF d, front, rest
        <5> QED
          BY <2>1, <2>3, <4>3, <5>1 DEF Missing
      <4> QED
        BY <4>2, <4>4, <4>5, <4>6 DEF RightAnswer, r
    <3> QED
      BY <3>3, <3>4
  <2> QED
    BY <2>6, <2>7
<1> QED
  BY <1>2, <1>3, <1>5, <1>6, <1>7, <1>8, <1>9

\* The same for ResolveFile, and a tool that asked for a file.
Stat(call, a) == [call |-> call, path |-> a.path, err |-> a.err, real |-> a.real]

\* What is answered to a request is right.
LEMMA RequestRight ==
  ASSUME FsOK, jail \in SUBSET Seq(Names), NEW in \in Inputs, NEW call \in {"path", "file"}
  PROVE  LET r == Stat(call, IF call = "file" THEN ResolveFile(in) ELSE Resolve(in))
         IN  RightPlace(r) /\ Exact(r) /\ Missing(r)
<1> DEFINE a == Resolve(in)
<1>1. RightAnswer(a)
  BY ResolveRight
<1>2. ResolveFile(in) = IF a.err = "none" /\ NodeAt(a.real).kind # "file"
                          THEN [a EXCEPT !.err = "not a regular file", !.real = <<>>] ELSE a
  BY DEF ResolveFile
<1> HIDE DEF a
<1>3. /\ RightPlace(Asked(a)) /\ Exact(Asked(a)) /\ Missing(Asked(a))
      /\ a = [path |-> a.path, err |-> a.err, real |-> a.real]
  BY <1>1 DEF RightAnswer
<1>4. CASE call = "path"
  <2>1. Stat(call, a) = Asked(a)
    BY <1>4 DEF Stat, Asked
  <2> QED
    BY <1>3, <1>4, <2>1 DEF a
<1>5. CASE call = "file"
  <2> DEFINE f == ResolveFile(in)
             r == Stat("file", f)
             q == Asked(a)
  <2>1. q.call = "path" /\ q.path = a.path /\ q.err = a.err /\ q.real = a.real
    BY DEF Asked
  <2>2. r.call = "file" /\ r.path = f.path /\ r.err = f.err /\ r.real = f.real
    BY DEF Stat
  <2>3. Exact(r)
    <3> HIDE DEF r
    <3> QED
      BY <2>2 DEF Exact
  <2>4. CASE a.err = "none" /\ NodeAt(a.real).kind # "file"
    <3>1. f = [a EXCEPT !.err = "not a regular file", !.real = <<>>]
      BY <1>2, <2>4
    <3>2. f.err = "not a regular file"
      BY <1>3, <3>1
    <3>3. r.err = "not a regular file"
      BY <2>2, <3>2
    <3> HIDE DEF r
    <3>4. RightPlace(r) /\ Missing(r)
      BY <3>3 DEF RightPlace, Missing
    <3> QED
      BY <1>5, <2>3, <3>4 DEF r
  <2>5. CASE ~(a.err = "none" /\ NodeAt(a.real).kind # "file")
    <3>1. f = a
      BY <1>2, <2>5
    <3>2. r.call = "file" /\ r.path = q.path /\ r.err = q.err /\ r.real = q.real
      BY <2>1, <2>2, <3>1
    <3>3. q.err = "none" => NodeAt(q.real).kind = "file"
      BY <2>1, <2>5
    <3> HIDE DEF r, q, f
    <3>4. RightPlace(q) /\ Missing(q)
      BY <1>3 DEF q
    <3>5. RightPlace(r)
      BY <2>1, <3>2, <3>3, <3>4 DEF RightPlace
    <3>6. Missing(r)
      BY <2>1, <3>2, <3>4 DEF Missing
    <3> QED
      BY <1>5, <2>3, <3>5, <3>6 DEF r, f
  <2> QED
    BY <2>4, <2>5
<1> QED
  BY <1>4, <1>5

-----------------------------------------------------------------------------
(***************************************************************************)
(* The jail.                                                               *)
(***************************************************************************)

\* The filesystem and the roots have their types, nothing is asked before there is a
\* jail, and what was answered is right on the filesystem as it still is.
JailInv ==
  /\ FsOK
  /\ jail \in SUBSET Seq(Names)
  /\ jail = NoJail => last = NoRequest
  /\ ResolvedInside /\ ResolveExact /\ MissingOnlyInside

\* The three properties, said of the last request.
LEMMA RightLast ==
  /\ ResolvedInside <=> RightPlace(last)
  /\ ResolveExact <=> Exact(last)
  /\ MissingOnlyInside <=> Missing(last)
BY DEF ResolvedInside, RightPlace, ResolveExact, Exact, MissingOnlyInside, Missing

\* Nothing asked, nothing wrong.
LEMMA NothingWrong ==
  RightPlace(NoRequest) /\ Exact(NoRequest) /\ Missing(NoRequest)
<1>1. NoRequest.call = "none"
  BY DEF NoRequest
<1> QED
  BY <1>1 DEF RightPlace, Exact, Missing

\* Nor after a step that leaves nothing asked.
LEMMA NothingWrongNext ==
  ASSUME last' = NoRequest
  PROVE  ResolvedInside' /\ ResolveExact' /\ MissingOnlyInside'
<1>1. last'.call = "none"
  BY DEF NoRequest
<1> QED
  BY <1>1 DEF ResolvedInside, ResolveExact, MissingOnlyInside

\* The invariant holds at the start.
LEMMA JailInit == Init => JailInv
<1> SUFFICES ASSUME Init PROVE JailInv
  OBVIOUS
<1>1. FsOK /\ jail = {} /\ last = NoRequest
  BY DEF Init, FsOK, NoJail
<1>2. ResolvedInside /\ ResolveExact /\ MissingOnlyInside
  BY <1>1, RightLast, NothingWrong
<1> QED
  BY <1>1, <1>2 DEF JailInv, NoJail

\* Every step keeps it: a request is right when answered, and while its answer
\* stands the filesystem does not change.
LEMMA JailStep == JailInv /\ [Next]_vars => JailInv'
<1> SUFFICES ASSUME JailInv, [Next]_vars PROVE JailInv'
  OBVIOUS
<1>1. FsOK /\ jail \in SUBSET Seq(Names) /\ (jail = NoJail => last = NoRequest)
  BY DEF JailInv
<1>2. ASSUME NEW given \in Given, NewJailSet(given) PROVE JailInv'
  <2>1. /\ jail = NoJail /\ given # {} /\ jail' = {EvalSymlinks(p).real : p \in given}
        /\ fs' = fs /\ last' = last
        /\ \A p \in given : EvalSymlinks(p).err = "none"
    BY <1>2 DEF NewJailSet
  <2>2. last' = NoRequest
    BY <1>1, <2>1
  <2>3. ASSUME NEW p \in given PROVE EvalSymlinks(p).real \in Seq(Names)
    <3>1. p \in Seq(Names)
      BY JailAssumption
    <3>2. EvalSymlinks(p).err = "none"
      BY <2>1
    <3> QED
      BY <1>1, <3>1, <3>2, EvalSymlinksFinds
  <2>4. jail' \in SUBSET Seq(Names) /\ FsOK'
    BY <1>1, <2>1, <2>3 DEF FsOK
  <2>5. ResolvedInside' /\ ResolveExact' /\ MissingOnlyInside'
    BY <2>2, NothingWrongNext
  <2> QED
    BY <2>2, <2>4, <2>5 DEF JailInv, NoRequest
<1>3. ASSUME NEW call \in {"path", "file"}, NEW in \in Inputs, Request(call, in) PROVE JailInv'
  <2> DEFINE r == Stat(call, IF call = "file" THEN ResolveFile(in) ELSE Resolve(in))
  <2>1. jail # NoJail /\ last' = r /\ fs' = fs /\ jail' = jail
    BY <1>3 DEF Request, Stat
  <2>2. RightPlace(r) /\ Exact(r) /\ Missing(r)
    BY <1>1, RequestRight
  <2> HIDE DEF r
  <2>3. RightPlace(last') /\ Exact(last') /\ Missing(last')
    BY <2>1, <2>2
  <2>4. RightPlace(last)' /\ Exact(last)' /\ Missing(last)'
    BY <2>1, <2>3, RightStays
  <2>5. ResolvedInside' /\ ResolveExact' /\ MissingOnlyInside'
    BY <2>4 DEF ResolvedInside, RightPlace, ResolveExact, Exact, MissingOnlyInside, Missing
  <2>6. jail' \in SUBSET Seq(Names) /\ FsOK' /\ jail' # NoJail
    BY <1>1, <2>1 DEF FsOK
  <2> QED
    BY <2>5, <2>6 DEF JailInv, NoJail
<1>4. CASE Answered
  <2>1. last' = NoRequest /\ fs' = fs /\ jail' = jail
    BY <1>4 DEF Answered
  <2>2. ResolvedInside' /\ ResolveExact' /\ MissingOnlyInside'
    BY <2>1, NothingWrongNext
  <2>3. jail' \in SUBSET Seq(Names) /\ FsOK'
    BY <1>1, <2>1 DEF FsOK
  <2> QED
    BY <2>1, <2>2, <2>3 DEF JailInv, NoRequest
<1>5. ASSUME NEW p \in Paths, NEW n \in Nodes, HostChanges(p, n) PROVE JailInv'
  <2>1. last' = NoRequest /\ fs' = [fs EXCEPT ![p] = n] /\ jail' = jail
    BY <1>5 DEF HostChanges
  <2>2. ResolvedInside' /\ ResolveExact' /\ MissingOnlyInside'
    BY <2>1, NothingWrongNext
  <2>3. jail' \in SUBSET Seq(Names) /\ FsOK'
    BY <1>1, <2>1 DEF FsOK
  <2> QED
    BY <2>1, <2>2, <2>3 DEF JailInv, NoRequest
<1>6. CASE UNCHANGED vars
  <2>1. fs' = fs /\ jail' = jail /\ last' = last
    BY <1>6 DEF vars
  <2>2. RightPlace(last') /\ Exact(last') /\ Missing(last')
    BY <2>1, RightLast DEF JailInv
  <2>3. RightPlace(last)' /\ Exact(last)' /\ Missing(last)'
    BY <2>1, <2>2, RightStays
  <2>4. ResolvedInside' /\ ResolveExact' /\ MissingOnlyInside'
    BY <2>3 DEF ResolvedInside, RightPlace, ResolveExact, Exact, MissingOnlyInside, Missing
  <2>5. jail' \in SUBSET Seq(Names) /\ FsOK' /\ (jail' = NoJail => last' = NoRequest)
    BY <1>1, <2>1 DEF FsOK
  <2> QED
    BY <2>4, <2>5 DEF JailInv, NoJail, NoRequest
<1> QED
  BY <1>2, <1>3, <1>4, <1>5, <1>6 DEF Next

\* The invariant holds whatever is asked and however the filesystem changes.
THEOREM JailInvariant == Spec => []JailInv
<1>1. Init => JailInv
  BY JailInit
<1>2. JailInv /\ [Next]_vars => JailInv'
  BY JailStep
<1> QED
  BY <1>1, <1>2, PTL DEF Spec

\* What Resolve hands to a tool exists, is free of symlinks and lies below a root, name
\* by name: for any names, any filesystem and any change of it between requests
\* (jail.go:57-63, 112-115).
THEOREM JailHolds == Spec => []ResolvedInside
<1>1. JailInv => ResolvedInside
  BY DEF JailInv
<1> QED
  BY <1>1, JailInvariant, PTL

\* Resolve refuses no path that is inside and lets none pass that is outside, wherever
\* the symlinks on its way lead (jail.go:64-83).
THEOREM JailIsExact == Spec => []ResolveExact
<1>1. JailInv => ResolveExact
  BY DEF JailInv
<1> QED
  BY <1>1, JailInvariant, PTL

\* "no such file" tells of nothing outside the jail: the missing path would have been
\* inside (jail.go:60-62, 132-135).
THEOREM JailHidesOutside == Spec => []MissingOnlyInside
<1>1. JailInv => MissingOnlyInside
  BY DEF JailInv
<1> QED
  BY <1>1, JailInvariant, PTL
=============================================================================
