----------------------------- MODULE MCHostTools -----------------------------
(***************************************************************************)
(* list, ps, disk and journal for TLC.  A request runs one of them, and    *)
(* they share no state, so the next request is not modelled.               *)
(***************************************************************************)
EXTENDS ListTool, HostTools

ListRequest ==
  /\ task = "none"
  /\ Next
  /\ UNCHANGED hostVars

HostRequest ==
  /\ pc = "idle"
  /\ HostNext
  /\ UNCHANGED vars

\* Ten comes before two.
MCDirOrder == <<10, 2, 3>>

Mount(dev, point, pseudo, blocks, bfree, bavail) ==
  [dev |-> dev, point |-> point, pseudo |-> pseudo,
   use |-> [blocks |-> blocks, bfree |-> bfree, bavail |-> bavail]]

\* Usages that round up, down and to 100 per cent, one without reserved blocks, an
\* empty one; two file systems at one point, the first with storage or without; one
\* mounted inside another or hidden by it.
MCMountTables ==
  LET root == Mount("root", "/", FALSE, 8, 3, 2)
      a(pseudo) == Mount("a", "/m", pseudo, 7, 7, 6)
      b == Mount("b", "/m", FALSE, 250, 1, 0)
      c(blocks) == Mount("c", "/c", FALSE, blocks, 0, 0)
      d == Mount("d", "/c/d", FALSE, 9, 5, 4)
  IN  {<<root, a(TRUE), b, c(0), d>>, <<root, a(FALSE), b, c(3)>>, <<root, d, c(3)>>}

MCEnclosing ==
  [p \in {"/", "/m", "/c", "/c/d"} |-> {"/", p} \cup IF p = "/c/d" THEN {"/c"} ELSE {}]

MCChunks == {<<"x">>, <<"x", Cont, Cont, NL>>, <<"x", Cont, Cont, Cont, "x", NL>>}

MCOutputCaps == {-1, 0, 3, 5}

\* The part of the host that the request's tool does not look at is always the same.
SameDirectory == entries = {} /\ ~all
SameProcesses == \A p \in Pids : procs[p] = 1
SameMounts == mounts = CHOOSE m \in MCMountTables : TRUE
SameCap == maxOut = -1

MCInit ==
  /\ Init
  /\ HostInit
  /\ \/ SameProcesses /\ SameMounts /\ SameCap
     \/ SameDirectory /\ SameMounts /\ SameCap
     \/ SameDirectory /\ SameProcesses /\ SameCap
     \/ SameDirectory /\ SameProcesses /\ SameMounts

MCNext == ListRequest \/ HostRequest

MCSpec == MCInit /\ [][MCNext]_<<vars, hostVars>>
=============================================================================
