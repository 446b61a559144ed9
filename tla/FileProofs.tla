----------------------------- MODULE FileProofs -----------------------------
(***************************************************************************)
(* Proofs about read, tail and grep, for files of any size that grow while *)
(* they are read, any request, any cap and any window.  FileInv is         *)
(* inductive: it says of a tool at work which lines of its file it has     *)
(* behind it and what it has kept of them.                                 *)
(***************************************************************************)
EXTENDS FileTools, ToolUtilProofs

-----------------------------------------------------------------------------
(***************************************************************************)
(* The inductive invariant: what each tool has read of its files, as the   *)
(* lines of what its scanner is behind.                                    *)
(***************************************************************************)

\* A file has only grown since it was opened.
FilesInv ==
  /\ files \in Seq(AnyFile) \ {<<>>}
  /\ DOMAIN opened = DOMAIN files
  /\ \A f \in DOMAIN files : Len(opened[f].bytes) \in 0..Size(f)

RequestInv ==
  /\ sc \in [file : DOMAIN files, pos : Nat \ {0}, lim : Nat, line : Nat, drop : BOOLEAN, eof : BOOLEAN]
  /\ pc = "idle" => buf = <<>> /\ count = 0
  /\ pc # "idle" => req \in Requests
  /\ pc # "done" => res = NoRes

\* The buffer of read is the page.
ReadInv ==
  LET end == req.offset + Len(buf)
  IN  /\ pc = "read" => buf = <<>>
      /\ pc \in {"read", "probe"} =>
           /\ req.tool = "read" /\ req.offset \in Nat /\ sc.pos = end + 1
           /\ buf \in Seq(Bytes) /\ buf = SubSeq(files[1].bytes, req.offset + 1, end)
           /\ buf = <<>> \/ end <= Size(1)
           /\ Len(buf) <= Limit /\ (maxOutput >= 0 => Len(buf) <= maxOutput)

\* What the scanner has read of its file, and of the file before the window of tail.
Scanned == SubSeq(files[sc.file].bytes, 1, sc.pos - 1)

WholeLines(s) == s = <<>> \/ s[Len(s)] = NL

\* The scanner is in front of a line, or has seen all that was there.
ScanInv ==
  /\ sc.pos - 1 <= Size(sc.file)
  /\ IF sc.eof THEN sc.pos > Len(opened[sc.file].bytes) ELSE WholeLines(Scanned)

\* Where the window of tail starts.
WindowStart == Max({0, Len(opened[1].bytes) - TailMaxScan})

\* The ring holds the last lines that were scanned, but none that may have begun in
\* front of the window.
TailInv ==
  LET n == Len(Lines(Scanned))
  IN  pc = "tail" =>
        /\ req.tool = "tail" /\ sc.file = 1
        /\ sc.lim = WindowStart + TailMaxScan /\ sc.pos - 1 <= sc.lim
        /\ ring \in [0..(Limit - 1) -> Seq(Bytes)]
        /\ IF sc.drop
             THEN WindowStart > 0 /\ sc.pos = WindowStart + 1 /\ count = 0 /\ ~sc.eof
             ELSE /\ ScanInv
                  /\ IF WindowStart = 0 THEN count = n
                     ELSE count < n /\ LineStart(Scanned, n - count) <= WindowStart + 1
                  /\ \A j \in 0..(count - 1) : j >= count - Limit =>
                       ring[j % Limit] = Lines(Scanned)[n - count + j + 1]

\* The output of grep is that of the files behind it and of the lines scanned in this one.
PrintedSoFar ==
  \E k \in 0..Len(buf) : /\ PrintedOf(SubSeq(buf, 1, k), sc.file - 1)
                         /\ SubSeq(buf, k + 1, Len(buf)) = GrepReference(sc.file, Scanned)

\* grep has printed what it has scanned, unless it gave a file up.
GrepInv ==
  pc = "grep" =>
    /\ req.tool = "grep" /\ (~req.dir => sc.file = 1)
    /\ ScanInv /\ sc.line = Len(Lines(Scanned))
    /\ files[sc.file].kind # "regular" => sc.pos = 1
    /\ buf \in Seq(ToSet(buf))
    /\ PrintedSoFar \/ \E f \in 1..(sc.file - 1) : ~Scannable(files[f].bytes)

FileInv ==
  /\ TypeOK /\ FilesInv /\ RequestInv /\ ReadInv /\ TailInv /\ GrepInv
  /\ ReadPages /\ CapOnRune /\ TailSuffix /\ GrepComplete

-----------------------------------------------------------------------------
(***************************************************************************)
(* Lines.                                                                  *)
(***************************************************************************)

\* A line without its carriage return is a text still.
LEMMA DropsCR ==
  ASSUME NEW T, NEW line \in Seq(T)
  PROVE  dropCR(line) \in Seq(T)
<1>1. CASE line = <<>>
  BY <1>1 DEF dropCR
<1>2. CASE line # <<>>
  <2>1. Len(line) \in Nat \ {0}
    BY <1>2
  <2>2. SubSeq(line, 1, Len(line) - 1) \in Seq(T)
    BY <2>1
  <2> QED
    BY <2>2 DEF dropCR, Front
<1> QED
  BY <1>1, <1>2

\* The stops of a text, one for each line.
LEMMA StopsOf ==
  ASSUME NEW T, NEW s \in Seq(T)
  PROVE  /\ Stops(s) \in SUBSET Int /\ IsFiniteSet(Stops(s))
         /\ Stops(s) \subseteq 1..(Len(s) + 1)
         /\ Cardinality(Stops(s)) \in Nat
         /\ Len(Lines(s)) = Cardinality(Stops(s))
         /\ DOMAIN Lines(s) = 1..Cardinality(Stops(s))
<1>1. Len(s) + 1 \in Int /\ Stops(s) \in SUBSET (1..(Len(s) + 1))
  BY DEF Stops
<1>2. IsFiniteSet(1..(Len(s) + 1))
  BY <1>1, FS_Interval
<1>3. IsFiniteSet(Stops(s))
  BY <1>1, <1>2, FS_Subset
<1>4. Cardinality(Stops(s)) \in Nat
  BY <1>3, FS_CardinalityType
<1> DEFINE n == Cardinality(Stops(s))
           line(k) == dropCR(SubSeq(s, LineStart(s, k), Nth(Stops(s), k) - 1))
<1> HIDE DEF n, line
<1>5. n \in Nat /\ Lines(s) = [k \in 1..n |-> line(k)]
  BY <1>4 DEF n, line, Lines
<1>6. Len(Lines(s)) = n /\ DOMAIN Lines(s) = 1..n
  BY <1>5
<1> QED
  BY <1>1, <1>3, <1>4, <1>6 DEF n

\* Whole lines stop at their newlines, the last at the end.
LEMMA WholeStops ==
  ASSUME NEW T, NEW s \in Seq(T), WholeLines(s)
  PROVE  /\ Stops(s) = {i \in 1..Len(s) : s[i] = NL}
         /\ LET n == Cardinality(Stops(s))
            IN  IF s = <<>> THEN n = 0 ELSE n \in Nat \ {0} /\ Nth(Stops(s), n) = Len(s)
<1> DEFINE n == Cardinality(Stops(s))
<1>1. Len(s) \in Nat /\ (s = <<>> <=> Len(s) = 0)
  OBVIOUS
<1>2. Stops(s) = {i \in 1..Len(s) : s[i] = NL}
  <2>1. ASSUME NEW i \in 1..(Len(s) + 1)
        PROVE  i \in Stops(s) <=> i \in 1..Len(s) /\ s[i] = NL
    <3>1. CASE i <= Len(s)
      BY <1>1, <3>1 DEF Stops
    <3>2. CASE ~(i <= Len(s))
      <4>1. i = Len(s) + 1 /\ i - 1 = Len(s)
        BY <1>1, <3>2
      <4>2. ~(i > 1 /\ s[i - 1] # NL)
        BY <1>1, <4>1 DEF WholeLines
      <4> QED
        BY <3>2, <4>2 DEF Stops
    <3> QED
      BY <3>1, <3>2
  <2>2. \A i \in Stops(s) : i \in 1..(Len(s) + 1)
    BY DEF Stops
  <2>3. \A i \in 1..Len(s) : i \in 1..(Len(s) + 1)
    BY <1>1
  <2> QED
    BY <2>1, <2>2, <2>3
<1>3. Stops(s) \in SUBSET Int /\ IsFiniteSet(Stops(s)) /\ n \in Nat
  BY StopsOf
<1>4. CASE s = <<>>
  <2>1. Stops(s) = {}
    BY <1>1, <1>2, <1>4
  <2>2. n = 0
    BY <2>1, FS_EmptySet
  <2> QED
    BY <1>2, <1>4, <2>2
<1>5. CASE s # <<>>
  <2>1. Len(s) \in Stops(s) /\ \A i \in Stops(s) : i <= Len(s)
    BY <1>1, <1>2, <1>5 DEF WholeLines
  <2>2. n \in Nat \ {0} /\ Nth(Stops(s), n) = Len(s)
    BY <1>3, <2>1, NthLast
  <2> QED
    BY <1>2, <1>5, <2>2
<1> QED
  BY <1>4, <1>5

\* The text t has one line more than s.
OneLineMore(t, s, text) ==
  LET n == Len(Lines(s))
  IN  /\ n \in Nat /\ Len(Lines(t)) = n + 1
      /\ \A k \in 1..n : Lines(t)[k] = Lines(s)[k] /\ LineStart(t, k) = LineStart(s, k)
      /\ Lines(t)[n + 1] = text

\* A text that begins with the whole lines of another one, and has one stop more.
LEMMA LineAdded ==
  ASSUME NEW T, NEW s \in Seq(T), NEW t \in Seq(T), WholeLines(s), NEW e \in Int,
         Len(s) < e, e <= Len(t) + 1,
         Stops(t) = Stops(s) \cup {e}, \A i \in 1..Len(s) : t[i] = s[i]
  PROVE  OneLineMore(t, s, dropCR(SubSeq(t, Len(s) + 1, e - 1)))
<1> DEFINE S == Stops(s)
           n == Cardinality(S)
<1>1. S \in SUBSET Int /\ IsFiniteSet(S) /\ n \in Nat /\ Len(Lines(s)) = n /\ DOMAIN Lines(s) = 1..n
  BY StopsOf
<1>2. Len(s) \in Nat /\ Len(t) \in Nat /\ \A i \in S : i \in 1..Len(s) /\ i < e
  BY WholeStops
<1>3. /\ Cardinality(Stops(t)) = n + 1
      /\ \A k \in 1..n : Nth(Stops(t), k) = Nth(S, k)
      /\ Nth(Stops(t), n + 1) = e
  <2> DEFINE U == S \cup {e}
  <2> HIDE DEF S
  <2>1. /\ Cardinality(U) = Cardinality(S) + 1
        /\ \A k \in 1..Cardinality(S) : Nth(U, k) = Nth(S, k)
        /\ Nth(U, Cardinality(S) + 1) = e
    BY <1>1, <1>2, NthExtended
  <2>2. Stops(t) = U
    BY DEF S
  <2> QED
    BY <2>1, <2>2
<1>4. Len(Lines(t)) = n + 1
  BY <1>3, StopsOf
<1>5. \A k \in 1..n : Nth(S, k) \in 1..Len(s)
  BY <1>1, <1>2, NthOf
<1>6. /\ \A k \in 1..n : Lines(s)[k] = dropCR(SubSeq(s, LineStart(s, k), Nth(S, k) - 1))
      /\ \A k \in 1..(n + 1) : Lines(t)[k] = dropCR(SubSeq(t, LineStart(t, k), Nth(Stops(t), k) - 1))
  BY <1>3 DEF Lines
<1>7. LineStart(t, n + 1) = Len(s) + 1
  <2>1. CASE s = <<>>
    <3>1. n = 0 /\ Len(s) = 0
      BY <2>1, WholeStops
    <3> QED
      BY <3>1 DEF LineStart
  <2>2. CASE s # <<>>
    <3>1. n \in Nat \ {0} /\ Nth(S, n) = Len(s)
      BY <2>2, WholeStops
    <3> HIDE DEF n
    <3>2. n + 1 # 1 /\ (n + 1) - 1 = n /\ n \in 1..n
      BY <3>1
    <3> QED
      BY <1>3, <3>1, <3>2 DEF LineStart
  <2> QED
    BY <2>1, <2>2
<1> HIDE DEF n, S
<1>8. ASSUME NEW k \in 1..n PROVE LineStart(t, k) = LineStart(s, k) /\ LineStart(s, k) \in Nat \ {0}
  <2>1. k # 1 => k - 1 \in 1..n
    BY <1>1
  <2>2. k # 1 => Nth(Stops(t), k - 1) = Nth(S, k - 1) /\ Nth(S, k - 1) \in 1..Len(s)
    BY <1>3, <1>5, <2>1
  <2> QED
    BY <1>2, <2>2 DEF LineStart, S
<1>9. ASSUME NEW k \in 1..n PROVE Lines(t)[k] = Lines(s)[k]
  <2> DEFINE a == LineStart(s, k)
             b == Nth(S, k) - 1
  <2>1. a \in Nat \ {0} /\ b \in Int /\ b <= Len(s) /\ b <= Len(t)
    BY <1>2, <1>5, <1>8
  <2> HIDE DEF a, b
  <2>2. \A i \in a..b : i \in 1..Len(s)
    BY <1>2, <2>1
  <2>3. SubSeq(t, a, b) = SubSeq(s, a, b)
    BY <2>1, <2>2, SamePart
  <2>4. k \in 1..(n + 1)
    BY <1>1
  <2> QED
    BY <1>3, <1>6, <1>8, <2>3, <2>4 DEF a, b
<1>10. Lines(t)[n + 1] = dropCR(SubSeq(t, Len(s) + 1, e - 1))
  <2>1. n + 1 \in 1..(n + 1)
    BY <1>1
  <2> QED
    BY <1>3, <1>6, <1>7, <2>1
<1> QED
  BY <1>1, <1>4, <1>8, <1>9, <1>10 DEF OneLineMore

\* The token tok is the line of bytes from pos to stop, of those up to last.
LineAt(tok, bytes, pos, last, stop) ==
  /\ tok.text = dropCR(SubSeq(bytes, pos, stop - 1))
  /\ stop \in pos..(last + 1) /\ \A i \in pos..(stop - 1) : bytes[i] # NL
  /\ \/ tok.eof = TRUE /\ pos <= last /\ stop = last + 1 /\ tok.next = stop
     \/ tok.eof = FALSE /\ stop <= last /\ bytes[stop] = NL /\ tok.next = stop + 1

\* A scanner that finds no line is at its end, or in front of a line that is too long.
NoLineAt(tok, bytes, pos, last) ==
  \/ tok.err = FALSE /\ pos > last
  \/ /\ tok.err = TRUE /\ pos + ScanLineCap - 1 <= last
     /\ \A i \in pos..(pos + ScanLineCap - 1) : bytes[i] # NL

\* What Scan returns.
LEMMA ScanReturns ==
  ASSUME NEW T, NEW bytes \in Seq(T), NEW pos \in Nat \ {0}, NEW lim \in Int
  PROVE  LET tok == Scan(bytes, pos, lim)
             last == Min({lim, Len(bytes)})
         IN  /\ last \in Int /\ last <= lim /\ last <= Len(bytes) /\ last \in {lim, Len(bytes)}
             /\ tok.ok \in BOOLEAN
             /\ tok.ok => \E stop \in pos..(last + 1) : LineAt(tok, bytes, pos, last, stop)
             /\ ~tok.ok => NoLineAt(tok, bytes, pos, last)
<1> DEFINE tok == Scan(bytes, pos, lim)
           last == Min({lim, Len(bytes)})
           ends == {i \in pos..last : bytes[i] = NL}
           stop == IF ends = {} THEN last + 1 ELSE Min(ends)
           none == [ok |-> FALSE, err |-> FALSE, text |-> <<>>, next |-> pos, eof |-> TRUE]
           line == [ok |-> TRUE, err |-> FALSE, text |-> dropCR(SubSeq(bytes, pos, stop - 1)),
                    next |-> IF ends = {} THEN stop ELSE stop + 1, eof |-> ends = {}]
<1>1. Len(bytes) \in Nat /\ ScanLineCap \in Nat \ {0}
  BY FileToolsAssumption
<1>2. last \in Int /\ last <= lim /\ last <= Len(bytes) /\ last \in {lim, Len(bytes)}
  <2> DEFINE n == Len(bytes)
  <2>1. n \in Int
    BY <1>1
  <2> HIDE DEF n
  <2>2. Min({lim, n}) \in {lim, n} /\ Min({lim, n}) <= lim /\ Min({lim, n}) <= n
    BY <2>1, MinOfTwo
  <2>3. Min({lim, n}) \in Int
    BY <2>1, <2>2
  <2> QED
    BY <2>2, <2>3 DEF n
<1>3. /\ pos > last => tok = none
      /\ pos <= last /\ stop - pos >= ScanLineCap => tok = [none EXCEPT !.err = TRUE]
      /\ ~(pos > last) /\ ~(pos <= last /\ stop - pos >= ScanLineCap) => tok = line
  <2>1. ~(pos > last /\ pos <= last)
    BY <1>2
  <2> QED
    BY <2>1 DEF Scan
<1> HIDE DEF last, tok
<1> SUFFICES /\ tok.ok \in BOOLEAN
             /\ tok.ok => \E j \in pos..(last + 1) : LineAt(tok, bytes, pos, last, j)
             /\ ~tok.ok => NoLineAt(tok, bytes, pos, last)
  BY <1>2 DEF last, tok
<1>4. ends # {} => stop \in ends /\ \A i \in ends : stop <= i
  <2>1. ends \in SUBSET Nat
    BY <1>2
  <2> QED
    BY <2>1, MinOf
<1>5. ASSUME pos <= last
      PROVE  /\ stop \in pos..(last + 1) /\ \A i \in pos..(stop - 1) : bytes[i] # NL
             /\ ends # {} => stop <= last /\ bytes[stop] = NL
  <2>1. CASE ends = {}
    BY <1>2, <1>5, <2>1
  <2>2. CASE ends # {}
    <3>1. stop \in pos..last /\ bytes[stop] = NL /\ stop \in Int
      BY <1>4, <2>2
    <3>2. \A i \in pos..(stop - 1) : i \in pos..last /\ ~(stop <= i)
      BY <1>2, <3>1
    <3>3. \A i \in pos..(stop - 1) : bytes[i] # NL
      BY <1>4, <2>2, <3>2
    <3> HIDE DEF stop
    <3> QED
      BY <1>2, <3>1, <3>3
  <2> QED
    BY <2>1, <2>2
<1>6. CASE pos > last
  <2>1. tok.ok = FALSE /\ tok.err = FALSE
    BY <1>3, <1>6
  <2> QED
    BY <1>6, <2>1 DEF NoLineAt
<1>7. CASE pos <= last /\ stop - pos >= ScanLineCap
  <2>1. tok.ok = FALSE /\ tok.err = TRUE
    BY <1>3, <1>7
  <2>2. stop \in Int /\ stop <= last + 1
    BY <1>2, <1>5, <1>7
  <2> HIDE DEF stop
  <2>3. pos + ScanLineCap - 1 <= last /\ \A i \in pos..(pos + ScanLineCap - 1) : i \in pos..(stop - 1)
    BY <1>1, <1>2, <1>7, <2>2
  <2>4. \A i \in pos..(pos + ScanLineCap - 1) : bytes[i] # NL
    BY <1>5, <1>7, <2>3
  <2> QED
    BY <2>1, <2>3, <2>4 DEF NoLineAt
<1>8. CASE ~(pos > last) /\ ~(pos <= last /\ stop - pos >= ScanLineCap)
  <2>1. tok = line /\ pos <= last
    <3>1. tok = line
      BY <1>3, <1>8, Zenon
    <3>2. pos <= last
      BY <1>2, <1>8
    <3> QED
      BY <3>1, <3>2
  <2>2. LineAt(tok, bytes, pos, last, stop) /\ stop \in pos..(last + 1) /\ tok.ok = TRUE
    <3>1. /\ tok.ok = TRUE /\ tok.text = dropCR(SubSeq(bytes, pos, stop - 1)) /\ tok.eof = (ends = {})
          /\ tok.next = IF ends = {} THEN stop ELSE stop + 1
      BY <2>1
    <3>2. CASE ends = {}
      <4>1. stop = last + 1 /\ tok.eof = TRUE /\ tok.next = stop
        BY <3>1, <3>2
      <4> HIDE DEF stop, ends
      <4> QED
        BY <1>5, <2>1, <3>1, <4>1 DEF LineAt
    <3>3. CASE ends # {}
      <4>1. tok.eof = FALSE /\ tok.next = stop + 1
        BY <3>1, <3>3
      <4> HIDE DEF stop, ends
      <4> QED
        BY <1>5, <2>1, <3>1, <3>3, <4>1 DEF LineAt
    <3> QED
      BY <3>2, <3>3
  <2> HIDE DEF stop
  <2> QED
    BY <2>2
<1> QED
  BY <1>6, <1>7, <1>8

\* The stops of the beginning of a file.
LEMMA StopsOfBeginning ==
  ASSUME NEW T, NEW bytes \in Seq(T), NEW m \in 0..Len(bytes)
  PROVE  Stops(SubSeq(bytes, 1, m)) =
           {i \in 1..(m + 1) : IF i <= m THEN bytes[i] = NL ELSE i > 1 /\ bytes[i - 1] # NL}
<1> DEFINE t == SubSeq(bytes, 1, m)
<1>1. t \in Seq(T) /\ Len(t) = m /\ \A i \in 1..m : t[i] = bytes[i]
  BY Beginning
<1> HIDE DEF t
<1>2. \A i \in 1..(m + 1) : i > 1 => i - 1 \in 1..m
  OBVIOUS
<1>3. \A i \in 1..(m + 1) : i <= m => i \in 1..m
  OBVIOUS
<1>4. \A i \in 1..(m + 1) :
        (IF i <= m THEN t[i] = NL ELSE i > 1 /\ t[i - 1] # NL)
          <=> (IF i <= m THEN bytes[i] = NL ELSE i > 1 /\ bytes[i - 1] # NL)
  BY <1>1, <1>2, <1>3
<1>5. Stops(t) = {i \in 1..(m + 1) : IF i <= m THEN bytes[i] = NL ELSE i > 1 /\ bytes[i - 1] # NL}
  BY <1>1, <1>4 DEF Stops
<1> QED
  BY <1>5 DEF t

\* A line that the scanner finds behind whole lines is one line more of the file.
LEMMA ScansLine ==
  ASSUME NEW T, NEW bytes \in Seq(T), NEW pos \in Nat \ {0}, NEW last \in Int, last <= Len(bytes),
         NEW tok, NEW stop, LineAt(tok, bytes, pos, last, stop),
         WholeLines(SubSeq(bytes, 1, pos - 1))
  PROVE  /\ tok.next \in Nat \ {0} /\ tok.next > pos /\ tok.next - 1 <= last
         /\ tok.text \in Seq(T)
         /\ OneLineMore(SubSeq(bytes, 1, tok.next - 1), SubSeq(bytes, 1, pos - 1), tok.text)
         /\ tok.eof \in BOOLEAN
         /\ IF tok.eof THEN tok.next = last + 1 ELSE WholeLines(SubSeq(bytes, 1, tok.next - 1))
<1> DEFINE s == SubSeq(bytes, 1, pos - 1)
           m == tok.next - 1
           t == SubSeq(bytes, 1, m)
<1>1. /\ stop \in Nat \ {0} /\ pos <= stop /\ \A i \in pos..(stop - 1) : bytes[i] # NL
      /\ tok.text = dropCR(SubSeq(bytes, pos, stop - 1)) /\ Len(bytes) \in Nat
  BY DEF LineAt
<1>2. /\ \/ tok.eof = TRUE /\ pos <= last /\ stop = last + 1 /\ m = stop - 1
         \/ tok.eof = FALSE /\ stop <= last /\ bytes[stop] = NL /\ m = stop
      /\ tok.next = m + 1 /\ m \in Int
  BY <1>1 DEF LineAt
<1> HIDE DEF m
<1>3. m \in pos..last /\ m \in 0..Len(bytes) /\ pos - 1 \in 0..Len(bytes) /\ m \in Nat /\ m >= pos
  BY <1>1, <1>2
<1>4. s \in Seq(T) /\ Len(s) = pos - 1 /\ \A i \in 1..(pos - 1) : s[i] = bytes[i]
  BY <1>3, Beginning
<1>5. t \in Seq(T) /\ Len(t) = m /\ \A i \in 1..m : t[i] = bytes[i]
  BY <1>3, Beginning
<1>6. Stops(s) = {i \in 1..Len(s) : s[i] = NL}
  BY <1>4, WholeStops
<1> HIDE DEF s, t
<1>7. Stops(s) = {i \in 1..(pos - 1) : bytes[i] = NL}
  BY <1>4, <1>6
<1>8. Stops(t) = {i \in 1..(m + 1) : IF i <= m THEN bytes[i] = NL ELSE i > 1 /\ bytes[i - 1] # NL}
  BY <1>3, StopsOfBeginning DEF t
<1>9. Stops(t) = Stops(s) \cup {stop}
  <2>1. ASSUME NEW i \in 1..(m + 1)
        PROVE  i \in Stops(t) <=> (i \in 1..(pos - 1) /\ bytes[i] = NL) \/ i = stop
    <3>1. CASE i \in 1..(pos - 1)
      <4>1. i <= m /\ i # stop
        BY <1>1, <1>3, <3>1
      <4> QED
        BY <1>8, <3>1, <4>1
    <3>2. CASE i \in pos..(stop - 1)
      <4>1. i <= m /\ i # stop /\ ~(i \in 1..(pos - 1))
        BY <1>1, <1>2, <1>3, <3>2
      <4> QED
        BY <1>1, <1>8, <3>2, <4>1
    <3>3. CASE i = stop
      <4>1. CASE m = stop
        BY <1>2, <1>8, <3>3, <4>1
      <4>2. CASE m = stop - 1
        <5>1. ~(i <= m) /\ i > 1 /\ i - 1 \in pos..(stop - 1)
          BY <1>1, <1>3, <3>3, <4>2
        <5>2. bytes[i - 1] # NL
          BY <1>1, <5>1
        <5> QED
          BY <1>8, <3>3, <5>1, <5>2
      <4> QED
        BY <1>2, <4>1, <4>2
    <3>4. CASE i > stop
      <4>1. m = stop /\ i = m + 1 /\ i - 1 = stop /\ ~(i <= m) /\ ~(i \in 1..(pos - 1)) /\ i # stop
        BY <1>1, <1>2, <1>3, <3>4
      <4>2. bytes[i - 1] = NL
        BY <1>1, <1>2, <4>1
      <4> QED
        BY <1>8, <4>1, <4>2
    <3>5. i \in 1..(pos - 1) \/ i \in pos..(stop - 1) \/ i = stop \/ i > stop
      BY <1>1, <1>3
    <3> QED
      BY <3>1, <3>2, <3>3, <3>4, <3>5
  <2>2. \A i \in Stops(t) : i \in 1..(m + 1)
    BY <1>8
  <2>3. stop \in 1..(m + 1) /\ \A i \in 1..(pos - 1) : i \in 1..(m + 1)
    BY <1>1, <1>2, <1>3
  <2> QED
    BY <1>7, <2>1, <2>2, <2>3
<1>10. /\ stop \in Int /\ Len(s) < stop /\ stop <= Len(t) + 1
       /\ \A i \in 1..Len(s) : t[i] = s[i]
  <2>1. stop \in Int /\ Len(s) < stop /\ stop <= Len(t) + 1
    BY <1>1, <1>2, <1>3, <1>4, <1>5
  <2>2. \A i \in 1..Len(s) : i \in 1..(pos - 1) /\ i \in 1..m
    BY <1>1, <1>2, <1>3, <1>4
  <2>3. \A i \in 1..Len(s) : t[i] = s[i]
    BY <1>4, <1>5, <2>2
  <2> QED
    BY <2>1, <2>3
<1>11. WholeLines(s)
  BY DEF s
<1>12. OneLineMore(t, s, dropCR(SubSeq(t, Len(s) + 1, stop - 1)))
  BY <1>4, <1>5, <1>9, <1>10, <1>11, LineAdded
<1>13. dropCR(SubSeq(t, Len(s) + 1, stop - 1)) = tok.text
  <2>1. /\ Len(s) + 1 = pos /\ stop - 1 \in Int /\ stop - 1 <= Len(t) /\ stop - 1 <= Len(bytes)
        /\ \A i \in pos..(stop - 1) : i \in 1..m
    BY <1>1, <1>2, <1>3, <1>4, <1>5
  <2>2. SubSeq(t, pos, stop - 1) = SubSeq(bytes, pos, stop - 1)
    BY <1>5, <2>1, SamePart
  <2> QED
    BY <1>1, <2>1, <2>2
<1>14. tok.text \in Seq(T)
  <2>1. stop - 1 \in Int /\ stop - 1 <= Len(bytes)
    BY <1>1, <1>2, <1>3
  <2>2. SubSeq(bytes, pos, stop - 1) \in Seq(T)
    BY <2>1, PartOf
  <2> QED
    BY <1>1, <2>2, DropsCR
<1>15. ~tok.eof => WholeLines(t)
  BY <1>1, <1>2, <1>3, <1>5 DEF WholeLines
<1>16. OneLineMore(t, s, tok.text)
  BY <1>12, <1>13
<1>17. tok.next \in Nat \ {0} /\ tok.next > pos /\ tok.next - 1 <= last /\ tok.next - 1 = m
  BY <1>2, <1>3
<1>18. tok.eof \in BOOLEAN /\ (tok.eof => tok.next = last + 1)
  <2>1. (stop = last + 1 /\ m = stop - 1) => tok.next = last + 1
    BY <1>1, <1>2
  <2> QED
    BY <1>2, <2>1, Zenon
<1> QED
  BY <1>14, <1>15, <1>16, <1>17, <1>18, Zenon DEF s, t, m

\* The first line of a window, which is not known to start with it: the line that ends
\* there starts no later than the window.
LEMMA ScansFragment ==
  ASSUME NEW T, NEW bytes \in Seq(T), NEW pos \in Nat \ {0}, NEW last \in Int, last <= Len(bytes),
         NEW tok, NEW stop, LineAt(tok, bytes, pos, last, stop)
  PROVE  LET t == SubSeq(bytes, 1, tok.next - 1)
             n == Len(Lines(t))
         IN  /\ tok.next \in Nat \ {0} /\ tok.next - 1 <= last
             /\ n \in Nat \ {0} /\ LineStart(t, n) <= pos
             /\ tok.eof \in BOOLEAN
             /\ IF tok.eof THEN tok.next = last + 1 ELSE WholeLines(t)
<1> DEFINE m == tok.next - 1
           t == SubSeq(bytes, 1, m)
           S == Stops(t)
           n == Cardinality(S)
<1>1. /\ stop \in Nat \ {0} /\ pos <= stop /\ \A i \in pos..(stop - 1) : bytes[i] # NL
      /\ Len(bytes) \in Nat
  BY DEF LineAt
<1>2. /\ \/ tok.eof = TRUE /\ pos <= last /\ stop = last + 1 /\ m = stop - 1
         \/ tok.eof = FALSE /\ stop <= last /\ bytes[stop] = NL /\ m = stop
      /\ tok.next = m + 1 /\ m \in Int
  BY <1>1 DEF LineAt
<1> HIDE DEF m
<1>3. m \in pos..last /\ m \in 0..Len(bytes) /\ m \in Nat /\ m >= pos
  BY <1>1, <1>2
<1>4. t \in Seq(T) /\ Len(t) = m /\ \A i \in 1..m : t[i] = bytes[i]
  BY <1>3, Beginning
<1>5. S = {i \in 1..(m + 1) : IF i <= m THEN bytes[i] = NL ELSE i > 1 /\ bytes[i - 1] # NL}
  BY <1>3, StopsOfBeginning
<1>6. S \in SUBSET Int /\ IsFiniteSet(S) /\ n \in Nat /\ Len(Lines(t)) = n
  BY <1>4, StopsOf
<1> HIDE DEF t, S
<1>7. stop \in S /\ \A i \in S : i <= stop
  <2>1. CASE m = stop /\ bytes[stop] = NL
    <3>1. stop \in 1..(m + 1) /\ stop <= m
      BY <1>1, <2>1
    <3>2. ASSUME NEW i \in S PROVE i <= stop
      <4>1. i \in 1..(m + 1) /\ (IF i <= m THEN bytes[i] = NL ELSE i > 1 /\ bytes[i - 1] # NL)
        BY <1>5
      <4>2. ~(i <= m) => i - 1 = stop
        BY <1>3, <2>1, <4>1
      <4> QED
        BY <2>1, <4>1, <4>2
    <3> QED
      BY <1>5, <2>1, <3>1, <3>2
  <2>2. CASE m = stop - 1
    <3>1. stop \in 1..(m + 1) /\ ~(stop <= m) /\ stop > 1 /\ stop - 1 \in pos..(stop - 1)
      BY <1>1, <1>3, <2>2
    <3>2. \A i \in 1..(m + 1) : i <= stop
      BY <1>1, <2>2
    <3> QED
      BY <1>1, <1>5, <3>1, <3>2
  <2> QED
    BY <1>2, <2>1, <2>2
<1>8. n \in Nat \ {0} /\ Nth(S, n) = stop
  BY <1>6, <1>7, NthLast
<1>9. LineStart(t, n) <= pos
  <2>1. CASE n = 1
    BY <2>1 DEF LineStart
  <2>2. CASE n # 1
    <3>1. n - 1 \in 1..n /\ n \in 1..n /\ n - 1 < n
      BY <1>8, <2>2
    <3>2. Nth(S, n - 1) \in S /\ Nth(S, n - 1) < Nth(S, n)
      BY <1>6, <3>1, NthOf
    <3> DEFINE x == Nth(S, n - 1)
    <3>3. x \in S /\ x < stop
      BY <1>8, <3>2
    <3>4. LineStart(t, n) = x + 1
      BY <2>2 DEF LineStart, S
    <3> HIDE DEF x
    <3>5. x \in 1..(m + 1) /\ x <= m /\ bytes[x] = NL
      <4>1. x \in 1..(m + 1) /\ (IF x <= m THEN bytes[x] = NL ELSE x > 1 /\ bytes[x - 1] # NL)
        BY <1>5, <3>3
      <4>2. x <= m
        <5>1. m = stop \/ m = stop - 1
          BY <1>2
        <5> QED
          BY <1>1, <3>3, <4>1, <5>1
      <4> QED
        BY <4>1, <4>2
    <3>6. ~(x \in pos..(stop - 1))
      BY <1>1, <3>5
    <3>7. x + 1 <= pos
      BY <1>1, <3>3, <3>5, <3>6
    <3> QED
      BY <3>4, <3>7
  <2> QED
    BY <2>1, <2>2
<1>10. ~tok.eof => WholeLines(t)
  BY <1>1, <1>2, <1>3, <1>4 DEF WholeLines
<1>11. tok.eof \in BOOLEAN /\ (tok.eof => tok.next = last + 1)
  <2>1. (stop = last + 1 /\ m = stop - 1) => tok.next = last + 1
    BY <1>1, <1>2
  <2> QED
    BY <1>2, <2>1, Zenon
<1>12. tok.next \in Nat \ {0} /\ tok.next - 1 <= last
  BY <1>2, <1>3
<1> QED
  BY <1>6, <1>8, <1>9, <1>10, <1>11, <1>12, Zenon DEF t, m

\* An empty text has no lines, and is whole.
LEMMA NoLines ==
  ASSUME NEW T, NEW s \in Seq(T)
  PROVE  /\ SubSeq(s, 1, 0) = <<>> /\ WholeLines(<<>>)
         /\ Len(Lines(<<>>)) = 0 /\ DOMAIN Lines(<<>>) = {}
<1>1. SubSeq(s, 1, 0) = <<>> /\ WholeLines(<<>>) /\ <<>> \in Seq(T)
  BY DEF WholeLines
<1>2. Cardinality(Stops(<<>>)) = 0
  BY <1>1, WholeStops
<1>3. Len(Lines(<<>>)) = Cardinality(Stops(<<>>)) /\ DOMAIN Lines(<<>>) = 1..Cardinality(Stops(<<>>))
  BY <1>1, StopsOf
<1> QED
  BY <1>1, <1>2, <1>3

\* Lines are texts.
LEMMA LinesType ==
  ASSUME NEW T, NEW s \in Seq(T), NEW k \in 1..Len(Lines(s))
  PROVE  Lines(s)[k] \in Seq(T)
<1> DEFINE S == Stops(s)
           n == Cardinality(S)
           a == LineStart(s, k)
           b == Nth(S, k) - 1
<1>1. S \in SUBSET Int /\ IsFiniteSet(S) /\ n \in Nat /\ Len(Lines(s)) = n /\ S \subseteq 1..(Len(s) + 1)
  BY StopsOf
<1>2. \A j \in 1..n : Nth(S, j) \in 1..(Len(s) + 1)
  BY <1>1, NthOf
<1>3. k \in 1..n /\ Len(s) \in Nat
  BY <1>1
<1> HIDE DEF n
<1>4. k # 1 => k - 1 \in 1..n
  BY <1>1, <1>3
<1>5. a \in Nat \ {0}
  BY <1>2, <1>3, <1>4 DEF LineStart
<1>6. b \in Int /\ b <= Len(s)
  BY <1>2, <1>3
<1>7. Lines(s)[k] = dropCR(SubSeq(s, a, b))
  BY <1>3 DEF Lines, n
<1> HIDE DEF a, b
<1>8. SubSeq(s, a, b) \in Seq(T)
  BY <1>5, <1>6, PartOf
<1> QED
  BY <1>7, <1>8, DropsCR

\* A slot of the ring holds one of the last lines at a time.
LEMMA RingSlots ==
  ASSUME NEW L \in Nat \ {0}, NEW c \in Nat, NEW j \in Nat
  PROVE  /\ j % L \in 0..(L - 1)
         /\ j < c /\ c < j + L => j % L # c % L
<1>1. j = L * (j \div L) + (j % L) /\ j % L \in 0..(L - 1) /\ j \div L \in Int
  OBVIOUS
<1>2. c = L * (c \div L) + (c % L) /\ c \div L \in Int
  OBVIOUS
<1>3. ASSUME j < c, c < j + L, j % L = c % L PROVE FALSE
  <2> DEFINE q == j \div L
             p == c \div L
             r == j % L
  <2>1. p \in Int /\ q \in Int /\ r \in Int /\ L * q + r < L * p + r /\ L * p + r < L * q + r + L
    BY <1>1, <1>2, <1>3
  <2> HIDE DEF p, q, r
  <2>2. L * q \in Int /\ L * p \in Int
    BY <2>1
  <2>3. L * q < L * p /\ L * p < L * q + L
    BY <2>1, <2>2
  <2>4. CASE p <= q
    <3>1. L * p <= L * q
      BY <2>1, <2>4
    <3> QED
      BY <2>2, <2>3, <3>1
  <2>5. CASE p >= q + 1
    <3>1. L * p >= L * (q + 1) /\ L * (q + 1) = L * q + L
      BY <2>1, <2>5
    <3> QED
      BY <2>2, <2>3, <3>1
  <2> QED
    BY <2>1, <2>4, <2>5
<1> QED
  BY <1>1, <1>3

-----------------------------------------------------------------------------
(***************************************************************************)
(* The steps.                                                              *)
(***************************************************************************)

\* The limit of a request.
LEMMA LimitType ==
  ASSUME NEW r \in Requests
  PROVE  clampLimit(r.n, DefaultLimit, HardLimit) \in Nat \ {0}
BY FileToolsAssumption, Clamped

\* A file has bytes.
LEMMA FileType ==
  ASSUME FilesInv, NEW f \in DOMAIN files
  PROVE  /\ files[f].bytes \in Seq(Bytes) /\ Size(f) \in Nat
         /\ 1 \in DOMAIN files /\ DOMAIN files = 1..Len(files) /\ Len(files) \in Nat \ {0}
<1>1. files \in Seq(AnyFile) /\ files # <<>>
  BY DEF FilesInv
<1>2. files[f] \in AnyFile /\ DOMAIN files = 1..Len(files) /\ Len(files) \in Nat \ {0}
  BY <1>1
<1>3. files[f].bytes \in Seq(Bytes)
  BY <1>2 DEF AnyFile
<1> QED
  BY <1>2, <1>3 DEF Size

\* While a tool is at work nothing has been answered.
LEMMA FilesAtWork ==
  ASSUME pc' \in {"read", "probe", "tail", "grep"}, FilesInv', maxOutput' \in Caps, count' \in Nat,
         RequestInv', ReadInv', TailInv', GrepInv'
  PROVE  FileInv'
<1>1. res' = NoRes /\ sc'.file \in DOMAIN files' /\ sc'.pos \in Nat \ {0}
  BY DEF RequestInv
<1>2. res'.truncated = FALSE /\ res'.out = <<>>
  BY <1>1 DEF NoRes
<1>3. maxOutput' >= 0 => Len(res'.out) <= maxOutput'
  BY <1>2, FileToolsAssumption
<1>4. TypeOK'
  BY <1>1, <1>2, <1>3 DEF TypeOK
<1>5. ReadPages' /\ CapOnRune' /\ TailSuffix' /\ GrepComplete'
  BY DEF ReadPages, CapOnRune, TailSuffix, GrepComplete, Done
<1> QED
  BY <1>4, <1>5 DEF FileInv

\* A tool that returns r.
LEMMA FilesReturned ==
  ASSUME FileInv, pc # "idle", NEW r, Return(r), r.truncated \in BOOLEAN,
         maxOutput >= 0 => Len(r.out) <= maxOutput,
         r.err # "none" \/ (ReadPages' /\ CapOnRune' /\ TailSuffix' /\ GrepComplete')
  PROVE  FileInv'
<1>1. pc' = "done" /\ res' = r /\ UNCHANGED <<files, maxOutput, req, sc, ring, count, buf, opened>>
  BY DEF Return
<1>2. ReadPages' /\ CapOnRune' /\ TailSuffix' /\ GrepComplete'
  <2>1. CASE r.err # "none"
    BY <1>1, <2>1 DEF ReadPages, CapOnRune, TailSuffix, GrepComplete, Done
  <2> QED
    BY <2>1
<1>3. TypeOK'
  BY <1>1 DEF FileInv, TypeOK
<1>4. FilesInv' /\ RequestInv' /\ ReadInv' /\ TailInv' /\ GrepInv'
  BY <1>1 DEF FileInv, FilesInv, RequestInv, ReadInv, TailInv, GrepInv, Size
<1> QED
  BY <1>2, <1>3, <1>4 DEF FileInv

\* The initial states satisfy the invariant.
LEMMA FileInvInit == Init => FileInv
<1> SUFFICES ASSUME Init PROVE FileInv
  OBVIOUS
<1>1. files \in Seq(AnyFile) \ {<<>>} /\ opened = files /\ maxOutput \in Caps /\ maxOutput \in Int
  BY FileToolsAssumption DEF Init
<1>2. FilesInv
  <2>1. \A f \in DOMAIN files : Len(files[f].bytes) \in Nat
    BY <1>1 DEF AnyFile
  <2> QED
    BY <1>1, <2>1 DEF FilesInv, Size
<1>3. 1 \in DOMAIN files
  BY <1>1
<1>4. /\ pc = "idle" /\ buf = <<>> /\ count = 0 /\ res = NoRes /\ sc = NoScan
  BY DEF Init
<1>5. RequestInv
  BY <1>3, <1>4 DEF RequestInv, NoScan
<1>6. TypeOK
  BY <1>1, <1>3, <1>4 DEF TypeOK, NoRes, NoScan
<1>7. ReadInv /\ TailInv /\ GrepInv /\ ReadPages /\ CapOnRune /\ TailSuffix /\ GrepComplete
  BY <1>4 DEF ReadInv, TailInv, GrepInv, ReadPages, CapOnRune, TailSuffix, GrepComplete, Done
<1> QED
  BY <1>2, <1>5, <1>6, <1>7 DEF FileInv

\* A request that fails before its tool reads anything.
LEMMA StartFailsStep ==
  ASSUME FileInv, NEW r \in Requests, NEW e, e # "none", StartFails(r, e)
  PROVE  FileInv'
<1>1. /\ pc' = "done" /\ res' = Failed(e) /\ req' = r /\ opened' = files
      /\ UNCHANGED <<files, maxOutput, count, buf, sc, ring>>
  BY DEF StartFails, Starting
<1>2. res'.err # "none" /\ res'.truncated = FALSE /\ res'.out = <<>>
  BY <1>1 DEF Failed, NoRes
<1>3. TypeOK'
  <2>1. maxOutput \in Int
    BY FileToolsAssumption DEF FileInv, TypeOK
  <2> QED
    BY <1>1, <1>2, <2>1 DEF FileInv, TypeOK
<1>4. FilesInv'
  <2>1. \A f \in DOMAIN files : Size(f) \in Nat
    BY FileType DEF FileInv
  <2> QED
    BY <1>1, <2>1 DEF FileInv, FilesInv, Size
<1>5. RequestInv' /\ ReadInv' /\ TailInv' /\ GrepInv'
  BY <1>1 DEF FileInv, RequestInv, ReadInv, TailInv, GrepInv
<1>6. ReadPages' /\ CapOnRune' /\ TailSuffix' /\ GrepComplete'
  BY <1>2 DEF ReadPages, CapOnRune, TailSuffix, GrepComplete, Done
<1> QED
  BY <1>3, <1>4, <1>5, <1>6 DEF FileInv

\* A tool begins.
LEMMA Begins ==
  ASSUME FileInv, NEW r \in Requests, Starting(r), UNCHANGED res
  PROVE  /\ FilesInv' /\ maxOutput' \in Caps /\ count' = 0 /\ buf' = <<>> /\ res' = NoRes
         /\ maxOutput' \in Int /\ Limit' \in Nat \ {0}
         /\ req' = r /\ req' \in Requests /\ opened' = files /\ files' = files
         /\ files[1].bytes \in Seq(Bytes) /\ 1 \in DOMAIN files
<1>1. /\ pc = "idle" /\ req' = r /\ opened' = files /\ UNCHANGED <<files, maxOutput, count, buf>>
  BY DEF Starting
<1>2. count = 0 /\ buf = <<>> /\ res = NoRes /\ maxOutput \in Caps /\ sc.file \in DOMAIN files
  BY <1>1 DEF FileInv, RequestInv, TypeOK
<1>3. FilesInv'
  <2>1. \A f \in DOMAIN files : Size(f) \in Nat
    BY FileType DEF FileInv
  <2> QED
    BY <1>1, <2>1 DEF FileInv, FilesInv, Size
<1>4. 1 \in DOMAIN files /\ files[1].bytes \in Seq(Bytes)
  <2>1. 1 \in DOMAIN files
    BY <1>2, FileType DEF FileInv
  <2> QED
    BY <2>1, FileType DEF FileInv
<1>5. Limit' \in Nat \ {0}
  BY <1>1, LimitType DEF Limit
<1>6. maxOutput' \in Int
  BY <1>1, <1>2, FileToolsAssumption
<1> QED
  BY <1>1, <1>2, <1>3, <1>4, <1>5, <1>6

\* read begins.
LEMMA ReadStartsStep ==
  ASSUME FileInv, NEW r \in Requests, ReadStarts(r)
  PROVE  FileInv'
<1>1. CASE r.offset < 0
  BY <1>1, StartFailsStep DEF ReadStarts
<1>2. CASE ~(r.offset < 0)
  <2>1. /\ Starting(r) /\ UNCHANGED res /\ r.tool = "read" /\ pc' = "read"
        /\ sc' = [NoScan EXCEPT !.pos = r.offset + 1]
    BY <1>2 DEF ReadStarts
  <2>2. r.offset \in Nat
    BY <1>2, FileToolsAssumption
  <2>3. /\ FilesInv' /\ maxOutput' \in Caps /\ count' = 0 /\ buf' = <<>> /\ res' = NoRes
        /\ maxOutput' \in Int /\ Limit' \in Nat \ {0}
        /\ req' = r /\ req' \in Requests /\ files' = files
        /\ files[1].bytes \in Seq(Bytes) /\ 1 \in DOMAIN files
    BY <2>1, Begins
  <2>4. RequestInv'
    <3>1. sc' = [file |-> 1, pos |-> r.offset + 1, lim |-> 0, line |-> 0, drop |-> FALSE, eof |-> FALSE]
      BY <2>1 DEF NoScan
    <3>2. r.offset + 1 \in Nat \ {0}
      BY <2>2
    <3>3. sc' \in [file : DOMAIN files, pos : Nat \ {0}, lim : Nat, line : Nat, drop : BOOLEAN, eof : BOOLEAN]
      BY <2>3, <3>1, <3>2
    <3> QED
      BY <2>1, <2>3, <3>3 DEF RequestInv
  <2>5. ReadInv'
    <3>1. Len(buf') = 0 /\ req'.offset = r.offset /\ sc'.pos = r.offset + 0 + 1
      BY <2>1, <2>2, <2>3 DEF NoScan
    <3>2. SubSeq(files'[1].bytes, r.offset + 1, r.offset + 0) = <<>>
      BY <2>2, SubSeqEmpty
    <3>3. buf' = SubSeq(files'[1].bytes, req'.offset + 1, req'.offset + Len(buf'))
      BY <2>3, <3>1, <3>2
    <3>4. buf' \in Seq(Bytes) /\ Len(buf') <= Limit' /\ (maxOutput' >= 0 => Len(buf') <= maxOutput')
      BY <2>3
    <3> QED
      BY <2>1, <2>2, <2>3, <3>1, <3>3, <3>4 DEF ReadInv
  <2>6. TailInv' /\ GrepInv'
    BY <2>1 DEF TailInv, GrepInv
  <2> QED
    BY <2>1, <2>3, <2>4, <2>5, <2>6, FilesAtWork
<1> QED
  BY <1>1, <1>2

\* read has its page.
LEMMA ReadPageStep ==
  ASSUME FileInv, ReadPage
  PROVE  FileInv'
<1> DEFINE maxBytes == IF maxOutput >= 0 THEN Min({Limit, maxOutput}) ELSE Limit
           last == Min({sc.pos + maxBytes - 1, Size(1)})
           bytes == files[1].bytes
           page == SubSeq(bytes, sc.pos, last)
<1>1. /\ pc = "read" /\ pc' = "probe" /\ buf' = page
      /\ sc' = [sc EXCEPT !.pos = @ + Len(page)]
      /\ UNCHANGED <<files, maxOutput, req, ring, count, res, opened>>
  BY DEF ReadPage
<1>2. /\ req \in Requests /\ req.tool = "read" /\ req.offset \in Nat /\ res = NoRes
      /\ sc.pos = req.offset + 1 /\ maxOutput \in Caps /\ count \in Nat
      /\ sc \in [file : DOMAIN files, pos : Nat \ {0}, lim : Nat, line : Nat, drop : BOOLEAN, eof : BOOLEAN]
  <2>1. buf = <<>> /\ sc.pos = req.offset + Len(buf) + 1 /\ req.offset \in Nat
    BY <1>1 DEF FileInv, ReadInv
  <2> QED
    BY <1>1, <2>1 DEF FileInv, ReadInv, RequestInv, TypeOK
<1>3. /\ bytes \in Seq(Bytes) /\ Size(1) \in Nat /\ Len(bytes) = Size(1)
      /\ maxOutput \in Int /\ Limit \in Nat \ {0}
  <2>1. 1 \in DOMAIN files
    BY <1>2, FileType DEF FileInv
  <2> QED
    BY <1>2, <2>1, FileType, LimitType, FileToolsAssumption DEF FileInv, Limit, Size
<1>4. maxBytes \in Nat /\ maxBytes <= Limit /\ (maxOutput >= 0 => maxBytes <= maxOutput)
  <2>1. Limit \in Int
    BY <1>3
  <2>2. Min({Limit, maxOutput}) \in {Limit, maxOutput} /\ Min({Limit, maxOutput}) <= Limit
        /\ Min({Limit, maxOutput}) <= maxOutput
    BY <1>3, <2>1, MinOfTwo
  <2> QED
    BY <1>3, <2>2
<1> HIDE DEF maxBytes
<1>5. last \in Int /\ last <= sc.pos + maxBytes - 1 /\ last <= Size(1)
  <2> DEFINE a == sc.pos + maxBytes - 1
  <2>1. a \in Int /\ Size(1) \in Int
    BY <1>2, <1>3, <1>4
  <2> HIDE DEF a
  <2>2. Min({a, Size(1)}) \in {a, Size(1)} /\ Min({a, Size(1)}) <= a /\ Min({a, Size(1)}) <= Size(1)
    BY <2>1, MinOfTwo
  <2>3. Min({a, Size(1)}) \in Int
    BY <2>1, <2>2
  <2> QED
    BY <2>2, <2>3 DEF a
<1> HIDE DEF last, bytes
<1>6. /\ page \in Seq(Bytes) /\ Len(page) = IF sc.pos <= last THEN last - sc.pos + 1 ELSE 0
      /\ Len(page) \in Nat
  <2>1. sc.pos \in Nat \ {0} /\ last <= Len(bytes)
    BY <1>2, <1>3, <1>5
  <2> QED
    BY <1>3, <1>5, <2>1, PartOf
<1>7. page = SubSeq(bytes, req.offset + 1, req.offset + Len(page))
  <2>1. CASE sc.pos <= last
    <3>1. req.offset + Len(page) = last
      BY <1>2, <1>5, <1>6, <2>1
    <3> QED
      BY <1>2, <3>1
  <2>2. CASE ~(sc.pos <= last)
    <3>1. Len(page) = 0 /\ last < sc.pos /\ req.offset + 0 < req.offset + 1
      BY <1>2, <1>5, <1>6, <2>2
    <3>2. sc.pos \in Int /\ req.offset + 1 \in Int /\ req.offset + 0 \in Int
      BY <1>2
    <3>3. page = <<>>
      BY <1>5, <3>1, <3>2, SubSeqEmpty
    <3>4. SubSeq(bytes, req.offset + 1, req.offset + 0) = <<>>
      BY <3>1, <3>2, SubSeqEmpty
    <3> QED
      BY <3>1, <3>3, <3>4
  <2> QED
    BY <2>1, <2>2
<1>8. Len(page) <= maxBytes /\ (Len(page) = 0 \/ req.offset + Len(page) <= Size(1))
  <2> DEFINE n == Len(page)
  <2>1. n = IF sc.pos <= last THEN last - sc.pos + 1 ELSE 0
    BY <1>6
  <2> HIDE DEF n
  <2>2. sc.pos = req.offset + 1 /\ req.offset \in Nat
    BY <1>2
  <2>3. n <= maxBytes /\ (n = 0 \/ req.offset + n <= Size(1))
    <3>1. CASE sc.pos <= last
      BY <1>4, <1>5, <2>1, <2>2, <3>1
    <3>2. CASE ~(sc.pos <= last)
      BY <1>4, <2>1, <3>2
    <3> QED
      BY <3>1, <3>2
  <2> QED
    BY <2>3 DEF n
<1>9. sc'.pos = req.offset + Len(page) + 1 /\ sc'.pos \in Nat \ {0}
  <2>1. sc'.pos = sc.pos + Len(page)
    BY <1>1, <1>2
  <2> DEFINE n == Len(page)
  <2> HIDE DEF n
  <2>2. sc'.pos = sc.pos + n /\ sc.pos = req.offset + 1 /\ req.offset \in Nat /\ n \in Nat
    BY <1>2, <1>6, <2>1 DEF n
  <2>3. sc'.pos = req.offset + n + 1 /\ sc'.pos \in Nat \ {0}
    BY <2>2
  <2> QED
    BY <2>3 DEF n
<1>10. page = <<>> \/ req.offset + Len(page) <= Size(1)
  BY <1>6, <1>8
<1> HIDE DEF page
<1>11. ReadInv'
  <2>1. /\ Len(page) <= Limit /\ (maxOutput >= 0 => Len(page) <= maxOutput)
        /\ req.offset + Len(page) \in Int
    BY <1>2, <1>3, <1>4, <1>6, <1>8
  <2>2. /\ Limit' = Limit /\ Size(1)' = Size(1)
    BY <1>1 DEF Limit, Size
  <2> QED
    BY <1>1, <1>2, <1>6, <1>7, <1>9, <1>10, <2>1, <2>2 DEF ReadInv, bytes
<1>12. RequestInv'
  BY <1>1, <1>2, <1>9 DEF RequestInv
<1>13. FilesInv' /\ TailInv' /\ GrepInv'
  BY <1>1 DEF FileInv, FilesInv, TailInv, GrepInv, Size
<1> QED
  BY <1>1, <1>2, <1>11, <1>12, <1>13, FilesAtWork

\* read has looked for one byte more.
LEMMA ReadProbeStep ==
  ASSUME FileInv, ReadProbe
  PROVE  FileInv'
<1> DEFINE r == [err |-> "none", out |-> buf, truncated |-> sc.pos <= Size(1)]
<1>1. pc = "probe" /\ Return(r)
  BY DEF ReadProbe
<1>2. /\ res' = r /\ UNCHANGED <<files, maxOutput, req, sc, ring, count, buf, opened>>
  BY <1>1 DEF Return
<1>3. /\ req \in Requests /\ req.tool = "read" /\ req.offset \in Nat
      /\ sc.pos = req.offset + Len(buf) + 1 /\ buf \in Seq(Bytes)
      /\ buf = SubSeq(files[1].bytes, req.offset + 1, req.offset + Len(buf))
      /\ Len(buf) <= Limit /\ (maxOutput >= 0 => Len(buf) <= maxOutput)
      /\ sc.file \in DOMAIN files
  BY <1>1 DEF FileInv, ReadInv, RequestInv, TypeOK
<1>4. Size(1) \in Nat
  <2>1. 1 \in DOMAIN files
    BY <1>3, FileType DEF FileInv
  <2> QED
    BY <2>1, FileType DEF FileInv
<1>5. ReadPages'
  <2>1. res'.out = buf /\ (res'.truncated <=> sc.pos <= Size(1))
    BY <1>2
  <2>2. ~(sc.pos <= Size(1)) <=> req.offset + Len(buf) >= Size(1)
    BY <1>3, <1>4
  <2>3. Limit' = Limit /\ Size(1)' = Size(1)
    BY <1>2 DEF Limit, Size
  <2> QED
    BY <1>2, <1>3, <2>1, <2>2, <2>3 DEF ReadPages
<1>6. CapOnRune' /\ TailSuffix' /\ GrepComplete'
  BY <1>2, <1>3 DEF CapOnRune, TailSuffix, GrepComplete, Done
<1>7. r.truncated \in BOOLEAN /\ (maxOutput >= 0 => Len(r.out) <= maxOutput)
  BY <1>3
<1> HIDE DEF r
<1> QED
  BY <1>1, <1>5, <1>6, <1>7, FilesReturned

\* A tool that gives up.
LEMMA CtxDoneStep ==
  ASSUME FileInv, CtxDone
  PROVE  FileInv'
<1> DEFINE r == Failed("context")
<1>1. Return(r) /\ pc # "idle"
  BY DEF CtxDone
<1>2. r.truncated = FALSE /\ r.out = <<>> /\ r.err # "none"
  BY DEF Failed, NoRes
<1> HIDE DEF r
<1>3. maxOutput \in Int
  BY FileToolsAssumption DEF FileInv, TypeOK
<1>4. r.truncated \in BOOLEAN /\ (maxOutput >= 0 => Len(r.out) <= maxOutput)
  BY <1>2, <1>3
<1> QED
  BY <1>1, <1>2, <1>4, FilesReturned

\* A file that cannot be opened.
LEMMA OpenFailsStep ==
  ASSUME FileInv, NEW r \in Requests, OpenFails(r)
  PROVE  FileInv'
BY StartFailsStep DEF OpenFails

\* tail begins at the start of its window.
LEMMA TailStartsStep ==
  ASSUME FileInv, NEW r \in Requests, TailStarts(r)
  PROVE  FileInv'
<1> DEFINE start == Max({0, Size(1) - TailMaxScan})
           n == clampLimit(r.n, DefaultLimit, HardLimit)
<1>1. /\ Starting(r) /\ UNCHANGED res /\ r.tool = "tail" /\ pc' = "tail"
      /\ sc' = [NoScan EXCEPT !.pos = start + 1, !.lim = start + TailMaxScan, !.drop = start > 0]
      /\ ring' = [i \in 0..(n - 1) |-> <<>>]
  BY DEF TailStarts
<1>2. /\ FilesInv' /\ maxOutput' \in Caps /\ count' = 0 /\ buf' = <<>> /\ res' = NoRes
      /\ maxOutput' \in Int /\ Limit' \in Nat \ {0}
      /\ req' = r /\ req' \in Requests /\ opened' = files /\ files' = files
      /\ files[1].bytes \in Seq(Bytes) /\ 1 \in DOMAIN files
  BY <1>1, Begins
<1>3. Limit' = n
  BY <1>2 DEF Limit
<1>4. Size(1) \in Nat /\ TailMaxScan \in Nat \ {0}
  BY <1>2, FileToolsAssumption DEF Size
<1>5. start \in Nat /\ (start > 0 => start = Size(1) - TailMaxScan) /\ start <= Size(1)
  <2> DEFINE d == Size(1) - TailMaxScan
  <2>1. d \in Int /\ d <= Size(1) /\ 0 \in Int
    BY <1>4
  <2> HIDE DEF d
  <2>2. Max({0, d}) \in {0, d} /\ 0 <= Max({0, d})
    BY <2>1, MinOfTwo
  <2>3. Max({0, d}) \in Nat /\ (Max({0, d}) > 0 => Max({0, d}) = d) /\ Max({0, d}) <= Size(1)
    BY <1>4, <2>1, <2>2
  <2> QED
    BY <2>3 DEF d
<1>6. WindowStart' = start
  BY <1>2 DEF WindowStart, Size
<1> HIDE DEF start, n
<1>7. sc' = [file |-> 1, pos |-> start + 1, lim |-> start + TailMaxScan, line |-> 0,
             drop |-> start > 0, eof |-> FALSE]
  BY <1>1 DEF NoScan
<1>8. RequestInv'
  <2>1. start + 1 \in Nat \ {0} /\ start + TailMaxScan \in Nat
    BY <1>4, <1>5
  <2>2. sc' \in [file : DOMAIN files, pos : Nat \ {0}, lim : Nat, line : Nat, drop : BOOLEAN, eof : BOOLEAN]
    BY <1>2, <1>7, <2>1
  <2> QED
    BY <1>1, <1>2, <2>2 DEF RequestInv
<1>9. TailInv'
  <2>1. ring' \in [0..(Limit' - 1) -> Seq(Bytes)]
    BY <1>1, <1>3
  <2>2. /\ sc'.file = 1 /\ sc'.pos = start + 1 /\ sc'.lim = start + TailMaxScan /\ sc'.eof = FALSE
        /\ sc'.drop <=> start > 0
    BY <1>7
  <2>3. sc'.pos - 1 = start /\ sc'.pos - 1 <= sc'.lim
    BY <1>4, <1>5, <2>2
  <2>4. CASE start > 0
    BY <1>1, <1>2, <1>6, <2>1, <2>2, <2>3, <2>4 DEF TailInv
  <2>5. CASE ~(start > 0)
    <3>1. start = 0
      BY <1>5, <2>5
    <3>2. Scanned' = <<>>
      <4>1. Scanned' = SubSeq(files[1].bytes, 1, 0)
        BY <1>2, <2>2, <2>3, <3>1 DEF Scanned
      <4> QED
        BY <1>2, <4>1, NoLines
    <3>3. Len(Lines(Scanned')) = 0 /\ WholeLines(Scanned')
      BY <1>2, <3>2, NoLines
    <3>4. Size(sc.file)' = Size(1)
      BY <1>2, <2>2 DEF Size
    <3>5. ScanInv'
      BY <1>4, <2>2, <2>3, <3>1, <3>3, <3>4 DEF ScanInv
    <3>6. \A j \in 0..(count' - 1) : FALSE
      BY <1>2
    <3>7. /\ req'.tool = "tail" /\ sc'.file = 1 /\ sc'.lim = WindowStart' + TailMaxScan
          /\ sc'.pos - 1 <= sc'.lim /\ ~sc'.drop /\ WindowStart' = 0 /\ count' = 0
      BY <1>1, <1>2, <1>6, <2>2, <2>3, <3>1
    <3> QED
      BY <2>1, <3>3, <3>5, <3>6, <3>7 DEF TailInv
  <2> QED
    BY <2>4, <2>5
<1>10. ReadInv' /\ GrepInv'
  BY <1>1 DEF ReadInv, GrepInv
<1> QED
  BY <1>1, <1>2, <1>8, <1>9, <1>10, FilesAtWork

\* What grep prints is made of bytes, newlines and numbers.
Printed == Bytes \cup {NL} \cup {ToString(i) : i \in Nat}

\* A line as grep prints it.
LEMMA MatchLineType ==
  ASSUME NEW f \in Nat, NEW k \in Nat, NEW text \in Seq(Bytes)
  PROVE  MatchLine(f, k, text) \in Seq(Printed)
<1>1. ToString(f) \in Printed /\ ToString(k) \in Printed /\ NL \in Printed
  BY DEF Printed
<1>2. text \in Seq(Printed)
  <2>1. Bytes \subseteq Printed
    BY DEF Printed
  <2> QED
    BY <2>1
<1> DEFINE a == ToString(f)
           b == ToString(k)
<1>3. a \in Printed /\ b \in Printed
  BY <1>1
<1> HIDE DEF a, b
<1>4. <<a, b>> \in Seq(Printed) /\ Append(text, NL) \in Seq(Printed)
  BY <1>1, <1>2, <1>3
<1>5. <<a, b>> \o Append(text, NL) \in Seq(Printed)
  <2> DEFINE u == Append(text, NL)
             v == <<a, b>>
  <2>1. u \in Seq(Printed) /\ v \in Seq(Printed)
    BY <1>4
  <2> HIDE DEF u, v
  <2>2. v \o u \in Seq(Printed)
    BY <2>1
  <2> QED
    BY <2>2 DEF u, v
<1> QED
  BY <1>5 DEF MatchLine, a, b

\* What grep prints of line k of s.
PrintedLine(f, s, k) == IF Matches(Lines(s)[k]) THEN MatchLine(f, k, Lines(s)[k]) ELSE <<>>

\* What grep prints of a text is printed line by line.
LEMMA ReferenceType ==
  ASSUME NEW f \in Nat, NEW s \in Seq(Bytes)
  PROVE  LET lines == [k \in 1..Len(Lines(s)) |-> PrintedLine(f, s, k)]
         IN  /\ Len(Lines(s)) \in Nat /\ lines \in Seq(Seq(Printed))
             /\ GrepReference(f, s) = FlattenSeq(lines)
             /\ GrepReference(f, s) \in Seq(Printed)
<1> DEFINE n == Len(Lines(s))
           lines == [k \in 1..n |-> PrintedLine(f, s, k)]
<1>1. n \in Nat
  BY StopsOf
<1>2. \A k \in 1..n : Lines(s)[k] \in Seq(Bytes)
  BY LinesType
<1>3. GrepReference(f, s) = FlattenSeq(lines)
  BY DEF GrepReference, PrintedLine
<1>4. ASSUME NEW k \in 1..n PROVE PrintedLine(f, s, k) \in Seq(Printed)
  <2>1. k \in Nat
    BY <1>1
  <2>2. MatchLine(f, k, Lines(s)[k]) \in Seq(Printed)
    BY <1>2, <2>1, MatchLineType
  <2> QED
    BY <2>2 DEF PrintedLine
<1> HIDE DEF n
<1>5. lines \in Seq(Seq(Printed))
  BY <1>1, <1>4
<1> HIDE DEF lines
<1>6. FlattenSeq(lines) \in Seq(Printed)
  BY <1>5, FlattenType
<1> QED
  BY <1>1, <1>3, <1>5, <1>6 DEF n, lines

\* With one line more grep prints that line, or nothing more.
LEMMA ReferenceGrows ==
  ASSUME NEW f \in Nat, NEW s \in Seq(Bytes), NEW t \in Seq(Bytes), NEW text,
         OneLineMore(t, s, text)
  PROVE  GrepReference(f, t) =
           GrepReference(f, s) \o
             (IF Matches(text) THEN MatchLine(f, Len(Lines(s)) + 1, text) ELSE <<>>)
<1> DEFINE n == Len(Lines(s))
           m == Len(Lines(t))
           a == [k \in 1..n |-> PrintedLine(f, s, k)]
           b == [k \in 1..m |-> PrintedLine(f, t, k)]
           e == IF Matches(text) THEN MatchLine(f, n + 1, text) ELSE <<>>
<1>1. /\ n \in Nat /\ a \in Seq(Seq(Printed)) /\ GrepReference(f, s) = FlattenSeq(a)
  BY ReferenceType
<1>2. /\ m \in Nat /\ b \in Seq(Seq(Printed)) /\ GrepReference(f, t) = FlattenSeq(b)
  BY ReferenceType
<1>3. /\ m = n + 1 /\ (\A k \in 1..n : Lines(t)[k] = Lines(s)[k]) /\ Lines(t)[n + 1] = text
  BY DEF OneLineMore
<1> HIDE DEF n, m
<1>4. Len(a) = n /\ Len(b) = n + 1
  BY <1>1, <1>2, <1>3
<1>5. /\ \A k \in 1..n : a[k] = PrintedLine(f, s, k)
      /\ \A k \in 1..(n + 1) : b[k] = PrintedLine(f, t, k)
  BY <1>3
<1>6. \A k \in 1..n : PrintedLine(f, t, k) = PrintedLine(f, s, k)
  BY <1>3 DEF PrintedLine
<1>7. PrintedLine(f, t, n + 1) = e
  BY <1>3 DEF PrintedLine
<1> HIDE DEF a, b, e
<1>8. n + 1 \in 1..(n + 1) /\ \A k \in 1..n : k \in 1..(n + 1)
  BY <1>1
<1>9. e \in Seq(Printed)
  <2>1. b[n + 1] \in Seq(Printed)
    BY <1>2, <1>4, <1>8
  <2> QED
    BY <1>5, <1>7, <1>8, <2>1
<1>10. b = Append(a, e)
  <2>1. /\ Append(a, e) \in Seq(Seq(Printed)) /\ Len(Append(a, e)) = n + 1
        /\ Append(a, e)[n + 1] = e /\ \A k \in 1..n : Append(a, e)[k] = a[k]
    BY <1>1, <1>4, <1>9
  <2> DEFINE c == Append(a, e)
  <2> HIDE DEF c
  <2>2. ASSUME NEW k \in 1..(n + 1) PROVE b[k] = c[k]
    <3>1. CASE k = n + 1
      BY <1>5, <1>7, <1>8, <2>1, <3>1 DEF c
    <3>2. CASE k # n + 1
      <4>1. k \in 1..n
        BY <1>1, <3>2
      <4> QED
        BY <1>5, <1>6, <2>1, <4>1 DEF c
    <3> QED
      BY <3>1, <3>2
  <2>3. b = c
    <3>1. c \in Seq(Seq(Printed)) /\ Len(c) = Len(b) /\ \A k \in 1..Len(b) : b[k] = c[k]
      BY <1>4, <2>1, <2>2 DEF c
    <3> QED
      BY <1>2, <3>1, SeqEqual
  <2> QED
    BY <2>3 DEF c
<1>11. FlattenSeq(b) = FlattenSeq(a) \o e
  BY <1>1, <1>9, <1>10, FlattenAppend
<1> QED
  BY <1>1, <1>2, <1>11 DEF e, n

\* Nothing is printed of nothing, now and after a step.
LEMMA NothingPrinted ==
  ASSUME NEW CONSTANT f
  PROVE  /\ GrepReference(f, <<>>) = <<>> /\ GrepReference(f, <<>>)' = <<>>
         /\ PrintedOf(<<>>, 0) /\ PrintedOf(<<>>, 0)'
<1>1. FlattenSeq(<<>>) = <<>>
  BY DEF FlattenSeq
<1>2. Len(Lines(<<>>)) = 0
  <2>1. <<>> \in Seq({})
    OBVIOUS
  <2> QED
    BY <2>1, NoLines
<1>3. 1..Len(Lines(<<>>)) = {}
  BY <1>2
<1>4. GrepReference(f, <<>>) = <<>>
  <2>1. [k \in 1..Len(Lines(<<>>)) |-> PrintedLine(f, <<>>, k)] = <<>>
    BY <1>3
  <2> QED
    BY <1>1, <2>1 DEF GrepReference, PrintedLine
<1>5. GrepReference(f, <<>>)' = <<>>
  <2>1. [k \in 1..Len(Lines(<<>>)) |-> PrintedLine(f, <<>>, k)'] = <<>>
    BY <1>3
  <2> QED
    BY <1>1, <2>1 DEF GrepReference, PrintedLine
<1>6. PrintedOf(<<>>, 0) /\ PrintedOf(<<>>, 0)'
  <2>1. /\ 1..0 = {} /\ <<>> \in [1..0 -> UNION {Part(g) : g \in 1..0}]
        /\ <<>> \in [1..0 -> UNION {Part(g)' : g \in 1..0}]
    OBVIOUS
  <2> QED
    BY <1>1, <2>1 DEF PrintedOf
<1> QED
  BY <1>4, <1>5, <1>6

\* grep begins in front of the first file.
LEMMA GrepStartsStep ==
  ASSUME FileInv, NEW r \in Requests, GrepStarts(r)
  PROVE  FileInv'
<1>1. CASE r.pattern = ""
  BY <1>1, StartFailsStep DEF GrepStarts
<1>2. CASE r.pattern # "" /\ ~r.dir /\ files[1].kind = "other"
  BY <1>2, StartFailsStep DEF GrepStarts
<1>3. CASE ~(r.pattern = "") /\ ~(r.pattern # "" /\ ~r.dir /\ files[1].kind = "other")
  <2>1. /\ Starting(r) /\ UNCHANGED res /\ r.tool = "grep" /\ pc' = "grep" /\ sc' = NoScan
    BY <1>3 DEF GrepStarts
  <2>2. /\ FilesInv' /\ maxOutput' \in Caps /\ count' = 0 /\ buf' = <<>> /\ res' = NoRes
        /\ req' = r /\ req' \in Requests /\ opened' = files /\ files' = files
        /\ files[1].bytes \in Seq(Bytes) /\ 1 \in DOMAIN files
    BY <2>1, Begins
  <2>3. sc' = [file |-> 1, pos |-> 1, lim |-> 0, line |-> 0, drop |-> FALSE, eof |-> FALSE]
    BY <2>1 DEF NoScan
  <2>4. RequestInv'
    <3>1. sc' \in [file : DOMAIN files, pos : Nat \ {0}, lim : Nat, line : Nat, drop : BOOLEAN, eof : BOOLEAN]
      BY <2>2, <2>3
    <3> QED
      BY <2>1, <2>2, <3>1 DEF RequestInv
  <2>5. sc'.file = 1 /\ sc'.pos = 1 /\ sc'.line = 0 /\ sc'.eof = FALSE /\ sc'.pos - 1 = 0 /\ sc'.file - 1 = 0
    BY <2>3
  <2>6. Scanned' = <<>>
    <3>1. Scanned' = SubSeq(files[1].bytes, 1, 0)
      BY <2>2, <2>5 DEF Scanned
    <3> QED
      BY <2>2, <3>1, NoLines
  <2>7. Len(Lines(Scanned')) = 0 /\ WholeLines(Scanned')
    BY <2>2, <2>6, NoLines
  <2>8. ScanInv'
    <3>1. Size(sc.file)' = Size(1) /\ Size(1) \in Nat
      BY <2>2, <2>5 DEF Size
    <3> QED
      BY <2>5, <2>7, <3>1 DEF ScanInv
  <2>9. PrintedSoFar'
    <3>1. /\ Len(buf') = 0 /\ SubSeq(buf', 1, 0) = <<>> /\ SubSeq(buf', 0 + 1, Len(buf')) = <<>>
          /\ 0 \in 0..Len(buf')
      BY <2>2
    <3>2. PrintedOf(SubSeq(buf, 1, 0), sc.file - 1)'
      <4>1. PrintedOf(<<>>, 0)'
        BY NothingPrinted
      <4> QED
        BY <2>5, <3>1, <4>1 DEF PrintedOf
    <3>3. GrepReference(sc.file, Scanned)' = <<>>
      <4>1. GrepReference(1, <<>>)' = <<>>
        BY NothingPrinted
      <4> QED
        BY <2>5, <2>6, <4>1 DEF GrepReference
    <3> QED
      BY <3>1, <3>2, <3>3 DEF PrintedSoFar
  <2>10. buf' \in Seq(ToSet(buf'))
    BY <2>2
  <2>11. GrepInv'
    BY <2>1, <2>2, <2>5, <2>7, <2>8, <2>9, <2>10 DEF GrepInv
  <2>12. ReadInv' /\ TailInv'
    BY <2>1 DEF ReadInv, TailInv
  <2>13. count' \in Nat
    BY <2>2
  <2> QED
    BY <2>1, <2>2, <2>4, <2>11, <2>12, <2>13, FilesAtWork
<1> QED
  BY <1>1, <1>2, <1>3

\* tail or grep returns its output, cut to the cap; what is owed of an answer that is not
\* marked as truncated is owed of the whole output.
LEMMA OutputReturned ==
  ASSUME FileInv, pc \in {"tail", "grep"}, req.tool \in {"tail", "grep"},
         NEW T, NEW out \in Seq(T), NEW truncated \in BOOLEAN, ReturnOutput(out, truncated),
         out = IF req.tool = "tail" THEN Text(RingLines) ELSE buf,
         res'.out = out /\ ~res'.truncated /\ ~truncated => TailSuffix' /\ GrepComplete'
  PROVE  FileInv'
<1> DEFINE capped == capOutput(out, maxOutput)
           r == [err |-> "none", out |-> capped[1], truncated |-> truncated \/ capped[2]]
<1>1. Return(r)
  BY DEF ReturnOutput
<1>2. pc' = "done" /\ res' = r /\ UNCHANGED <<files, maxOutput, req, sc, ring, count, buf, opened>>
  BY <1>1 DEF Return
<1>3. maxOutput \in Int /\ Len(out) \in Nat
  BY FileToolsAssumption DEF FileInv, TypeOK
<1>4. PICK n \in 0..Len(out) :
        /\ capped[1] = SubSeq(out, 1, n) /\ capped[2] \in BOOLEAN
        /\ maxOutput >= 0 => n <= maxOutput
        /\ ~capped[2] => n = Len(out)
        /\ n < Len(out) => /\ n = 0 \/ out[n + 1] # Cont
                           /\ \A k \in (n + 1)..maxOutput : out[k + 1] = Cont
                           /\ capped[2] /\ n <= maxOutput
  <2>1. CASE maxOutput < 0 \/ Len(out) <= maxOutput
    <3>1. capped = <<out, FALSE>>
      BY <1>3, <2>1, CapOutputCuts
    <3>2. out = SubSeq(out, 1, Len(out))
      OBVIOUS
    <3> HIDE DEF capped
    <3>3. capped[1] = out /\ capped[2] = FALSE
      BY <3>1
    <3>4. capped[1] = SubSeq(out, 1, Len(out)) /\ capped[2] = FALSE
      BY <3>2, <3>3
    <3>5. Len(out) \in 0..Len(out) /\ ~(Len(out) < Len(out)) /\ (maxOutput >= 0 => Len(out) <= maxOutput)
      BY <1>3, <2>1
    <3> QED
      BY <3>4, <3>5
  <2>2. CASE ~(maxOutput < 0 \/ Len(out) <= maxOutput)
    <3>1. PICK n \in 0..maxOutput : /\ capped = <<SubSeq(out, 1, n), TRUE>>
                                    /\ n = 0 \/ out[n + 1] # Cont
                                    /\ \A k \in (n + 1)..maxOutput : out[k + 1] = Cont
      BY <1>3, <2>2, CapOutputCuts
    <3> HIDE DEF capped
    <3>2. capped[1] = SubSeq(out, 1, n) /\ capped[2] = TRUE
      BY <3>1
    <3>3. n \in 0..Len(out) /\ n <= maxOutput
      BY <1>3, <2>2
    <3> QED
      BY <3>1, <3>2, <3>3
  <2> QED
    BY <2>1, <2>2
<1>5. /\ SubSeq(out, 1, n) \in Seq(T) /\ Len(SubSeq(out, 1, n)) = n
      /\ \A i \in 1..n : SubSeq(out, 1, n)[i] = out[i]
  BY Beginning
<1>6. res'.out = SubSeq(out, 1, n) /\ (res'.truncated <=> truncated \/ capped[2]) /\ res'.err = "none"
  BY <1>2, <1>4
<1>7. CapOnRune'
  <2>1. (IF req.tool = "tail" THEN Text(RingLines) ELSE buf)' = out
    <3>1. RingLines' = RingLines
      BY <1>2 DEF RingLines, Limit
    <3> QED
      BY <1>2, <3>1 DEF Text
  <2>2. IsPrefix(SubSeq(out, 1, n), out)
    BY <1>5 DEF IsPrefix
  <2>3. /\ IsPrefix(res'.out, out) /\ Len(res'.out) = n
        /\ n < Len(out) => /\ res'.truncated
                           /\ n <= maxOutput'
                           /\ n = 0 \/ out[n + 1] # Cont
                           /\ \A k \in (n + 1)..maxOutput' : out[k + 1] = Cont
    <3>1. n < Len(out) => res'.truncated
      BY <1>4, <1>6, Zenon
    <3> HIDE DEF capped
    <3> QED
      BY <1>2, <1>4, <1>5, <1>6, <2>2, <3>1
  <2> QED
    BY <2>1, <2>3 DEF CapOnRune
<1>8. TailSuffix' /\ GrepComplete'
  <2>1. CASE res'.truncated
    BY <2>1 DEF TailSuffix, GrepComplete
  <2>2. CASE ~res'.truncated
    <3>1. ~truncated /\ ~capped[2]
      BY <1>6, <2>2, Zenon
    <3>2. res'.out = out
      <4>1. n = Len(out)
        BY <1>4, <3>1
      <4>2. SubSeq(out, 1, Len(out)) = out
        OBVIOUS
      <4> QED
        BY <1>6, <4>1, <4>2
    <3> QED
      BY <2>2, <3>1, <3>2
  <2> QED
    BY <2>1, <2>2
<1>9. ReadPages'
  BY <1>2 DEF ReadPages, Done
<1>10. /\ r.truncated \in BOOLEAN /\ (maxOutput >= 0 => Len(r.out) <= maxOutput)
  <2>1. r.truncated = (truncated \/ capped[2]) /\ r.out = capped[1]
    OBVIOUS
  <2>2. (truncated \/ capped[2]) \in BOOLEAN
    BY <1>4, Zenon
  <2> HIDE DEF capped, r
  <2> QED
    BY <1>4, <1>5, <2>1, <2>2
<1>11. pc # "idle"
  OBVIOUS
<1> HIDE DEF r
<1> QED
  BY <1>1, <1>7, <1>8, <1>9, <1>10, <1>11, FilesReturned

\* What the scanner finds, of the bytes up to last.
Finds(bytes, last) ==
  /\ Token.ok => ~sc.eof /\ \E stop \in sc.pos..(last + 1) : LineAt(Token, bytes, sc.pos, last, stop)
  /\ ~Token.ok => \/ sc.eof /\ Token.err = FALSE
                  \/ ~sc.eof /\ NoLineAt(Token, bytes, sc.pos, last)

\* The scanner of tail or grep at work.
LEMMA ScannerFinds ==
  ASSUME FileInv, pc \in {"tail", "grep"}, req.tool = pc, NEW lim \in Int,
         lim = IF pc = "tail" THEN sc.lim ELSE Size(sc.file)
  PROVE  LET bytes == files[sc.file].bytes
             last == Min({lim, Len(bytes)})
         IN  /\ bytes \in Seq(Bytes) /\ Len(bytes) \in Nat /\ sc.pos \in Nat \ {0}
             /\ last \in Int /\ last <= lim /\ last <= Len(bytes) /\ last \in {lim, Len(bytes)}
             /\ Token.ok \in BOOLEAN
             /\ Finds(bytes, last)
<1> DEFINE bytes == files[sc.file].bytes
           last == Min({lim, Len(bytes)})
           zero == Min({0, Len(bytes)})
<1>1. /\ sc.file \in DOMAIN files /\ sc.pos \in Nat \ {0} /\ sc.eof \in BOOLEAN /\ 0 \in Int
  BY DEF FileInv, RequestInv
<1>2. bytes \in Seq(Bytes) /\ Len(bytes) \in Nat
  BY <1>1, FileType DEF FileInv
<1> HIDE DEF bytes
<1>3. Token = IF sc.eof THEN Scan(bytes, sc.pos, 0) ELSE Scan(bytes, sc.pos, lim)
  BY DEF Token, bytes
<1>4. /\ last \in Int /\ last <= lim /\ last <= Len(bytes) /\ last \in {lim, Len(bytes)}
      /\ Scan(bytes, sc.pos, lim).ok \in BOOLEAN
      /\ Scan(bytes, sc.pos, lim).ok =>
           \E stop \in sc.pos..(last + 1) : LineAt(Scan(bytes, sc.pos, lim), bytes, sc.pos, last, stop)
      /\ ~Scan(bytes, sc.pos, lim).ok => NoLineAt(Scan(bytes, sc.pos, lim), bytes, sc.pos, last)
  BY <1>1, <1>2, ScanReturns
<1>5. /\ zero \in Int /\ zero <= 0
      /\ Scan(bytes, sc.pos, 0).ok \in BOOLEAN
      /\ Scan(bytes, sc.pos, 0).ok =>
           \E stop \in sc.pos..(zero + 1) : LineAt(Scan(bytes, sc.pos, 0), bytes, sc.pos, zero, stop)
      /\ ~Scan(bytes, sc.pos, 0).ok => NoLineAt(Scan(bytes, sc.pos, 0), bytes, sc.pos, zero)
  BY <1>1, <1>2, ScanReturns
<1> HIDE DEF last, zero
<1>6. CASE sc.eof
  <2> DEFINE tok == Scan(bytes, sc.pos, 0)
  <2>1. Token = tok
    BY <1>3, <1>6
  <2> HIDE DEF tok
  <2>2. ASSUME tok.ok PROVE FALSE
    <3>1. PICK stop \in sc.pos..(zero + 1) : LineAt(tok, bytes, sc.pos, zero, stop)
      BY <1>5, <2>2 DEF tok
    <3> QED
      BY <1>1, <1>5, <3>1 DEF LineAt
  <2>3. tok.err = FALSE
    <3>1. NoLineAt(tok, bytes, sc.pos, zero)
      BY <1>5, <2>2 DEF tok
    <3>2. ~(sc.pos + ScanLineCap - 1 <= zero)
      BY <1>1, <1>5, FileToolsAssumption
    <3> QED
      BY <3>1, <3>2 DEF NoLineAt
  <2>4. Token.ok \in BOOLEAN /\ ~Token.ok /\ Token.err = FALSE
    BY <1>5, <2>1, <2>2, <2>3 DEF tok
  <2> QED
    BY <1>1, <1>2, <1>4, <1>6, <2>4 DEF bytes, last, Finds
<1>7. CASE ~sc.eof
  <2>1. Token = Scan(bytes, sc.pos, lim)
    BY <1>3, <1>7
  <2>2. Token.ok \in BOOLEAN
    BY <1>4, <2>1
  <2>3. Finds(bytes, last)
    BY <1>4, <1>7, <2>1, Zenon DEF Finds
  <2> QED
    BY <1>1, <1>2, <1>4, <2>2, <2>3 DEF bytes, last
<1> QED
  BY <1>1, <1>6, <1>7

\* Where tail is.
LEMMA TailAtWork ==
  ASSUME FileInv, pc = "tail"
  PROVE  /\ req \in Requests /\ req.tool = "tail" /\ sc.file = 1 /\ 1 \in DOMAIN files
         /\ sc \in [file : DOMAIN files, pos : Nat \ {0}, lim : Nat, line : Nat, drop : BOOLEAN, eof : BOOLEAN]
         /\ res = NoRes /\ maxOutput \in Caps /\ count \in Nat /\ Limit \in Nat \ {0}
         /\ TailMaxScan \in Nat \ {0} /\ WindowStart \in Nat /\ Len(opened[1].bytes) \in Nat
         /\ Len(opened[1].bytes) <= Size(1) /\ Len(opened[1].bytes) <= sc.lim
         /\ WindowStart > 0 => WindowStart + TailMaxScan = Len(opened[1].bytes)
         /\ sc.lim = WindowStart + TailMaxScan /\ sc.pos - 1 <= sc.lim
<1>1. /\ req \in Requests /\ req.tool = "tail" /\ sc.file = 1
      /\ sc \in [file : DOMAIN files, pos : Nat \ {0}, lim : Nat, line : Nat, drop : BOOLEAN, eof : BOOLEAN]
      /\ res = NoRes /\ maxOutput \in Caps /\ count \in Nat
      /\ sc.lim = WindowStart + TailMaxScan /\ sc.pos - 1 <= sc.lim
  BY DEF FileInv, RequestInv, TypeOK, TailInv
<1>2. 1 \in DOMAIN files
  BY <1>1
<1>3. Limit \in Nat \ {0} /\ TailMaxScan \in Nat \ {0}
  BY <1>1, LimitType, FileToolsAssumption DEF Limit
<1>4. Len(opened[1].bytes) \in Nat /\ Len(opened[1].bytes) <= Size(1)
  BY <1>2, FileType DEF FileInv, FilesInv
<1> DEFINE d == Len(opened[1].bytes) - TailMaxScan
           w == Max({0, d})
<1>5. d \in Int /\ 0 \in Int /\ d + TailMaxScan = Len(opened[1].bytes)
  BY <1>3, <1>4
<1>6. WindowStart = w
  BY DEF WindowStart
<1> HIDE DEF d
<1>7. w \in {0, d} /\ 0 <= w /\ d <= w
  BY <1>5, MinOfTwo
<1> HIDE DEF w
<1>8. /\ WindowStart \in Nat /\ Len(opened[1].bytes) <= WindowStart + TailMaxScan
      /\ WindowStart > 0 => WindowStart + TailMaxScan = Len(opened[1].bytes)
  BY <1>3, <1>4, <1>5, <1>6, <1>7
<1> QED
  BY <1>1, <1>2, <1>3, <1>4, <1>8

\* The ring holds the last of n lines when count of them went through it.
Holds(buffer, size, c, lines, n) ==
  \A j \in 0..(c - 1) : j >= c - size => buffer[j % size] = lines[n - c + j + 1]

\* One more line in the ring.
LEMMA RingTakesLine ==
  ASSUME NEW L \in Nat \ {0}, NEW buffer, DOMAIN buffer = 0..(L - 1), NEW c \in Nat, NEW n \in Nat, c <= n,
         NEW lines, NEW more, NEW text, Holds(buffer, L, c, lines, n),
         \A k \in 1..n : more[k] = lines[k], more[n + 1] = text
  PROVE  Holds([buffer EXCEPT ![c % L] = text], L, c + 1, more, n + 1)
<1> DEFINE next == [buffer EXCEPT ![c % L] = text]
<1>1. /\ c % L \in 0..(L - 1)
      /\ \A j \in Nat : j % L \in 0..(L - 1) /\ (j < c /\ c < j + L => j % L # c % L)
  BY RingSlots
<1>2. /\ next[c % L] = text
      /\ \A i \in 0..(L - 1) : i # c % L => next[i] = buffer[i]
  BY <1>1
<1> HIDE DEF next
<1> SUFFICES ASSUME NEW j \in 0..((c + 1) - 1), j >= (c + 1) - L
             PROVE  next[j % L] = more[(n + 1) - (c + 1) + j + 1]
  BY DEF Holds, next
<1>3. CASE j = c
  <2>1. (n + 1) - (c + 1) + j + 1 = n + 1
    BY <1>3
  <2> QED
    BY <1>2, <1>3, <2>1
<1>4. CASE j # c
  <2>1. /\ j \in Nat /\ j < c /\ c < j + L /\ j \in 0..(c - 1) /\ j >= c - L
        /\ (n + 1) - (c + 1) + j + 1 = n - c + j + 1
        /\ n - c + j + 1 \in 1..n
    BY <1>4
  <2>2. j % L \in 0..(L - 1) /\ j % L # c % L
    BY <1>1, <2>1
  <2>3. next[j % L] = buffer[j % L]
    BY <1>2, <2>2
  <2>4. buffer[j % L] = lines[n - c + j + 1]
    BY <2>1 DEF Holds
  <2> QED
    BY <2>1, <2>3, <2>4
<1> QED
  BY <1>3, <1>4

\* tail puts a line into its ring, or drops the first of its window.
LEMMA TailLineStep ==
  ASSUME FileInv, TailLine
  PROVE  FileInv'
<1> DEFINE bytes == files[sc.file].bytes
           last == Min({sc.lim, Len(bytes)})
           tok == Token
<1>1. /\ pc = "tail" /\ tok.ok
      /\ sc' = [sc EXCEPT !.pos = tok.next, !.eof = tok.eof, !.drop = FALSE]
      /\ IF sc.drop THEN UNCHANGED <<ring, count>>
         ELSE ring' = [ring EXCEPT ![count % Limit] = tok.text] /\ count' = count + 1
      /\ UNCHANGED <<files, maxOutput, req, pc, buf, res, opened>>
  BY DEF TailLine
<1>2. /\ req \in Requests /\ req.tool = "tail" /\ sc.file = 1 /\ 1 \in DOMAIN files
      /\ sc \in [file : DOMAIN files, pos : Nat \ {0}, lim : Nat, line : Nat, drop : BOOLEAN, eof : BOOLEAN]
      /\ res = NoRes /\ maxOutput \in Caps /\ count \in Nat /\ Limit \in Nat \ {0}
      /\ TailMaxScan \in Nat \ {0} /\ WindowStart \in Nat /\ Len(opened[1].bytes) \in Nat
      /\ Len(opened[1].bytes) <= Size(1) /\ Len(opened[1].bytes) <= sc.lim
      /\ sc.lim = WindowStart + TailMaxScan
  BY <1>1, TailAtWork
<1>3. /\ bytes \in Seq(Bytes) /\ Len(bytes) \in Nat /\ sc.pos \in Nat \ {0}
      /\ last \in Int /\ last <= sc.lim /\ last <= Len(bytes) /\ last \in {sc.lim, Len(bytes)}
      /\ Finds(bytes, last)
  <2>1. sc.lim \in Int /\ req.tool = pc
    BY <1>1, <1>2
  <2> QED
    BY <1>1, <2>1, ScannerFinds
<1>4. Len(bytes) = Size(1) /\ bytes = files[1].bytes
  BY <1>2 DEF Size
<1> HIDE DEF bytes, last
<1>5. PICK stop : LineAt(tok, bytes, sc.pos, last, stop)
  BY <1>1, <1>3 DEF Finds
<1>6. ~sc.eof
  BY <1>1, <1>3 DEF Finds
<1> HIDE DEF tok
<1> DEFINE t == SubSeq(bytes, 1, tok.next - 1)
<1>7. /\ tok.next \in Nat \ {0} /\ tok.next - 1 <= last /\ tok.eof \in BOOLEAN
      /\ IF tok.eof THEN tok.next = last + 1 ELSE WholeLines(t)
  BY <1>3, <1>5, ScansFragment
<1>8. sc' = [file |-> 1, pos |-> tok.next, lim |-> sc.lim, line |-> sc.line, drop |-> FALSE, eof |-> tok.eof]
  BY <1>1, <1>2
<1>9. /\ sc'.file = 1 /\ sc'.pos = tok.next /\ sc'.lim = sc.lim /\ sc'.drop = FALSE /\ sc'.eof = tok.eof
      /\ Scanned' = t /\ Limit' = Limit /\ WindowStart' = WindowStart /\ Size(sc.file)' = Size(1)
  <2>1. /\ sc'.file = 1 /\ sc'.pos = tok.next /\ sc'.lim = sc.lim /\ sc'.drop = FALSE /\ sc'.eof = tok.eof
    BY <1>8
  <2> QED
    BY <1>1, <1>4, <2>1 DEF Scanned, Limit, WindowStart, Size
<1>10. ScanInv'
  <2>1. sc'.pos - 1 <= Size(sc.file)'
    BY <1>3, <1>4, <1>7, <1>9
  <2>2. CASE tok.eof
    <3>1. sc'.pos > Len(opened[1].bytes)
      BY <1>2, <1>3, <1>4, <1>7, <1>9, <2>2
    <3>2. opened'[sc'.file] = opened[1] /\ sc'.eof
      BY <1>1, <1>9, <2>2
    <3> QED
      BY <2>1, <3>1, <3>2 DEF ScanInv
  <2>3. CASE ~tok.eof
    BY <1>7, <1>9, <2>1, <2>3 DEF ScanInv
  <2> QED
    BY <2>2, <2>3
<1>11. RequestInv'
  <2>1. sc' \in [file : DOMAIN files, pos : Nat \ {0}, lim : Nat, line : Nat, drop : BOOLEAN, eof : BOOLEAN]
    <3>1. sc.lim \in Nat /\ sc.line \in Nat
      BY <1>2
    <3> QED
      BY <1>2, <1>7, <1>8, <3>1
  <2> QED
    BY <1>1, <1>2, <2>1 DEF RequestInv
<1>12. ring \in [0..(Limit - 1) -> Seq(Bytes)]
  BY <1>1 DEF FileInv, TailInv
<1>13. /\ req'.tool = "tail" /\ sc'.file = 1 /\ sc'.lim = WindowStart' + TailMaxScan /\ sc'.pos - 1 <= sc'.lim
  BY <1>1, <1>2, <1>3, <1>7, <1>9
<1> DEFINE m == Len(Lines(t))
<1>14. /\ count' \in Nat /\ ring' \in [0..(Limit - 1) -> Seq(Bytes)]
       /\ IF WindowStart = 0 THEN count' = m
          ELSE count' < m /\ LineStart(t, m - count') <= WindowStart + 1
       /\ Holds(ring', Limit, count', Lines(t), m)
  <2>1. CASE sc.drop
    <3>1. WindowStart > 0 /\ sc.pos = WindowStart + 1 /\ count = 0
      BY <1>1, <2>1 DEF FileInv, TailInv
    <3>2. m \in Nat \ {0} /\ LineStart(t, m) <= sc.pos
      BY <1>3, <1>5, ScansFragment
    <3> HIDE DEF t, m
    <3>3. count' = 0 /\ m - count' = m /\ count' < m /\ ring' = ring /\ WindowStart # 0
      BY <1>1, <1>2, <2>1, <3>1, <3>2
    <3>4. Holds(ring', Limit, count', Lines(t), m)
      BY <3>3 DEF Holds
    <3> QED
      BY <1>12, <3>1, <3>2, <3>3, <3>4
  <2>2. CASE ~sc.drop
    <3> DEFINE s == SubSeq(bytes, 1, sc.pos - 1)
               n == Len(Lines(s))
    <3>1. /\ WholeLines(s) /\ Scanned = s
          /\ IF WindowStart = 0 THEN count = n ELSE count < n /\ LineStart(s, n - count) <= WindowStart + 1
          /\ Holds(ring, Limit, count, Lines(s), n)
      <4>1. Scanned = s
        BY DEF Scanned, bytes
      <4> QED
        BY <1>1, <1>6, <2>2, <4>1 DEF FileInv, TailInv, ScanInv, Holds
    <3>2. tok.text \in Seq(Bytes) /\ OneLineMore(t, s, tok.text)
      BY <1>3, <1>5, <3>1, ScansLine
    <3> HIDE DEF s, t
    <3>3. /\ n \in Nat /\ m = n + 1
          /\ \A k \in 1..n : Lines(t)[k] = Lines(s)[k] /\ LineStart(t, k) = LineStart(s, k)
          /\ Lines(t)[n + 1] = tok.text
      BY <3>2 DEF OneLineMore
    <3> HIDE DEF n, m
    <3>4. ring' = [ring EXCEPT ![count % Limit] = tok.text] /\ count' = count + 1 /\ count <= n
      BY <1>1, <1>2, <2>2, <3>1, <3>3
    <3>5. Holds(ring', Limit, count', Lines(t), m)
      <4>1. DOMAIN ring = 0..(Limit - 1)
        BY <1>12
      <4> QED
        BY <1>2, <3>1, <3>3, <3>4, <4>1, RingTakesLine
    <3>6. ring' \in [0..(Limit - 1) -> Seq(Bytes)]
      BY <1>12, <3>2, <3>4
    <3>7. IF WindowStart = 0 THEN count' = m
          ELSE count' < m /\ LineStart(t, m - count') <= WindowStart + 1
      <4>1. WindowStart # 0 => n - count \in 1..n /\ m - count' = n - count
        BY <1>2, <3>1, <3>3, <3>4
      <4> QED
        BY <1>2, <3>1, <3>3, <3>4, <4>1
    <3> QED
      BY <1>2, <3>4, <3>5, <3>6, <3>7
  <2> QED
    BY <2>1, <2>2
<1>15. TailInv'
  BY <1>9, <1>10, <1>13, <1>14 DEF TailInv, Holds
<1>16. FilesInv' /\ ReadInv' /\ GrepInv'
  BY <1>1 DEF FileInv, FilesInv, ReadInv, GrepInv, Size
<1> QED
  BY <1>1, <1>2, <1>11, <1>14, <1>15, <1>16, FilesAtWork

\* Where a line starts.
LEMMA LineStartType ==
  ASSUME NEW T, NEW s \in Seq(T), NEW k \in 1..Len(Lines(s))
  PROVE  LineStart(s, k) \in Nat \ {0}
<1> DEFINE S == Stops(s)
           n == Cardinality(S)
<1>1. S \in SUBSET Int /\ IsFiniteSet(S) /\ n \in Nat /\ Len(Lines(s)) = n /\ S \subseteq 1..(Len(s) + 1)
  BY StopsOf
<1>2. \A j \in 1..n : Nth(S, j) \in 1..(Len(s) + 1)
  BY <1>1, NthOf
<1>3. k \in 1..n
  BY <1>1
<1> HIDE DEF n
<1>4. k # 1 => k - 1 \in 1..n
  BY <1>1, <1>3
<1> QED
  BY <1>2, <1>3, <1>4 DEF LineStart

\* Lines and their newlines are text.
LEMMA TextType ==
  ASSUME NEW lines \in Seq(Seq(Bytes))
  PROVE  Text(lines) \in Seq(Bytes \cup {NL})
<1> DEFINE T == Bytes \cup {NL}
           n == Len(lines)
           ended == [i \in 1..n |-> Append(lines[i], NL)]
<1>1. n \in Nat /\ \A i \in 1..n : lines[i] \in Seq(Bytes)
  OBVIOUS
<1>2. \A i \in 1..n : Append(lines[i], NL) \in Seq(T)
  BY <1>1
<1>3. Text(lines) = FlattenSeq(ended)
  BY DEF Text
<1> HIDE DEF n, T
<1>4. ended \in Seq(Seq(T))
  BY <1>1, <1>2
<1> HIDE DEF ended
<1>5. FlattenSeq(ended) \in Seq(T)
  BY <1>4, FlattenType
<1> QED
  BY <1>3, <1>5 DEF T

\* What the ring holds are the last lines.
LEMMA RingIsLastLines ==
  ASSUME NEW lines \in Seq(Seq(Bytes)), Limit \in Nat \ {0}, count \in Nat, count <= Len(lines),
         Holds(ring, Limit, count, lines, Len(lines))
  PROVE  LET n == Min({count, Limit})
         IN  /\ n \in 0..Limit /\ n <= count /\ n \in {count, Limit}
             /\ RingLines = LastLines(lines, n) /\ RingLines \in Seq(Seq(Bytes))
<1> DEFINE n == Min({count, Limit})
           N == Len(lines)
           T == Seq(Bytes)
<1>1. n \in {count, Limit} /\ n <= count /\ n <= Limit
  <2>1. count \in Int /\ Limit \in Int
    OBVIOUS
  <2> QED
    BY <2>1, MinOfTwo
<1>2. RingLines = [i \in 1..n |-> ring[(count - n + i - 1) % Limit]]
  BY DEF RingLines
<1>3. N \in Nat /\ lines \in Seq(T) /\ count <= N
  OBVIOUS
<1> HIDE DEF n, N, T
<1>4. n \in Nat /\ n <= N
  BY <1>1, <1>3
<1> DEFINE tail == LastLines(lines, n)
<1>5. /\ tail \in Seq(T) /\ Len(tail) = n
      /\ \A i \in 1..n : tail[i] = lines[N - n + i]
  <2> DEFINE a == N - n + 1
  <2>1. a \in Nat \ {0} /\ N \in Int /\ N - a + 1 = n
    BY <1>3, <1>4
  <2>2. N <= Len(lines) /\ tail = SubSeq(lines, a, N)
    BY <1>3 DEF N, LastLines
  <2>3. \A i \in 1..n : a + i - 1 = N - n + i
    BY <1>3, <1>4
  <2> HIDE DEF a, tail
  <2>4. /\ tail \in Seq(T) /\ Len(tail) = (IF a <= N THEN N - a + 1 ELSE 0)
        /\ \A i \in 1..(N - a + 1) : tail[i] = lines[a + i - 1]
    BY <1>3, <2>1, <2>2, PartOf
  <2>5. Len(tail) = n
    BY <1>3, <1>4, <2>1, <2>4
  <2> QED
    BY <2>1, <2>3, <2>4, <2>5
<1>6. ASSUME NEW i \in 1..n PROVE ring[(count - n + i - 1) % Limit] = tail[i]
  <2> DEFINE j == count - n + i - 1
  <2>1. j \in 0..(count - 1) /\ j >= count - Limit /\ N - count + j + 1 = N - n + i
    BY <1>1, <1>3, <1>4
  <2> HIDE DEF j
  <2>2. ring[j % Limit] = lines[N - count + j + 1]
    BY <2>1 DEF Holds, N
  <2> QED
    BY <1>5, <2>1, <2>2 DEF j
<1> HIDE DEF tail
<1>7. RingLines = [i \in 1..n |-> tail[i]]
  BY <1>2, <1>6
<1>8. tail = [i \in 1..n |-> tail[i]]
  BY <1>5
<1>9. RingLines = tail /\ RingLines \in Seq(T)
  BY <1>5, <1>7, <1>8
<1>10. n \in 0..Limit
  BY <1>1, <1>4
<1> QED
  BY <1>1, <1>9, <1>10 DEF n, tail, T

\* tail has read its window.
LEMMA TailEndsStep ==
  ASSUME FileInv, TailEnds
  PROVE  FileInv'
<1> DEFINE bytes == files[sc.file].bytes
           last == Min({sc.lim, Len(bytes)})
           before == Len(opened[1].bytes)
<1>1. /\ pc = "tail" /\ ~Token.ok
      /\ IF Token.err THEN Return(Failed("token too long")) ELSE ReturnOutput(Text(RingLines), FALSE)
  BY DEF TailEnds
<1>2. /\ req \in Requests /\ req.tool = "tail" /\ sc.file = 1 /\ 1 \in DOMAIN files
      /\ sc \in [file : DOMAIN files, pos : Nat \ {0}, lim : Nat, line : Nat, drop : BOOLEAN, eof : BOOLEAN]
      /\ maxOutput \in Caps /\ count \in Nat /\ Limit \in Nat \ {0}
      /\ TailMaxScan \in Nat \ {0} /\ WindowStart \in Nat /\ before \in Nat
      /\ before <= Size(1) /\ before <= sc.lim
      /\ WindowStart > 0 => WindowStart + TailMaxScan = before
      /\ sc.lim = WindowStart + TailMaxScan /\ sc.pos - 1 <= sc.lim
  BY <1>1, TailAtWork
<1>3. CASE Token.err
  <2> DEFINE r == Failed("token too long")
  <2>1. Return(r) /\ pc # "idle"
    BY <1>1, <1>3
  <2>2. r.truncated = FALSE /\ r.out = <<>> /\ r.err # "none"
    BY DEF Failed, NoRes
  <2> HIDE DEF r
  <2>3. r.truncated \in BOOLEAN /\ (maxOutput >= 0 => Len(r.out) <= maxOutput)
    BY <1>2, <2>2, FileToolsAssumption
  <2> QED
    BY <2>1, <2>2, <2>3, FilesReturned
<1>4. CASE ~Token.err
  <2>1. /\ bytes \in Seq(Bytes) /\ Len(bytes) \in Nat
        /\ last \in Int /\ last \in {sc.lim, Len(bytes)}
        /\ Finds(bytes, last)
    <3>1. sc.lim \in Int
      BY <1>2
    <3>2. pc \in {"tail", "grep"} /\ req.tool = pc
      BY <1>1, <1>2, Zenon
    <3> QED
      BY <1>1, <3>1, <3>2, ScannerFinds
  <2>2. Len(bytes) = Size(1) /\ bytes = files[1].bytes
    BY <1>2 DEF Size
  <2> HIDE DEF bytes, last, before
  <2>3. sc.eof \/ sc.pos > last
    BY <1>1, <1>4, <2>1 DEF Finds, NoLineAt
  <2>4. before <= last
    BY <1>2, <2>1, <2>2
  <2>5. ~sc.drop
    <3>1. ASSUME sc.drop PROVE FALSE
      <4>1. WindowStart > 0 /\ sc.pos = WindowStart + 1 /\ ~sc.eof
        BY <1>1, <3>1 DEF FileInv, TailInv
      <4>2. sc.pos <= before
        BY <1>2, <4>1
      <4> QED
        BY <1>2, <2>1, <2>3, <2>4, <4>1, <4>2
    <3> QED
      BY <3>1
  <2> DEFINE s == SubSeq(bytes, 1, sc.pos - 1)
             lines == Lines(s)
             N == Len(lines)
             n == Min({count, Limit})
  <2>6. /\ sc.pos - 1 <= Size(1) /\ (sc.eof => sc.pos > before)
        /\ IF WindowStart = 0 THEN count = N
           ELSE count < N /\ LineStart(s, N - count) <= WindowStart + 1
        /\ Holds(ring, Limit, count, lines, N)
    <3>1. Scanned = s
      BY DEF Scanned, bytes
    <3>2. ScanInv
      BY <1>1, <2>5 DEF FileInv, TailInv
    <3> QED
      BY <1>1, <1>2, <2>5, <3>1, <3>2 DEF FileInv, TailInv, ScanInv, Holds, before
  <2>7. sc.pos - 1 \in before..Size(1) /\ sc.pos - 1 \in 0..Len(bytes) /\ sc.pos \in Nat \ {0}
    BY <1>2, <2>1, <2>2, <2>3, <2>4, <2>6
  <2>8. s \in Seen(1)
    BY <1>2, <2>2, <2>7 DEF Seen, before, Size
  <2>9. s \in Seq(Bytes) /\ Len(s) = sc.pos - 1
    BY <2>1, <2>7, Beginning
  <2> HIDE DEF s
  <2>10. N \in Nat /\ DOMAIN lines = 1..N
    BY <2>9, StopsOf
  <2>11. lines \in Seq(Seq(Bytes))
    <3>1. \A k \in 1..N : lines[k] \in Seq(Bytes)
      BY <2>9, LinesType
    <3>2. lines = [k \in 1..N |-> lines[k]]
      BY <2>10 DEF Lines
    <3> HIDE DEF lines, N
    <3> QED
      BY <2>10, <3>1, <3>2
  <2> HIDE DEF lines
  <2>12. count <= N
    <3> HIDE DEF N
    <3>1. count \in Nat
      BY <1>2
    <3>2. count = N \/ count < N
      BY <2>6, Zenon
    <3> QED
      BY <2>10, <3>1, <3>2
  <2>13. /\ n \in 0..Limit /\ n <= count /\ n \in {count, Limit}
         /\ RingLines = LastLines(lines, n) /\ RingLines \in Seq(Seq(Bytes))
    BY <1>2, <2>6, <2>11, <2>12, RingIsLastLines
  <2> HIDE DEF n, N
  <2>14. n = Min({Limit, N}) \/ ~InWindow(s, n + 1)
    <3> DEFINE M == Min({Limit, N})
    <3>1. M \in {Limit, N} /\ M <= Limit /\ M <= N
      <4>1. Limit \in Int /\ N \in Int
        BY <1>2, <2>10
      <4> QED
        BY <4>1, MinOfTwo
    <3> HIDE DEF M
    <3>2. CASE WindowStart = 0 \/ n = Limit
      BY <1>2, <2>6, <2>10, <2>12, <2>13, <3>1, <3>2 DEF M
    <3>3. CASE WindowStart # 0 /\ n # Limit
      <4>1. n = count /\ N - count \in 1..N /\ N - (n + 1) + 1 = N - count
        BY <1>2, <2>6, <2>10, <2>13, <3>3
      <4>2. LineStart(s, N - count) \in Nat
        BY <2>9, <4>1, LineStartType DEF N, lines
      <4>3. Len(s) - TailMaxScan = WindowStart
        BY <1>2, <2>7, <2>9, <3>3
      <4>4. ~(LineStart(s, N - count) - 1 > WindowStart)
        BY <1>2, <2>6, <3>3, <4>2
      <4> QED
        BY <4>1, <4>3, <4>4 DEF InWindow, N, lines
    <3> QED
      BY <3>2, <3>3
  <2> DEFINE out == Text(RingLines)
  <2>15. out \in Seq(Bytes \cup {NL}) /\ ReturnOutput(out, FALSE)
    BY <1>1, <1>4, <2>13, TextType
  <2>16. UNCHANGED <<files, opened, req>>
    BY <2>15 DEF ReturnOutput, Return
  <2>17. ASSUME res'.out = out PROVE TailSuffix'
    <3>1. Seen(1)' = Seen(1) /\ Limit' = Limit
      BY <2>16 DEF Seen, Limit, Size
    <3>2. /\ n <= Len(Lines(s)) /\ res'.out = Text(LastLines(Lines(s), n))
          /\ n = Min({Limit, Len(Lines(s))}) \/ ~InWindow(s, n + 1)
      BY <1>2, <2>10, <2>12, <2>13, <2>14, <2>17 DEF lines, N
    <3> QED
      BY <2>8, <2>13, <3>1, <3>2 DEF TailSuffix
  <2>18. GrepComplete'
    BY <1>2, <2>16 DEF GrepComplete, Done
  <2>19. /\ pc \in {"tail", "grep"} /\ req.tool \in {"tail", "grep"}
         /\ out = IF req.tool = "tail" THEN Text(RingLines) ELSE buf
    BY <1>1, <1>2
  <2> HIDE DEF out
  <2> QED
    BY <2>15, <2>17, <2>18, <2>19, OutputReturned
<1> QED
  BY <1>3, <1>4

\* Where grep is.
LEMMA GrepAtWork ==
  ASSUME FileInv, pc = "grep"
  PROVE  /\ req \in Requests /\ req.tool = "grep" /\ (~req.dir => sc.file = 1) /\ req.dir \in BOOLEAN
         /\ sc \in [file : DOMAIN files, pos : Nat \ {0}, lim : Nat, line : Nat, drop : BOOLEAN, eof : BOOLEAN]
         /\ sc.file \in 1..Len(files) /\ DOMAIN files = 1..Len(files) /\ Len(files) \in Nat
         /\ res = NoRes /\ maxOutput \in Caps /\ count \in Nat
         /\ files[sc.file].bytes \in Seq(Bytes) /\ Size(sc.file) \in Nat
         /\ Size(sc.file) = Len(files[sc.file].bytes)
         /\ sc.pos - 1 \in 0..Size(sc.file) /\ Scanned \in Seq(Bytes)
         /\ buf \in Seq(ToSet(buf)) /\ sc.line = Len(Lines(Scanned)) /\ ScanInv
<1>1. /\ req \in Requests /\ req.tool = "grep" /\ (~req.dir => sc.file = 1)
      /\ sc \in [file : DOMAIN files, pos : Nat \ {0}, lim : Nat, line : Nat, drop : BOOLEAN, eof : BOOLEAN]
      /\ res = NoRes /\ maxOutput \in Caps /\ count \in Nat
      /\ buf \in Seq(ToSet(buf)) /\ sc.line = Len(Lines(Scanned)) /\ ScanInv
  BY DEF FileInv, RequestInv, TypeOK, GrepInv
<1>2. /\ sc.file \in DOMAIN files /\ files[sc.file].bytes \in Seq(Bytes) /\ Size(sc.file) \in Nat
      /\ DOMAIN files = 1..Len(files) /\ Len(files) \in Nat
  <2>1. sc.file \in DOMAIN files
    BY <1>1
  <2> QED
    BY <2>1, FileType DEF FileInv
<1>3. sc.pos - 1 \in 0..Size(sc.file)
  <2>1. sc.pos - 1 <= Size(sc.file) /\ sc.pos \in Nat \ {0}
    BY <1>1 DEF ScanInv
  <2> QED
    BY <1>2, <2>1
<1>4. Scanned \in Seq(Bytes)
  BY <1>2, <1>3, Beginning DEF Scanned, Size
<1>5. req.dir \in BOOLEAN
  BY <1>1, FileToolsAssumption
<1> QED
  BY <1>1, <1>2, <1>3, <1>4, <1>5 DEF Size

\* Output that was made of parts of the files is so after a step in which they only grow.
LEMMA PrintedStays ==
  ASSUME NEW text, NEW n, PrintedOf(text, n), \A f \in 1..n : Part(f) \subseteq Part(f)'
  PROVE  PrintedOf(text, n)'
<1>1. PICK parts \in [1..n -> UNION {Part(f) : f \in 1..n}] :
        (\A f \in 1..n : parts[f] \in Part(f)) /\ text = FlattenSeq(parts)
  BY DEF PrintedOf
<1>2. \A f \in 1..n : parts[f] \in Part(f)'
  BY <1>1
<1>3. parts \in [1..n -> UNION {Part(f)' : f \in 1..n}]
  BY <1>2
<1> QED
  BY <1>1, <1>2, <1>3 DEF PrintedOf

\* What grep prints of a file is output.
LEMMA PartType ==
  ASSUME FilesInv, NEW f \in DOMAIN files
  PROVE  Part(f) \subseteq Seq(Printed)
<1>1. /\ files[f].bytes \in Seq(Bytes) /\ Size(f) \in Nat /\ DOMAIN files = 1..Len(files)
      /\ Len(files) \in Nat
  BY FileType
<1>2. f \in Nat /\ Len(opened[f].bytes) \in 0..Size(f) /\ Size(f) = Len(files[f].bytes)
  BY <1>1 DEF FilesInv, Size
<1>3. ASSUME NEW s \in Seen(f) PROVE GrepReference(f, s) \in Seq(Printed)
  <2>1. PICK k \in Len(opened[f].bytes)..Size(f) : s = SubSeq(files[f].bytes, 1, k)
    BY <1>3 DEF Seen
  <2>2. k \in 0..Len(files[f].bytes)
    BY <1>1, <1>2
  <2>3. s \in Seq(Bytes)
    BY <1>1, <2>1, <2>2, Beginning
  <2> QED
    BY <1>2, <2>3, ReferenceType
<1>4. <<>> \in Seq(Printed)
  OBVIOUS
<1> QED
  BY <1>3, <1>4 DEF Part

\* Output of n files and of one more.
LEMMA PrintedOneMore ==
  ASSUME FilesInv, NEW n \in Nat, n + 1 \in DOMAIN files, NEW text, PrintedOf(text, n),
         NEW e \in Part(n + 1)
  PROVE  PrintedOf(text \o e, n + 1)
<1>1. PICK parts \in [1..n -> UNION {Part(f) : f \in 1..n}] :
        (\A f \in 1..n : parts[f] \in Part(f)) /\ text = FlattenSeq(parts)
  BY DEF PrintedOf
<1>2. DOMAIN files = 1..Len(files) /\ Len(files) \in Nat
  BY FileType
<1>3. /\ \A f \in 1..n : f \in DOMAIN files /\ f \in 1..(n + 1)
      /\ \A f \in 1..(n + 1) : f \in 1..n \/ f = n + 1
      /\ n + 1 \in 1..(n + 1)
  BY <1>2
<1>4. \A f \in 1..n : parts[f] \in Seq(Printed)
  BY <1>1, <1>3, PartType
<1>5. e \in Seq(Printed)
  BY PartType
<1>6. parts \in Seq(Seq(Printed)) /\ Len(parts) = n
  <2>1. parts = [f \in 1..n |-> parts[f]]
    OBVIOUS
  <2> QED
    BY <1>4, <2>1
<1> DEFINE more == Append(parts, e)
<1>7. /\ FlattenSeq(more) = text \o e
  BY <1>1, <1>5, <1>6, FlattenAppend
<1>8. /\ more \in Seq(Seq(Printed)) /\ Len(more) = n + 1 /\ more[n + 1] = e
      /\ \A f \in 1..n : more[f] = parts[f]
  BY <1>5, <1>6
<1> HIDE DEF more
<1>9. \A f \in 1..(n + 1) : more[f] \in Part(f)
  BY <1>1, <1>3, <1>8
<1>10. more \in [1..(n + 1) -> UNION {Part(f) : f \in 1..(n + 1)}]
  <2>1. DOMAIN more = 1..(n + 1) /\ more = [f \in 1..(n + 1) |-> more[f]]
    BY <1>8
  <2>2. \A f \in 1..(n + 1) : more[f] \in UNION {Part(g) : g \in 1..(n + 1)}
    BY <1>9
  <2> QED
    BY <2>1, <2>2
<1> QED
  BY <1>7, <1>9, <1>10 DEF PrintedOf

\* A sequence is one of its elements.
LEMMA SeqOfItself ==
  ASSUME NEW T, NEW s \in Seq(T)
  PROVE  s \in Seq(ToSet(s))
<1>1. Len(s) \in Nat /\ s = [i \in 1..Len(s) |-> s[i]]
  OBVIOUS
<1>2. \A i \in 1..Len(s) : s[i] \in ToSet(s)
  BY DEF ToSet
<1> QED
  BY <1>1, <1>2

\* The end of a sequence grows with it.
LEMMA EndGrows ==
  ASSUME NEW T, NEW s \in Seq(T), NEW t \in Seq(T), NEW k \in 0..Len(s)
  PROVE  /\ s = SubSeq(s, 1, k) \o SubSeq(s, k + 1, Len(s))
         /\ SubSeq(s \o t, k + 1, Len(s \o t)) = SubSeq(s, k + 1, Len(s)) \o t
<1> DEFINE n == Len(s)
           m == Len(t)
           a == SubSeq(s, 1, k)
           b == SubSeq(s, k + 1, n)
           u == s \o t
           c == SubSeq(u, k + 1, Len(u))
           v == a \o b
           w == b \o t
<1>1. n \in Nat /\ m \in Nat /\ k \in Nat /\ k <= n
  OBVIOUS
<1>2. a \in Seq(T) /\ Len(a) = k /\ \A i \in 1..k : a[i] = s[i]
  BY Beginning
<1>3. b \in Seq(T) /\ Len(b) = n - k /\ \A i \in 1..(n - k) : b[i] = s[k + i]
  <2>1. k + 1 \in Nat \ {0} /\ n \in Int /\ n <= Len(s)
    OBVIOUS
  <2>2. /\ b \in Seq(T) /\ Len(b) = (IF k + 1 <= n THEN n - (k + 1) + 1 ELSE 0)
        /\ \A i \in 1..(n - (k + 1) + 1) : b[i] = s[(k + 1) + i - 1]
    BY <2>1, PartOf
  <2> HIDE DEF b, n
  <2>3. /\ (IF k + 1 <= n THEN n - (k + 1) + 1 ELSE 0) = n - k /\ n - (k + 1) + 1 = n - k
        /\ \A i \in 1..(n - k) : (k + 1) + i - 1 = k + i
    BY <1>1
  <2> QED
    BY <2>2, <2>3
<1>4. /\ u \in Seq(T) /\ Len(u) = n + m
      /\ \A i \in 1..n : u[i] = s[i]
      /\ \A i \in 1..m : u[n + i] = t[i]
  OBVIOUS
<1> HIDE DEF u
<1>5. c \in Seq(T) /\ Len(c) = n + m - k /\ \A i \in 1..(n + m - k) : c[i] = u[k + i]
  <2> DEFINE l == Len(u)
  <2>1. k + 1 \in Nat \ {0} /\ l \in Int /\ l <= Len(u) /\ l = n + m
    BY <1>4
  <2>2. /\ c \in Seq(T) /\ Len(c) = (IF k + 1 <= l THEN l - (k + 1) + 1 ELSE 0)
        /\ \A i \in 1..(l - (k + 1) + 1) : c[i] = u[(k + 1) + i - 1]
    BY <1>4, <2>1, PartOf
  <2> HIDE DEF c, l, n, m
  <2>3. /\ (IF k + 1 <= l THEN l - (k + 1) + 1 ELSE 0) = n + m - k /\ l - (k + 1) + 1 = n + m - k
        /\ \A i \in 1..(n + m - k) : (k + 1) + i - 1 = k + i
    BY <1>1, <2>1
  <2> QED
    BY <2>2, <2>3
<1> HIDE DEF a, b, c
<1>6. /\ v \in Seq(T) /\ Len(v) = k + (n - k)
      /\ \A i \in 1..k : v[i] = a[i]
      /\ \A i \in 1..(n - k) : v[k + i] = b[i]
  BY <1>2, <1>3
<1>7. /\ w \in Seq(T) /\ Len(w) = (n - k) + m
      /\ \A i \in 1..(n - k) : w[i] = b[i]
      /\ \A i \in 1..m : w[(n - k) + i] = t[i]
  BY <1>3
<1> HIDE DEF v, w, n, m
<1>8. s = v
  <2>1. Len(v) = n
    BY <1>1, <1>6
  <2>2. ASSUME NEW i \in 1..n PROVE s[i] = v[i]
    <3>1. CASE i <= k
      <4>1. i \in 1..k
        BY <1>1, <3>1
      <4> QED
        BY <1>2, <1>6, <4>1
    <3>2. CASE ~(i <= k)
      <4>1. i - k \in 1..(n - k) /\ k + (i - k) = i
        BY <1>1, <3>2
      <4> QED
        BY <1>3, <1>6, <4>1
    <3> QED
      BY <3>1, <3>2
  <2> QED
    BY <1>6, <2>1, <2>2, SeqEqual DEF n
<1>9. c = w
  <2>1. Len(c) = Len(w) /\ Len(c) = n + m - k
    BY <1>1, <1>5, <1>7
  <2>2. ASSUME NEW i \in 1..(n + m - k) PROVE c[i] = w[i]
    <3>1. c[i] = u[k + i]
      BY <1>5
    <3>2. CASE i <= n - k
      <4>1. i \in 1..(n - k) /\ k + i \in 1..n
        BY <1>1, <3>2
      <4> QED
        BY <1>3, <1>4, <1>7, <3>1, <4>1
    <3>3. CASE ~(i <= n - k)
      <4>1. i - (n - k) \in 1..m /\ n + (i - (n - k)) = k + i /\ (n - k) + (i - (n - k)) = i
        BY <1>1, <3>3
      <4> QED
        BY <1>4, <1>7, <3>1, <4>1
    <3> QED
      BY <3>2, <3>3
  <2> QED
    BY <1>5, <1>7, <2>1, <2>2, SeqEqual
<1> QED
  BY <1>8, <1>9 DEF a, b, c, u, v, w, n

\* The parts of the files are the same while the files are.
LEMMA SameParts ==
  ASSUME UNCHANGED <<files, opened, req>>
  PROVE  /\ \A f : Part(f)' = Part(f)
         /\ \A f, s : GrepReference(f, s)' = GrepReference(f, s)
<1>1. \A f, s : GrepReference(f, s)' = GrepReference(f, s)
  BY DEF GrepReference, Matches
<1>2. \A f : Seen(f)' = Seen(f)
  BY DEF Seen, Size
<1> QED
  BY <1>1, <1>2 DEF Part

\* What grep writes of a line.
Written(text) == IF Matches(text) THEN MatchLine(sc.file, sc.line + 1, text) ELSE <<>>

\* grep has looked at a line.
LEMMA GrepLineStep ==
  ASSUME FileInv, pc = "grep", AtLine, buf' = buf \o Written(Token.text), count' \in Nat,
         sc' = [sc EXCEPT !.pos = Token.next, !.eof = Token.eof, !.line = @ + 1],
         UNCHANGED <<files, maxOutput, req, pc, ring, res, opened>>
  PROVE  FileInv'
<1> DEFINE f == sc.file
           bytes == files[sc.file].bytes
           last == Min({Size(f), Len(bytes)})
           tok == Token
           s == SubSeq(bytes, 1, sc.pos - 1)
           t == SubSeq(bytes, 1, tok.next - 1)
<1>1. /\ req \in Requests /\ req.tool = "grep" /\ (~req.dir => sc.file = 1)
      /\ sc \in [file : DOMAIN files, pos : Nat \ {0}, lim : Nat, line : Nat, drop : BOOLEAN, eof : BOOLEAN]
      /\ sc.file \in 1..Len(files) /\ DOMAIN files = 1..Len(files) /\ Len(files) \in Nat
      /\ res = NoRes /\ maxOutput \in Caps /\ Size(f) \in Nat /\ Size(f) = Len(bytes)
      /\ sc.pos - 1 \in 0..Size(f) /\ Scanned \in Seq(Bytes)
      /\ buf \in Seq(ToSet(buf)) /\ sc.line = Len(Lines(Scanned)) /\ ScanInv
  BY GrepAtWork
<1>2. /\ bytes \in Seq(Bytes) /\ Len(bytes) \in Nat /\ sc.pos \in Nat \ {0}
      /\ last \in Int /\ last <= Len(bytes) /\ last \in {Size(f), Len(bytes)}
      /\ Finds(bytes, last)
  <2>1. Size(f) \in Int /\ req.tool = pc /\ Size(f) = IF pc = "tail" THEN sc.lim ELSE Size(sc.file)
    BY <1>1
  <2> QED
    BY <2>1, ScannerFinds
<1>3. Scanned = s
  BY DEF Scanned
<1> HIDE DEF bytes, last
<1>4. PICK stop : LineAt(tok, bytes, sc.pos, last, stop)
  BY <1>2 DEF Finds, AtLine
<1>5. ~sc.eof
  BY <1>2 DEF Finds, AtLine
<1>6. WholeLines(s)
  BY <1>1, <1>3, <1>5 DEF ScanInv
<1> HIDE DEF tok
<1>7. /\ tok.next \in Nat \ {0} /\ tok.next - 1 <= last /\ tok.eof \in BOOLEAN /\ tok.text \in Seq(Bytes)
      /\ OneLineMore(t, s, tok.text)
      /\ IF tok.eof THEN tok.next = last + 1 ELSE WholeLines(t)
  BY <1>2, <1>4, <1>6, ScansLine
<1>8. sc' = [file |-> sc.file, pos |-> tok.next, lim |-> sc.lim, line |-> sc.line + 1,
             drop |-> sc.drop, eof |-> tok.eof]
  BY <1>1 DEF tok
<1>9. /\ sc'.file = f /\ sc'.pos = tok.next /\ sc'.eof = tok.eof /\ sc'.line = sc.line + 1
      /\ Scanned' = t /\ Size(sc.file)' = Size(f)
  <2>1. sc'.file = f /\ sc'.pos = tok.next /\ sc'.eof = tok.eof /\ sc'.line = sc.line + 1
    BY <1>1 DEF tok
  <2> QED
    BY <2>1 DEF Scanned, Size, bytes
<1>10. t \in Seq(Bytes)
  <2>1. tok.next - 1 \in 0..Len(bytes)
    BY <1>2, <1>7
  <2> QED
    BY <1>2, <2>1, Beginning
<1> HIDE DEF s, t, f
<1>11. Len(Lines(t)) = sc.line + 1 /\ sc.line \in Nat
  BY <1>1, <1>3, <1>7 DEF OneLineMore
<1>12. ScanInv'
  <2>1. sc'.pos - 1 <= Size(sc.file)'
    BY <1>1, <1>2, <1>7, <1>9
  <2>2. CASE tok.eof
    <3>1. opened'[sc'.file] = opened[f] /\ sc'.eof
      BY <1>9, <2>2
    <3>2. Len(opened[f].bytes) \in 0..Size(f)
      BY <1>1 DEF FileInv, FilesInv, f
    <3>3. last = Size(f) /\ sc'.pos = last + 1 /\ Size(f) \in Nat
      BY <1>1, <1>2, <1>7, <1>9, <2>2, Zenon
    <3>4. sc'.pos > Len(opened[f].bytes)
      BY <3>2, <3>3
    <3> QED
      BY <2>1, <3>1, <3>4 DEF ScanInv
  <2>3. CASE ~tok.eof
    BY <1>7, <1>9, <2>1, <2>3 DEF ScanInv
  <2> QED
    BY <2>2, <2>3
<1>13. RequestInv'
  <2>1. sc' \in [file : DOMAIN files, pos : Nat \ {0}, lim : Nat, line : Nat, drop : BOOLEAN, eof : BOOLEAN]
    <3>1. sc.lim \in Nat /\ sc.line + 1 \in Nat /\ sc.drop \in BOOLEAN /\ sc.file \in DOMAIN files
      BY <1>1, <1>11
    <3> QED
      BY <1>7, <1>8, <3>1
  <2> QED
    BY <1>1, <2>1 DEF RequestInv
<1> DEFINE x == Written(tok.text)
           U == ToSet(buf) \cup Printed
<1>14. f \in Nat /\ f \in DOMAIN files
  BY <1>1 DEF f
<1>15. x \in Seq(Printed)
  <2>1. sc.line + 1 \in Nat
    BY <1>11
  <2>2. MatchLine(f, sc.line + 1, tok.text) \in Seq(Printed)
    BY <1>7, <1>14, <2>1, MatchLineType
  <2> QED
    BY <2>2 DEF Written, f
<1>16. buf \in Seq(U) /\ x \in Seq(U) /\ buf' = buf \o x
  <2>1. buf' = buf \o x
    BY DEF tok
  <2>2. ToSet(buf) \subseteq U /\ Printed \subseteq U
    OBVIOUS
  <2> HIDE DEF x, U
  <2> QED
    BY <1>1, <1>15, <2>1, <2>2
<1>17. GrepReference(f, t) = GrepReference(f, s) \o x
  <2>1. s \in Seq(Bytes)
    BY <1>1, <1>3
  <2>2. GrepReference(f, t) =
          GrepReference(f, s) \o
             (IF Matches(tok.text) THEN MatchLine(f, Len(Lines(s)) + 1, tok.text) ELSE <<>>)
    BY <1>7, <1>10, <1>14, <2>1, ReferenceGrows
  <2> QED
    BY <1>1, <1>3, <2>2 DEF Written, f
<1> HIDE DEF x, U
<1>18. buf' \in Seq(ToSet(buf'))
  <2>1. buf \o x \in Seq(U)
    BY <1>16
  <2> QED
    BY <1>16, <2>1, SeqOfItself
<1>19. ASSUME PrintedSoFar PROVE PrintedSoFar'
  <2>1. PICK k \in 0..Len(buf) : /\ PrintedOf(SubSeq(buf, 1, k), f - 1)
                                 /\ SubSeq(buf, k + 1, Len(buf)) = GrepReference(f, s)
    BY <1>3, <1>19 DEF PrintedSoFar, f
  <2> DEFINE text == SubSeq(buf, 1, k)
             n == f - 1
  <2>2. SubSeq(buf', 1, k) = text /\ Len(buf') = Len(buf) + Len(x)
    BY <1>16, BeginningStays
  <2>3. SubSeq(buf', k + 1, Len(buf')) = GrepReference(f, t)
    <3>1. SubSeq(buf \o x, k + 1, Len(buf \o x)) = SubSeq(buf, k + 1, Len(buf)) \o x
      BY <1>16, EndGrows
    <3> QED
      BY <1>16, <1>17, <2>1, <3>1
  <2>4. k \in 0..Len(buf')
    <3>1. Len(buf) \in Nat /\ Len(x) \in Nat
      BY <1>16
    <3> QED
      BY <2>2, <3>1
  <2>5. GrepReference(sc.file, Scanned)' = GrepReference(f, t)
    <3>1. \A g, u : GrepReference(g, u)' = GrepReference(g, u)
      BY SameParts
    <3> QED
      BY <1>9, <3>1
  <2> HIDE DEF text, n
  <2>6. \A g \in 1..n : Part(g) \subseteq Part(g)'
    BY SameParts
  <2>7. PrintedOf(text, n)
    BY <2>1 DEF text, n
  <2>8. \E parts \in [1..n -> UNION {Part(g)' : g \in 1..n}] :
          (\A g \in 1..n : parts[g] \in Part(g)') /\ text = FlattenSeq(parts)
    BY <2>6, <2>7, PrintedStays DEF PrintedOf
  <2>9. n = sc'.file - 1
    BY <1>9 DEF n
  <2>10. PrintedOf(SubSeq(buf, 1, k), sc.file - 1)'
    BY <2>2, <2>8, <2>9 DEF PrintedOf
  <2> QED
    BY <2>3, <2>4, <2>5, <2>10 DEF PrintedSoFar
<1>20. GrepInv'
  <2>1. PrintedSoFar \/ \E g \in 1..(sc.file - 1) : ~Scannable(files[g].bytes)
    BY DEF FileInv, GrepInv
  <2>2. PrintedSoFar' \/ \E g \in 1..(sc'.file - 1) : ~Scannable(files'[g].bytes)
    BY <1>9, <1>19, <2>1 DEF f
  <2>3. files'[sc'.file].kind = "regular"
    BY <1>9 DEF AtLine, f
  <2> QED
    BY <1>1, <1>9, <1>11, <1>12, <1>18, <2>2, <2>3 DEF GrepInv, f
<1>21. FilesInv' /\ ReadInv' /\ TailInv'
  BY DEF FileInv, FilesInv, ReadInv, TailInv, Size
<1> QED
  BY <1>1, <1>13, <1>20, <1>21, FilesAtWork

\* grep writes a matching line.
LEMMA GrepMatchStep ==
  ASSUME FileInv, GrepMatch
  PROVE  FileInv'
<1>1. /\ pc = "grep" /\ AtLine /\ Matches(Token.text)
      /\ buf' = buf \o MatchLine(sc.file, sc.line + 1, Token.text)
      /\ count' = count + 1
      /\ sc' = [sc EXCEPT !.pos = Token.next, !.eof = Token.eof, !.line = @ + 1]
      /\ UNCHANGED <<files, maxOutput, req, pc, ring, res, opened>>
  BY DEF GrepMatch
<1>2. count' \in Nat
  BY <1>1 DEF FileInv, TypeOK
<1>3. buf' = buf \o Written(Token.text)
  BY <1>1 DEF Written
<1> QED
  BY <1>1, <1>2, <1>3, GrepLineStep

\* grep passes over another line.
LEMMA GrepSkipsLineStep ==
  ASSUME FileInv, GrepSkipsLine
  PROVE  FileInv'
<1>1. /\ pc = "grep" /\ AtLine /\ ~Matches(Token.text) /\ buf' = buf /\ count' = count
      /\ sc' = [sc EXCEPT !.pos = Token.next, !.eof = Token.eof, !.line = @ + 1]
      /\ UNCHANGED <<files, maxOutput, req, pc, ring, res, opened>>
  BY DEF GrepSkipsLine
<1>2. count' \in Nat /\ buf \in Seq(ToSet(buf))
  BY <1>1, GrepAtWork
<1>3. buf' = buf \o Written(Token.text)
  <2>1. buf \o <<>> = buf
    BY <1>2
  <2> QED
    BY <1>1, <2>1 DEF Written
<1> QED
  BY <1>1, <1>2, <1>3, GrepLineStep

\* grep stops at one match too many.
LEMMA GrepStopsStep ==
  ASSUME FileInv, GrepStops
  PROVE  FileInv'
<1>1. pc = "grep" /\ ReturnOutput(buf, TRUE)
  BY DEF GrepStops
<1>2. req.tool = "grep" /\ buf \in Seq(ToSet(buf))
  BY <1>1, GrepAtWork
<1>3. /\ pc \in {"tail", "grep"} /\ req.tool \in {"tail", "grep"}
      /\ buf = IF req.tool = "tail" THEN Text(RingLines) ELSE buf
  BY <1>1, <1>2
<1>4. TRUE \in BOOLEAN /\ (res'.out = buf /\ ~res'.truncated /\ ~TRUE => TailSuffix' /\ GrepComplete')
  OBVIOUS
<1> QED
  BY <1>1, <1>2, <1>3, <1>4, OutputReturned

\* grep is done with a file when it has printed its part, or the file had a line that
\* the scanner does not take.
LEMMA GrepFileDone ==
  ASSUME FileInv, pc = "grep", ~AtLine
  PROVE  PrintedOf(buf, sc.file) \/ \E g \in 1..sc.file : ~Scannable(files[g].bytes)
<1> DEFINE f == sc.file
           bytes == files[sc.file].bytes
           last == Min({Size(f), Len(bytes)})
           before == Len(opened[f].bytes)
<1>1. /\ req.tool = "grep" /\ f \in 1..Len(files) /\ DOMAIN files = 1..Len(files) /\ Len(files) \in Nat
      /\ Size(f) \in Nat /\ Size(f) = Len(bytes) /\ sc.eof \in BOOLEAN
      /\ sc.pos - 1 \in 0..Size(f) /\ Scanned \in Seq(Bytes)
      /\ buf \in Seq(ToSet(buf)) /\ ScanInv
  BY GrepAtWork
<1>2. /\ bytes \in Seq(Bytes) /\ Len(bytes) \in Nat /\ sc.pos \in Nat \ {0}
      /\ last \in Int /\ last \in {Size(f), Len(bytes)}
      /\ Finds(bytes, last)
  <2>1. Size(f) \in Int /\ req.tool = pc /\ Size(f) = IF pc = "tail" THEN sc.lim ELSE Size(sc.file)
    BY <1>1
  <2> QED
    BY <2>1, ScannerFinds
<1>3. last = Size(f)
  BY <1>1, <1>2
<1>4. before \in 0..Size(f) /\ FilesInv
  BY <1>1 DEF FileInv, FilesInv
<1> HIDE DEF last, before
<1>5. CASE \E g \in 1..(f - 1) : ~Scannable(files[g].bytes)
  <2>1. PICK g \in 1..(f - 1) : ~Scannable(files[g].bytes)
    BY <1>5
  <2>2. g \in 1..f
    BY <1>1
  <2> QED
    BY <2>1, <2>2
<1>6. CASE files[f].kind = "regular" /\ ~sc.eof /\ sc.pos <= last
  <2>1. ~Token.ok
    BY <1>6 DEF AtLine
  <2>2. NoLineAt(Token, bytes, sc.pos, last)
    BY <1>2, <1>6, <2>1 DEF Finds
  <2>3. /\ sc.pos + ScanLineCap - 1 <= last
        /\ \A i \in sc.pos..(sc.pos + ScanLineCap - 1) : bytes[i] # NL
    BY <1>2, <1>6, <2>2 DEF NoLineAt
  <2> HIDE DEF bytes
  <2>4. /\ sc.pos - 1 \in 0..(Len(bytes) - ScanLineCap)
        /\ \A j \in ((sc.pos - 1) + 1)..((sc.pos - 1) + ScanLineCap) :
             j \in sc.pos..(sc.pos + ScanLineCap - 1)
    BY <1>1, <1>2, <1>3, <2>3, FileToolsAssumption
  <2>5. ~Scannable(bytes)
    BY <2>3, <2>4 DEF Scannable
  <2>6. f \in 1..f
    BY <1>1
  <2> QED
    BY <2>5, <2>6 DEF bytes
<1>7. CASE PrintedSoFar /\ ~(files[f].kind = "regular" /\ ~sc.eof /\ sc.pos <= last)
  <2>1. PICK k \in 0..Len(buf) : /\ PrintedOf(SubSeq(buf, 1, k), f - 1)
                                 /\ SubSeq(buf, k + 1, Len(buf)) = GrepReference(f, Scanned)
    BY <1>7 DEF PrintedSoFar
  <2>2. GrepReference(f, Scanned) \in Part(f)
    <3>1. CASE files[f].kind = "regular"
      <4>1. sc.eof => sc.pos > before
        BY <1>1 DEF ScanInv, before
      <4>2. sc.eof \/ sc.pos > last
        BY <1>1, <1>2, <1>3, <1>7, <3>1
      <4>3. sc.pos - 1 \in before..Size(f)
        BY <1>1, <1>2, <1>3, <1>4, <4>1, <4>2
      <4>4. Scanned \in Seen(f)
        BY <4>3 DEF Seen, Scanned, before
      <4> QED
        BY <3>1, <4>4 DEF Part
    <3>2. CASE files[f].kind # "regular"
      <4>1. sc.pos = 1
        BY <3>2 DEF FileInv, GrepInv
      <4>2. sc.pos - 1 = 0
        BY <4>1
      <4>3. Scanned = <<>>
        BY <1>2, <4>2, NoLines DEF Scanned
      <4>4. GrepReference(f, Scanned) = <<>>
        BY <4>3, NothingPrinted
      <4> QED
        BY <3>2, <4>4 DEF Part
    <3> QED
      BY <3>1, <3>2
  <2> DEFINE n == f - 1
             e == SubSeq(buf, k + 1, Len(buf))
             text == SubSeq(buf, 1, k)
  <2>3. n \in Nat /\ n + 1 = f /\ n + 1 \in DOMAIN files
    BY <1>1
  <2>4. e \in Part(n + 1) /\ PrintedOf(text, n)
    BY <2>1, <2>2, <2>3
  <2>5. text \o e = buf
    <3>1. buf \in Seq(ToSet(buf))
      BY <1>1
    <3>2. buf = SubSeq(buf, 1, k) \o SubSeq(buf, k + 1, Len(buf))
      BY <3>1, EndGrows, Zenon
    <3> QED
      BY <3>2
  <2> HIDE DEF n, e, text
  <2>6. PrintedOf(text \o e, n + 1)
    BY <1>4, <2>3, <2>4, PrintedOneMore
  <2> QED
    BY <2>3, <2>5, <2>6
<1> QED
  BY <1>5, <1>6, <1>7 DEF FileInv, GrepInv

\* grep goes on with the next file, or has its answer.
LEMMA GrepFileEndsStep ==
  ASSUME FileInv, GrepFileEnds
  PROVE  FileInv'
<1>1. /\ pc = "grep" /\ ~AtLine
      /\ IF req.dir /\ sc.file < Len(files)
           THEN /\ sc' = [NoScan EXCEPT !.file = sc.file + 1]
                /\ UNCHANGED <<files, maxOutput, req, pc, ring, count, buf, res, opened>>
           ELSE ReturnOutput(buf, FALSE)
  BY DEF GrepFileEnds
<1>2. /\ req \in Requests /\ req.tool = "grep" /\ (~req.dir => sc.file = 1) /\ req.dir \in BOOLEAN
      /\ sc.file \in 1..Len(files) /\ DOMAIN files = 1..Len(files) /\ Len(files) \in Nat
      /\ res = NoRes /\ maxOutput \in Caps /\ count \in Nat /\ buf \in Seq(ToSet(buf))
  BY <1>1, GrepAtWork
<1>3. PrintedOf(buf, sc.file) \/ \E g \in 1..sc.file : ~Scannable(files[g].bytes)
  BY <1>1, GrepFileDone
<1>4. CASE req.dir /\ sc.file < Len(files)
  <2> DEFINE f == sc.file
             n == sc.file + 1
  <2>1. /\ sc' = [NoScan EXCEPT !.file = n]
        /\ UNCHANGED <<files, maxOutput, req, pc, ring, count, buf, res, opened>>
    BY <1>1, <1>4
  <2>2. n \in 1..Len(files) /\ n \in DOMAIN files /\ n - 1 = f
    BY <1>2, <1>4
  <2>3. sc' = [file |-> n, pos |-> 1, lim |-> 0, line |-> 0, drop |-> FALSE, eof |-> FALSE]
    BY <2>1 DEF NoScan
  <2> HIDE DEF n
  <2>4. RequestInv'
    <3>1. sc' \in [file : DOMAIN files, pos : Nat \ {0}, lim : Nat, line : Nat, drop : BOOLEAN, eof : BOOLEAN]
      BY <2>2, <2>3
    <3> QED
      BY <1>1, <1>2, <2>1, <3>1 DEF RequestInv
  <2>5. sc'.file = n /\ sc'.pos = 1 /\ sc'.line = 0 /\ sc'.eof = FALSE /\ sc'.pos - 1 = 0
    BY <2>3
  <2>6. files[n].bytes \in Seq(Bytes) /\ Size(n) \in Nat
    BY <2>2, FileType DEF FileInv
  <2>7. Scanned' = <<>>
    <3>1. Scanned' = SubSeq(files[n].bytes, 1, 0)
      BY <2>1, <2>5 DEF Scanned
    <3> QED
      BY <2>6, <3>1, NoLines
  <2>8. Len(Lines(Scanned')) = 0 /\ WholeLines(Scanned')
    BY <2>6, <2>7, NoLines
  <2>9. ScanInv'
    <3>1. Size(sc.file)' = Size(n)
      BY <2>1, <2>5 DEF Size
    <3> QED
      BY <2>5, <2>6, <2>8, <3>1 DEF ScanInv
  <2>10. ASSUME PrintedOf(buf, f) PROVE PrintedSoFar'
    <3> DEFINE k == Len(buf)
               text == buf
    <3>1. /\ k \in 0..Len(buf') /\ SubSeq(buf', 1, k) = text /\ SubSeq(buf', k + 1, Len(buf')) = <<>>
      BY <1>2, <2>1
    <3>2. GrepReference(sc.file, Scanned)' = <<>>
      <4>1. \A g, u : GrepReference(g, u)' = GrepReference(g, u)
        BY <2>1, SameParts
      <4>2. GrepReference(n, <<>>) = <<>>
        BY NothingPrinted
      <4> QED
        BY <2>5, <2>7, <4>1, <4>2
    <3>3. \A g \in 1..f : Part(g) \subseteq Part(g)'
      BY <2>1, SameParts
    <3> HIDE DEF text, f, k
    <3>4. \E parts \in [1..f -> UNION {Part(g)' : g \in 1..f}] :
            (\A g \in 1..f : parts[g] \in Part(g)') /\ text = FlattenSeq(parts)
      BY <2>10, <3>3, PrintedStays DEF PrintedOf, text
    <3>5. PrintedOf(SubSeq(buf, 1, Len(buf)), sc.file - 1)'
      BY <2>1, <2>2, <2>5, <3>1, <3>4 DEF PrintedOf, k
    <3>6. k = Len(buf')
      BY <2>1 DEF k
    <3> QED
      BY <3>1, <3>2, <3>5, <3>6 DEF PrintedSoFar
  <2>11. GrepInv'
    <3>1. PrintedSoFar' \/ \E g \in 1..(sc'.file - 1) : ~Scannable(files'[g].bytes)
      BY <1>3, <2>1, <2>2, <2>5, <2>10
    <3>2. /\ req'.tool = "grep" /\ (~req'.dir => sc'.file = 1) /\ sc'.line = Len(Lines(Scanned'))
          /\ buf' \in Seq(ToSet(buf'))
      BY <1>2, <1>4, <2>1, <2>5, <2>8
    <3> QED
      BY <2>5, <2>9, <3>1, <3>2 DEF GrepInv
  <2>12. FilesInv' /\ ReadInv' /\ TailInv'
    BY <1>1, <2>1 DEF FileInv, FilesInv, ReadInv, TailInv, Size
  <2> QED
    BY <1>1, <1>2, <2>1, <2>4, <2>11, <2>12, FilesAtWork
<1>5. CASE ~(req.dir /\ sc.file < Len(files))
  <2>1. ReturnOutput(buf, FALSE)
    BY <1>1, <1>5
  <2>2. UNCHANGED <<files, opened, req, sc, buf>> /\ pc' = "done"
    BY <2>1 DEF ReturnOutput, Return
  <2>3. Asked = sc.file /\ Asked' = sc.file
    <3>1. req.dir => sc.file = Len(files)
      BY <1>2, <1>5
    <3> QED
      BY <1>2, <2>2, <3>1 DEF Asked
  <2>4. ASSUME res'.out = buf PROVE GrepComplete'
    <3> DEFINE f == sc.file
               text == buf
    <3>1. CASE \E g \in 1..f : ~Scannable(files[g].bytes)
      BY <2>2, <2>3, <3>1 DEF GrepComplete
    <3>2. CASE PrintedOf(text, f)
      <4>1. \A g \in 1..f : Part(g) \subseteq Part(g)'
        BY <2>2, SameParts
      <4> HIDE DEF text, f
      <4>2. \E parts \in [1..f -> UNION {Part(g)' : g \in 1..f}] :
              (\A g \in 1..f : parts[g] \in Part(g)') /\ text = FlattenSeq(parts)
        BY <3>2, <4>1, PrintedStays DEF PrintedOf
      <4>3. Asked' = f /\ res'.out = text
        BY <2>3, <2>4 DEF f, text
      <4>4. PrintedOf(res.out, Asked)'
        BY <4>2, <4>3 DEF PrintedOf
      <4> QED
        BY <4>4 DEF GrepComplete
    <3> QED
      BY <1>3, <3>1, <3>2
  <2>5. TailSuffix'
    BY <1>2, <2>2 DEF TailSuffix, Done
  <2>6. /\ pc \in {"tail", "grep"} /\ req.tool \in {"tail", "grep"}
        /\ buf = (IF req.tool = "tail" THEN Text(RingLines) ELSE buf)
    BY <1>1, <1>2, Zenon
  <2> QED
    BY <1>2, <2>1, <2>4, <2>5, <2>6, OutputReturned
<1> QED
  BY <1>4, <1>5

\* File g after a step in which the host appended to it or to another file.
GrownFile(g) ==
  /\ files'[g].kind = files[g].kind /\ files'[g].bytes \in Seq(Bytes)
  /\ Size(g)' \in Nat /\ Size(g) <= Size(g)'
  /\ \A i \in 1..Size(g) : files'[g].bytes[i] = files[g].bytes[i]
  /\ \A a \in Nat \ {0}, b \in Int :
       b <= Size(g) => SubSeq(files'[g].bytes, a, b) = SubSeq(files[g].bytes, a, b)

\* A write of the host leaves the beginning of every file alone.
LEMMA FilesGrow ==
  ASSUME FileInv, NEW f \in DOMAIN files, NEW chunk \in Chunks, HostAppends(f, chunk)
  PROVE  /\ FilesInv' /\ DOMAIN files' = DOMAIN files
         /\ \A g \in DOMAIN files : GrownFile(g)
<1>1. /\ files' = [files EXCEPT ![f].bytes = @ \o chunk] /\ opened' = opened
  BY DEF HostAppends
<1>2. files \in Seq(AnyFile) /\ files # <<>> /\ DOMAIN opened = DOMAIN files
  BY DEF FileInv, FilesInv
<1>3. chunk \in Seq(Bytes)
  BY FileToolsAssumption
<1>4. \A g \in DOMAIN files : /\ files[g].bytes \in Seq(Bytes) /\ Size(g) \in Nat /\ files[g] \in AnyFile
                              /\ Len(files[g].bytes) = Size(g)
  BY <1>2, FileType DEF FileInv, Size
<1> DEFINE more == files[f].bytes \o chunk
<1>5. /\ more \in Seq(Bytes) /\ Len(more) = Size(f) + Len(chunk)
      /\ \A i \in 1..Size(f) : more[i] = files[f].bytes[i]
      /\ \A a \in Nat \ {0}, b \in Int : b <= Size(f) => SubSeq(more, a, b) = SubSeq(files[f].bytes, a, b)
  <2> DEFINE a == files[f].bytes
  <2>1. a \in Seq(Bytes) /\ Len(a) = Size(f)
    BY <1>4
  <2> HIDE DEF a
  <2>2. /\ a \o chunk \in Seq(Bytes) /\ Len(a \o chunk) = Len(a) + Len(chunk)
        /\ \A i \in 1..Len(a) : (a \o chunk)[i] = a[i]
        /\ \A x \in Nat \ {0}, b \in Int : b <= Len(a) => SubSeq(a \o chunk, x, b) = SubSeq(a, x, b)
    BY <1>3, <2>1, BeginningStays
  <2>3. more = a \o chunk
    BY DEF a
  <2> HIDE DEF more
  <2> QED
    BY <2>1, <2>2, <2>3 DEF a
<1>6. /\ DOMAIN files' = DOMAIN files
      /\ \A g \in DOMAIN files : g # f => files'[g] = files[g]
      /\ files'[f] = [files[f] EXCEPT !.bytes = more]
  BY <1>1, <1>2
<1> HIDE DEF more
<1>7. files'[f].bytes = more /\ files'[f].kind = files[f].kind /\ files'[f] \in AnyFile
  <2>1. files[f] \in AnyFile
    BY <1>4
  <2> QED
    BY <1>5, <1>6, <2>1 DEF AnyFile
<1>8. ASSUME NEW g \in DOMAIN files PROVE GrownFile(g)
  <2>1. CASE g = f
    <3>1. Size(g)' = Len(more)
      BY <1>7, <2>1 DEF Size
    <3>2. Size(g) \in Nat /\ Len(chunk) \in Nat
      BY <1>3, <1>4
    <3>3. Size(g)' \in Nat /\ Size(g) <= Size(g)'
      BY <1>5, <2>1, <3>1, <3>2
    <3> QED
      BY <1>5, <1>7, <2>1, <3>3 DEF GrownFile
  <2>2. CASE g # f
    <3>1. files'[g] = files[g]
      BY <1>6, <2>2
    <3>2. Size(g)' = Size(g)
      BY <3>1 DEF Size
    <3> QED
      BY <1>4, <3>1, <3>2 DEF GrownFile
  <2> QED
    BY <2>1, <2>2
<1>9. files' \in Seq(AnyFile) \ {<<>>}
  <2>1. DOMAIN files = 1..Len(files) /\ Len(files) \in Nat \ {0}
    BY <1>2
  <2>2. \A g \in 1..Len(files) : files'[g] \in AnyFile
    BY <1>4, <1>6, <1>7, <2>1
  <2>3. files' = [g \in 1..Len(files) |-> files'[g]]
    BY <1>1, <1>2, <2>1
  <2>4. files' \in Seq(AnyFile)
    BY <2>1, <2>2, <2>3
  <2>5. files' # <<>>
    <3>1. 1 \in DOMAIN files'
      BY <1>6, <2>1
    <3> QED
      BY <3>1
  <2> QED
    BY <2>4, <2>5
<1>10. \A g \in DOMAIN files : Len(opened[g].bytes) \in 0..Size(g)'
  <2>1. ASSUME NEW g \in DOMAIN files PROVE Len(opened[g].bytes) \in 0..Size(g)'
    <3>1. Len(opened[g].bytes) \in 0..Size(g) /\ Size(g) \in Nat
      BY <1>4 DEF FileInv, FilesInv
    <3>2. Size(g)' \in Nat /\ Size(g) <= Size(g)'
      BY <1>8 DEF GrownFile
    <3> QED
      BY <3>1, <3>2
  <2> QED
    BY <2>1
<1>11. FilesInv'
  BY <1>1, <1>2, <1>6, <1>9, <1>10 DEF FilesInv
<1> QED
  BY <1>6, <1>8, <1>11

\* What could be printed of a file that has grown can still be, and a line too long stays.
LEMMA GrownParts ==
  ASSUME FileInv, NEW g \in DOMAIN files, GrownFile(g), req' = req, opened' = opened
  PROVE  /\ Part(g) \subseteq Part(g)'
         /\ ~Scannable(files[g].bytes) => ~Scannable(files'[g].bytes)
<1>1. Len(opened[g].bytes) \in 0..Size(g) /\ Size(g) \in Nat /\ Size(g)' \in Nat /\ Size(g) <= Size(g)'
  BY FileType DEF FileInv, FilesInv, GrownFile
<1>2. \A s : GrepReference(g, s)' = GrepReference(g, s)
  BY DEF GrepReference, Matches
<1>3. ASSUME NEW s \in Seen(g) PROVE s \in Seen(g)'
  <2>1. PICK k \in Len(opened[g].bytes)..Size(g) : s = SubSeq(files[g].bytes, 1, k)
    BY DEF Seen
  <2>2. k \in Int /\ k <= Size(g) /\ k \in Len(opened[g].bytes)..Size(g)'
    BY <1>1
  <2>3. SubSeq(files'[g].bytes, 1, k) = SubSeq(files[g].bytes, 1, k)
    BY <2>2 DEF GrownFile
  <2> QED
    BY <2>1, <2>2, <2>3 DEF Seen
<1>4. Part(g) \subseteq Part(g)'
  BY <1>2, <1>3 DEF Part, GrownFile
<1>5. ASSUME ~Scannable(files[g].bytes) PROVE ~Scannable(files'[g].bytes)
  <2> DEFINE a == files[g].bytes
             b == files'[g].bytes
  <2>1. PICK i \in 0..(Len(a) - ScanLineCap) : \A j \in (i + 1)..(i + ScanLineCap) : a[j] # NL
    BY <1>5 DEF Scannable
  <2>2. Len(a) = Size(g) /\ Len(b) = Size(g)'
    BY DEF Size
  <2>3. \A j \in 1..Size(g) : b[j] = a[j]
    BY DEF GrownFile
  <2> HIDE DEF a, b
  <2>4. i \in 0..(Len(b) - ScanLineCap) /\ \A j \in (i + 1)..(i + ScanLineCap) : j \in 1..Size(g)
    BY <1>1, <2>2, FileToolsAssumption
  <2>5. \A j \in (i + 1)..(i + ScanLineCap) : b[j] # NL
    BY <2>1, <2>3, <2>4
  <2> QED
    BY <2>4, <2>5 DEF Scannable, b
<1> QED
  BY <1>4, <1>5

\* The host appends to a file that a tool may be reading.
LEMMA HostAppendsStep ==
  ASSUME FileInv, NEW f \in DOMAIN files, NEW chunk \in Chunks, HostAppends(f, chunk)
  PROVE  FileInv'
<1>1. /\ pc \notin {"idle", "done"}
      /\ UNCHANGED <<maxOutput, req, pc, sc, ring, count, buf, res, opened>>
  BY DEF HostAppends
<1>2. /\ FilesInv' /\ DOMAIN files' = DOMAIN files /\ \A g \in DOMAIN files : GrownFile(g)
  BY FilesGrow
<1>3. /\ pc \in {"read", "probe", "tail", "grep"} /\ maxOutput \in Caps /\ count \in Nat
      /\ sc.file \in DOMAIN files /\ sc.pos \in Nat \ {0}
  BY <1>1 DEF FileInv, TypeOK
<1>4. 1 \in DOMAIN files /\ Size(1) \in Nat /\ Size(sc.file) \in Nat
  <2>1. 1 \in DOMAIN files
    BY <1>3, FileType DEF FileInv
  <2> QED
    BY <1>3, <2>1, FileType DEF FileInv
<1>5. RequestInv'
  BY <1>1, <1>2 DEF FileInv, RequestInv
<1>6. ASSUME sc.pos - 1 <= Size(sc.file) PROVE Scanned' = Scanned
  <2>1. sc.pos - 1 \in Int
    BY <1>3
  <2>2. SubSeq(files'[sc.file].bytes, 1, sc.pos - 1) = SubSeq(files[sc.file].bytes, 1, sc.pos - 1)
    <3>1. \A a \in Nat \ {0}, b \in Int :
            b <= Size(sc.file) => SubSeq(files'[sc.file].bytes, a, b) = SubSeq(files[sc.file].bytes, a, b)
      BY <1>2, <1>3 DEF GrownFile
    <3>2. 1 \in Nat \ {0}
      OBVIOUS
    <3> QED
      BY <1>6, <2>1, <3>1, <3>2
  <2> QED
    BY <1>1, <2>2 DEF Scanned
<1>7. ASSUME ScanInv PROVE ScanInv'
  <2>1. sc.pos - 1 <= Size(sc.file)
    BY <1>7 DEF ScanInv
  <2>2. Scanned' = Scanned
    BY <1>6, <2>1
  <2>3. Size(sc.file)' \in Nat /\ Size(sc.file) <= Size(sc.file)'
    <3>1. GrownFile(sc.file)
      BY <1>2, <1>3
    <3> QED
      BY <1>1, <3>1 DEF GrownFile, Size
  <2>4. sc'.pos - 1 <= Size(sc.file)'
    BY <1>1, <1>3, <1>4, <2>1, <2>3
  <2> QED
    BY <1>1, <1>7, <2>2, <2>4 DEF ScanInv
<1>8. ReadInv'
  <2>1. CASE pc \in {"read", "probe"}
    <3> DEFINE end == req.offset + Len(buf)
    <3>1. /\ pc = "read" => buf = <<>>
          /\ req.tool = "read" /\ req.offset \in Nat /\ sc.pos = end + 1
          /\ buf \in Seq(Bytes) /\ buf = SubSeq(files[1].bytes, req.offset + 1, end)
          /\ buf = <<>> \/ end <= Size(1)
          /\ Len(buf) <= Limit /\ (maxOutput >= 0 => Len(buf) <= maxOutput)
      BY <2>1 DEF FileInv, ReadInv
    <3>2. Len(buf) \in Nat /\ end \in Nat /\ req.offset + 1 \in Nat \ {0} /\ req.offset + 1 \in Int
      <4>1. Len(buf) \in Nat
        BY <3>1
      <4>2. req.offset \in Nat
        BY <3>1
      <4> QED
        BY <4>1, <4>2
    <3>3. Size(1)' \in Nat /\ Size(1) <= Size(1)'
      BY <1>2, <1>4 DEF GrownFile
    <3>4. buf = SubSeq(files'[1].bytes, req.offset + 1, end)
      <4>1. CASE end <= Size(1)
        <5>1. \A a \in Nat \ {0}, b \in Int :
                b <= Size(1) => SubSeq(files'[1].bytes, a, b) = SubSeq(files[1].bytes, a, b)
          BY <1>2, <1>4 DEF GrownFile
        <5>2. end \in Int /\ buf = SubSeq(files[1].bytes, req.offset + 1, end)
          BY <3>1, <3>2
        <5> HIDE DEF end
        <5>3. SubSeq(files'[1].bytes, req.offset + 1, end) = SubSeq(files[1].bytes, req.offset + 1, end)
          BY <3>2, <4>1, <5>1, <5>2
        <5> QED
          BY <5>2, <5>3
      <4>2. CASE buf = <<>>
        <5>1. Len(buf) = 0
          BY <4>2
        <5> HIDE DEF end
        <5>2. end < req.offset + 1 /\ end \in Int
          BY <3>1, <3>2, <5>1 DEF end
        <5>3. SubSeq(files'[1].bytes, req.offset + 1, end) = <<>>
          BY <3>2, <5>2, SubSeqEmpty
        <5> QED
          BY <4>2, <5>3
      <4> QED
        BY <3>1, <4>1, <4>2
    <3>5. buf = <<>> \/ end <= Size(1)'
      BY <1>4, <3>1, <3>2, <3>3
    <3>6. Limit' = Limit
      BY <1>1 DEF Limit
    <3> QED
      BY <1>1, <3>1, <3>4, <3>5, <3>6 DEF ReadInv
  <2>2. CASE pc \notin {"read", "probe"}
    BY <1>1, <2>2 DEF ReadInv
  <2> QED
    BY <2>1, <2>2
<1>9. TailInv'
  <2>1. CASE pc = "tail"
    <3>1. Limit' = Limit /\ WindowStart' = WindowStart
      BY <1>1 DEF Limit, WindowStart
    <3>2. CASE sc.drop
      BY <1>1, <2>1, <3>1, <3>2 DEF FileInv, TailInv
    <3>3. CASE ~sc.drop
      <4>1. ScanInv
        BY <2>1, <3>3 DEF FileInv, TailInv
      <4>2. ScanInv' /\ Scanned' = Scanned
        BY <1>6, <1>7, <4>1 DEF ScanInv
      <4> QED
        BY <1>1, <2>1, <3>1, <3>3, <4>2 DEF FileInv, TailInv
    <3> QED
      BY <3>2, <3>3
  <2>2. CASE pc # "tail"
    BY <1>1, <2>2 DEF TailInv
  <2> QED
    BY <2>1, <2>2
<1>10. GrepInv'
  <2>1. CASE pc = "grep"
    <3>1. /\ req.tool = "grep" /\ (~req.dir => sc.file = 1)
          /\ ScanInv /\ sc.line = Len(Lines(Scanned))
          /\ files[sc.file].kind # "regular" => sc.pos = 1
          /\ buf \in Seq(ToSet(buf))
          /\ PrintedSoFar \/ \E g \in 1..(sc.file - 1) : ~Scannable(files[g].bytes)
      BY <2>1 DEF FileInv, GrepInv
    <3>2. ScanInv' /\ Scanned' = Scanned
      BY <1>6, <1>7, <3>1 DEF ScanInv
    <3>3. \A g \in 1..(sc.file - 1) : g \in DOMAIN files
      <4>1. DOMAIN files = 1..Len(files) /\ Len(files) \in Nat
        BY <1>3, FileType DEF FileInv
      <4> QED
        BY <1>3, <4>1
    <3>4. \A g \in 1..(sc.file - 1) : /\ Part(g) \subseteq Part(g)'
                                      /\ ~Scannable(files[g].bytes) => ~Scannable(files'[g].bytes)
      BY <1>1, <1>2, <3>3, GrownParts
    <3>5. ASSUME PrintedSoFar PROVE PrintedSoFar'
      <4>1. PICK k \in 0..Len(buf) : /\ PrintedOf(SubSeq(buf, 1, k), sc.file - 1)
                                     /\ SubSeq(buf, k + 1, Len(buf)) = GrepReference(sc.file, Scanned)
        BY <3>5 DEF PrintedSoFar
      <4> DEFINE text == SubSeq(buf, 1, k)
                 n == sc.file - 1
      <4>2. PrintedOf(text, n) /\ \A g \in 1..n : Part(g) \subseteq Part(g)'
        BY <3>4, <4>1
      <4>3. SubSeq(buf', 1, k) = text /\ sc'.file - 1 = n
        BY <1>1
      <4> HIDE DEF text, n
      <4>4. \E parts \in [1..n -> UNION {Part(g)' : g \in 1..n}] :
              (\A g \in 1..n : parts[g] \in Part(g)') /\ text = FlattenSeq(parts)
        BY <4>2, PrintedStays DEF PrintedOf
      <4>5. PrintedOf(SubSeq(buf, 1, k), sc.file - 1)'
        BY <4>3, <4>4 DEF PrintedOf
      <4>6. GrepReference(sc.file, Scanned)' = GrepReference(sc.file, Scanned)
        <5>1. \A g, u : GrepReference(g, u)' = GrepReference(g, u)
          BY <1>1 DEF GrepReference, Matches
        <5> QED
          BY <1>1, <3>2, <5>1
      <4> QED
        BY <1>1, <4>1, <4>5, <4>6 DEF PrintedSoFar
    <3>6. PrintedSoFar' \/ \E g \in 1..(sc'.file - 1) : ~Scannable(files'[g].bytes)
      BY <1>1, <3>1, <3>4, <3>5
    <3>7. files'[sc'.file].kind = files[sc.file].kind
      BY <1>1, <1>2, <1>3 DEF GrownFile
    <3> QED
      BY <1>1, <3>1, <3>2, <3>6, <3>7 DEF GrepInv
  <2>2. CASE pc # "grep"
    BY <1>1, <2>2 DEF GrepInv
  <2> QED
    BY <2>1, <2>2
<1> QED
  BY <1>1, <1>2, <1>3, <1>5, <1>8, <1>9, <1>10, FilesAtWork

\* Nothing happens.
LEMMA FilesStutter ==
  ASSUME FileInv, UNCHANGED vars
  PROVE  FileInv'
<1>1. UNCHANGED <<files, maxOutput, req, pc, sc, ring, count, buf, res, opened>>
  BY DEF vars
<1>2. /\ Limit' = Limit /\ Scanned' = Scanned /\ WindowStart' = WindowStart /\ Asked' = Asked
      /\ Seen(1)' = Seen(1) /\ \A f : Size(f)' = Size(f)
  BY <1>1 DEF Limit, Scanned, WindowStart, Asked, Seen, Size
<1>3. RingLines' = RingLines
  BY <1>1, <1>2 DEF RingLines
<1>4. /\ \A f : Part(f)' = Part(f)
      /\ \A f, s : GrepReference(f, s)' = GrepReference(f, s)
  BY <1>1, SameParts
<1>5. TypeOK' /\ FilesInv' /\ RequestInv'
  BY <1>1, <1>2 DEF FileInv, TypeOK, FilesInv, RequestInv
<1>6. ReadInv' /\ ReadPages'
  BY <1>1, <1>2 DEF FileInv, ReadInv, ReadPages, Done
<1>7. ScanInv' <=> ScanInv
  BY <1>1, <1>2 DEF ScanInv, Size
<1>8. TailInv'
  BY <1>1, <1>2, <1>7 DEF FileInv, TailInv
<1>9. CapOnRune'
  BY <1>1, <1>3 DEF FileInv, CapOnRune, Done
<1>10. TailSuffix'
  BY <1>1, <1>2 DEF FileInv, TailSuffix, Done
<1>11. ASSUME PrintedSoFar PROVE PrintedSoFar'
  <2>1. PICK k \in 0..Len(buf) : /\ PrintedOf(SubSeq(buf, 1, k), sc.file - 1)
                                 /\ SubSeq(buf, k + 1, Len(buf)) = GrepReference(sc.file, Scanned)
    BY <1>11 DEF PrintedSoFar
  <2>2. PrintedOf(SubSeq(buf, 1, k), sc.file - 1)'
    BY <1>1, <1>4, <2>1 DEF PrintedOf
  <2>3. GrepReference(sc.file, Scanned)' = GrepReference(sc.file, Scanned)
    BY <1>1, <1>2, <1>4
  <2> QED
    BY <1>1, <2>1, <2>2, <2>3 DEF PrintedSoFar
<1>12. GrepInv'
  BY <1>1, <1>2, <1>7, <1>11 DEF FileInv, GrepInv
<1>13. PrintedOf(res.out, Asked) => PrintedOf(res.out, Asked)'
  BY <1>1, <1>2, <1>4 DEF PrintedOf
<1>14. GrepComplete'
  BY <1>1, <1>2, <1>13 DEF FileInv, GrepComplete, Done
<1> QED
  BY <1>5, <1>6, <1>8, <1>9, <1>10, <1>12, <1>14 DEF FileInv

\* Every step keeps the invariant.
LEMMA FileInvStep == FileInv /\ [Next]_vars => FileInv'
<1> SUFFICES ASSUME FileInv, [Next]_vars PROVE FileInv'
  OBVIOUS
<1>1. ASSUME NEW r \in Requests, ReadStarts(r) \/ TailStarts(r) \/ GrepStarts(r) \/ OpenFails(r)
      PROVE  FileInv'
  BY <1>1, ReadStartsStep, TailStartsStep, GrepStartsStep, OpenFailsStep
<1>2. CASE ReadPage
  BY <1>2, ReadPageStep
<1>3. CASE ReadProbe
  BY <1>3, ReadProbeStep
<1>4. CASE TailLine
  BY <1>4, TailLineStep
<1>5. CASE TailEnds
  BY <1>5, TailEndsStep
<1>6. CASE GrepMatch
  BY <1>6, GrepMatchStep
<1>7. CASE GrepStops
  BY <1>7, GrepStopsStep
<1>8. CASE GrepSkipsLine
  BY <1>8, GrepSkipsLineStep
<1>9. CASE GrepFileEnds
  BY <1>9, GrepFileEndsStep
<1>10. CASE CtxDone
  BY <1>10, CtxDoneStep
<1>11. ASSUME NEW f \in DOMAIN files, NEW chunk \in Chunks, HostAppends(f, chunk)
       PROVE  FileInv'
  BY <1>11, HostAppendsStep
<1>12. CASE UNCHANGED vars
  BY <1>12, FilesStutter
<1> QED
  BY <1>1, <1>2, <1>3, <1>4, <1>5, <1>6, <1>7, <1>8, <1>9, <1>10, <1>11, <1>12 DEF Next

-----------------------------------------------------------------------------
(***************************************************************************)
(* The theorems.                                                           *)
(***************************************************************************)

\* FileInv is an invariant: at every moment a tool has kept what it should of the lines
\* its scanner has behind it, however the files grow meanwhile (tool_read.go:63-101,
\* tool_tail.go:62-128, tool_grep.go:74-172).
THEOREM FileInvariant == Spec => []FileInv
<1>1. Init => FileInv
  BY FileInvInit
<1>2. FileInv /\ [Next]_vars => FileInv'
  BY FileInvStep
<1> QED
  BY <1>1, <1>2, PTL DEF Spec

\* The variables keep their types and no result exceeds the output cap, also that of
\* read, which does not go through capOutput (tool_read.go:88-101).
THEOREM FileTypes == Spec => []TypeOK
<1>1. FileInv => TypeOK
  BY DEF FileInv
<1> QED
  BY <1>1, FileInvariant, PTL

\* A page of read is what the file holds at its offset, and is marked as truncated
\* exactly when the file holds more (tool_read.go:93-101).
THEOREM PagesAreComplete == Spec => []ReadPages
<1>1. FileInv => ReadPages
  BY DEF FileInv
<1> QED
  BY <1>1, FileInvariant, PTL

\* What tail and grep cut they mark, and cut on the last rune that fits (util.go:40-51).
THEOREM CutsOnRunes == Spec => []CapOnRune
<1>1. FileInv => CapOnRune
  BY DEF FileInv
<1> QED
  BY <1>1, FileInvariant, PTL

\* An answer of tail is whole trailing lines of the file as it was at some moment while
\* the tool ran, as many as asked for if the window holds them (tool_tail.go:84-122).
THEOREM TailIsASuffix == Spec => []TailSuffix
<1>1. FileInv => TailSuffix
  BY DEF FileInv
<1> QED
  BY <1>1, FileInvariant, PTL

\* An answer of grep that is not marked as truncated has every matching line of every
\* file that the scanner can read (tool_grep.go:110-172).
THEOREM GrepIsComplete == Spec => []GrepComplete
<1>1. FileInv => GrepComplete
  BY DEF FileInv
<1> QED
  BY <1>1, FileInvariant, PTL
=============================================================================
