------------------------------ MODULE FileTools ------------------------------
(***************************************************************************)
(* The tools that read file contents: read, tail and grep (internal/tools/ *)
(* tool_read.go, tool_tail.go, tool_grep.go) with their helpers (util.go), *)
(* on files that other processes of the host keep appending to.  A file is *)
(* a sequence of bytes.  A tool reads it line by line, or page by page,    *)
(* and the host may append between any two of those steps; a file is not   *)
(* truncated while a tool reads it.  Paths have been resolved (Jail).      *)
(***************************************************************************)
EXTENDS ToolUtil, SequencesExt

CONSTANTS
  Trees,         \* the sequences of files the host may hold at first
  Chunks,        \* what the host appends to a file in one write
  MaxGrowth,     \* bound: how many bytes a file grows by while a tool reads it
  Requests,      \* [tool, n, offset, dir, pattern]: the requests of clients
  Caps,          \* the values of Limits.MaxOutput
  DefaultLimit,  \* readDefaultBytes, tailDefaultLines, grepDefaultMatches
  HardLimit,     \* readHardBytes, tailMaxLines, grepMaxMatches
  ScanLineCap,   \* scanLineCap
  TailMaxScan    \* tailMaxScan

\* What files are made of.
Bytes == UNION ({ToSet(c) : c \in Chunks}
                  \cup UNION {{ToSet(t[f].bytes) : f \in DOMAIN t} : t \in Trees})

AnyFile == [kind : {"regular", "other", "unreadable"}, bytes : Seq(Bytes)]

\* A tool is asked about a file, or a directory with a file in it.
ASSUME FileToolsAssumption ==
  /\ Trees \subseteq Seq(AnyFile) \ {<<>>} /\ Chunks \subseteq Seq(Bytes)
  /\ \A r \in Requests : r.n \in Int /\ r.offset \in Int /\ r.dir \in BOOLEAN
  /\ MaxGrowth \in Nat /\ Caps \subseteq Int
  /\ DefaultLimit \in Nat \ {0} /\ HardLimit \in Nat \ {0}
  /\ ScanLineCap \in Nat \ {0} /\ TailMaxScan \in Nat \ {0}

VARIABLES
  files,      \* the files: [kind, bytes], in the order of a directory walk
  maxOutput,  \* Limits.MaxOutput of the server
  req,        \* the request being served
  pc,         \* where its tool is
  sc,         \* the scanner: file, next byte, last byte allowed, lines read
  ring,       \* tail's ring buffer
  count,      \* how many lines tail stored, how many matches grep wrote
  buf,        \* the output so far
  res,        \* the Result or error of the tool
  opened      \* history: the files when the tool started

vars == <<files, maxOutput, req, pc, sc, ring, count, buf, res, opened>>

NoReq == [tool |-> "none"]
NoScan == [file |-> 1, pos |-> 1, lim |-> 0, line |-> 0, drop |-> FALSE, eof |-> FALSE]
NoRes == [err |-> "none", out |-> <<>>, truncated |-> FALSE]
Failed(e) == [NoRes EXCEPT !.err = e]

Init ==
  /\ files \in Trees
  /\ maxOutput \in Caps
  /\ req = NoReq
  /\ pc = "idle"
  /\ sc = NoScan
  /\ ring = <<>>
  /\ count = 0
  /\ buf = <<>>
  /\ res = NoRes
  /\ opened = files

-----------------------------------------------------------------------------

Limit == clampLimit(req.n, DefaultLimit, HardLimit)

CR == "\r"

\* A line is without a carriage return at its end.
dropCR(line) == IF line # <<>> /\ Last(line) = CR THEN Front(line) ELSE line

\* bufio.Scanner.Scan: the next line from byte pos, reading no further than byte
\* lim; the last line may lack its newline, and then the scanner is at its end even
\* if the file grows; a line that does not fit the buffer with all that ends it is an
\* error.
Scan(bytes, pos, lim) ==
  LET last == Min({lim, Len(bytes)})
      ends == {i \in pos..last : bytes[i] = NL}
      stop == IF ends = {} THEN last + 1 ELSE Min(ends)
      none == [ok |-> FALSE, err |-> FALSE, text |-> <<>>, next |-> pos, eof |-> TRUE]
  IN  CASE pos > last -> none
        [] pos <= last /\ stop - pos >= ScanLineCap -> [none EXCEPT !.err = TRUE]
        [] OTHER -> [ok |-> TRUE, err |-> FALSE, text |-> dropCR(SubSeq(bytes, pos, stop - 1)),
                     next |-> IF ends = {} THEN stop ELSE stop + 1, eof |-> ends = {}]

Size(f) == Len(files[f].bytes)

\* The next line of the scanner: tail's stops at the limit of its LimitReader.
Token ==
  Scan(files[sc.file].bytes, sc.pos,
       IF sc.eof THEN 0 ELSE IF req.tool = "tail" THEN sc.lim ELSE Size(sc.file))

\* The tool returns r.
Return(r) ==
  /\ pc' = "done"
  /\ res' = r
  /\ UNCHANGED <<files, maxOutput, req, sc, ring, count, buf, opened>>

\* The tool returns what it wrote, cut to the output cap.
ReturnOutput(out, truncated) ==
  LET capped == capOutput(out, maxOutput)
  IN  Return([err |-> "none", out |-> capped[1], truncated |-> truncated \/ capped[2]])

Starting(r) ==
  /\ pc = "idle"
  /\ req' = r
  /\ opened' = files
  /\ UNCHANGED <<files, maxOutput, count, buf>>

\* A request whose tool fails before it reads a line.
StartFails(r, e) ==
  /\ Starting(r)
  /\ pc' = "done"
  /\ res' = Failed(e)
  /\ UNCHANGED <<sc, ring>>

-----------------------------------------------------------------------------
(***************************************************************************)
(* read: one page of at most maxBytes bytes, then a probe for one more.    *)
(***************************************************************************)

ReadStarts(r) ==
  /\ r.tool = "read"
  /\ files[1].kind = "regular"
  /\ IF r.offset < 0 THEN StartFails(r, "negative offset")
     ELSE /\ Starting(r)
          /\ pc' = "read"
          /\ sc' = [NoScan EXCEPT !.pos = r.offset + 1]
          /\ UNCHANGED <<ring, res>>

MutantReadPage ==
  LET page == SubSeq(files[1].bytes, sc.pos, Min({sc.pos + Limit - 1, Size(1)}))
  IN  /\ pc = "read"
      /\ pc' = "probe"
      /\ buf' = page
      /\ sc' = [sc EXCEPT !.pos = @ + Len(page)]
      /\ UNCHANGED <<files, maxOutput, req, ring, count, res, opened>>

\* io.ReadAll on the LimitReader.
ReadPage ==
  LET maxBytes == IF maxOutput >= 0 THEN Min({Limit, maxOutput}) ELSE Limit
      page == SubSeq(files[1].bytes, sc.pos, Min({sc.pos + maxBytes - 1, Size(1)}))
  IN  /\ pc = "read"
      /\ pc' = "probe"
      /\ buf' = page
      /\ sc' = [sc EXCEPT !.pos = @ + Len(page)]
      /\ UNCHANGED <<files, maxOutput, req, ring, count, res, opened>>

MutantReadProbe ==
  /\ pc = "probe"
  /\ Return([err |-> "none", out |-> buf, truncated |-> Len(buf) = Limit])

\* "A successful single-byte read past the cap means more data remains."
ReadProbe ==
  /\ pc = "probe"
  /\ Return([err |-> "none", out |-> buf, truncated |-> sc.pos <= Size(1)])

-----------------------------------------------------------------------------
(***************************************************************************)
(* tail: the last lines of a window of the file, through a ring buffer.    *)
(***************************************************************************)

MutantTailStarts(r) ==
  LET start == Max({0, Size(1) - TailMaxScan})
  IN  /\ r.tool = "tail"
      /\ files[1].kind = "regular"
      /\ Starting(r)
      /\ pc' = "tail"
      /\ sc' = [NoScan EXCEPT !.pos = start + 1, !.lim = start + TailMaxScan]
      /\ ring' = [i \in 0..(clampLimit(r.n, DefaultLimit, HardLimit) - 1) |-> <<>>]
      /\ UNCHANGED res

\* Open, Stat and Seek; what is in front of the first newline is dropped when the
\* window does not start with the file.
TailStarts(r) ==
  LET start == Max({0, Size(1) - TailMaxScan})
  IN  /\ r.tool = "tail"
      /\ files[1].kind = "regular"
      /\ Starting(r)
      /\ pc' = "tail"
      /\ sc' = [NoScan EXCEPT !.pos = start + 1, !.lim = start + TailMaxScan, !.drop = start > 0]
      /\ ring' = [i \in 0..(clampLimit(r.n, DefaultLimit, HardLimit) - 1) |-> <<>>]
      /\ UNCHANGED res

\* A line goes into the ring, or is dropped as the first of a window.
TailLine ==
  /\ pc = "tail"
  /\ Token.ok
  /\ sc' = [sc EXCEPT !.pos = Token.next, !.eof = Token.eof, !.drop = FALSE]
  /\ IF sc.drop THEN UNCHANGED <<ring, count>>
     ELSE /\ ring' = [ring EXCEPT ![count % Limit] = Token.text]
          /\ count' = count + 1
  /\ UNCHANGED <<files, maxOutput, req, pc, buf, res, opened>>

\* The ring, oldest line first.
RingLines ==
  LET n == Min({count, Limit})
  IN  [i \in 1..n |-> ring[(count - n + i - 1) % Limit]]

\* Each line with its newline.
Text(lines) == FlattenSeq([i \in 1..Len(lines) |-> Append(lines[i], NL)])

TailEnds ==
  /\ pc = "tail"
  /\ ~Token.ok
  /\ IF Token.err THEN Return(Failed("token too long")) ELSE ReturnOutput(Text(RingLines), FALSE)

-----------------------------------------------------------------------------
(***************************************************************************)
(* grep: the matching lines of a file, or of every file of a directory.    *)
(***************************************************************************)

GrepStarts(r) ==
  /\ r.tool = "grep"
  /\ CASE r.pattern = "" -> StartFails(r, "empty pattern")
       [] r.pattern # "" /\ ~r.dir /\ files[1].kind = "other" -> StartFails(r, "not a regular file")
       [] OTHER -> /\ Starting(r)
                   /\ pc' = "grep"
                   /\ sc' = NoScan
                   /\ UNCHANGED <<ring, res>>

\* Whether there is a line of this file to look at; a file that cannot be opened
\* and, in a walk, one that is not regular have none.
AtLine == files[sc.file].kind = "regular" /\ Token.ok

Matches(text) == \E i \in 1..Len(text) : text[i] = req.pattern

\* "path:line: text", the file by its number.
MatchLine(file, line, text) == <<ToString(file), ToString(line)>> \o Append(text, NL)

\* A matching line is written until one cap or the other is reached.
GrepMatch ==
  /\ pc = "grep"
  /\ AtLine /\ Matches(Token.text)
  /\ count < Limit /\ (maxOutput < 0 \/ Len(buf) < maxOutput)
  /\ buf' = buf \o MatchLine(sc.file, sc.line + 1, Token.text)
  /\ count' = count + 1
  /\ sc' = [sc EXCEPT !.pos = Token.next, !.eof = Token.eof, !.line = @ + 1]
  /\ UNCHANGED <<files, maxOutput, req, pc, ring, res, opened>>

MutantGrepStops ==
  /\ pc = "grep"
  /\ AtLine /\ Matches(Token.text)
  /\ ~(count < Limit /\ (maxOutput < 0 \/ Len(buf) < maxOutput))
  /\ ReturnOutput(buf, FALSE)

\* One match too many: errStopScan unwinds the walk.
GrepStops ==
  /\ pc = "grep"
  /\ AtLine /\ Matches(Token.text)
  /\ ~(count < Limit /\ (maxOutput < 0 \/ Len(buf) < maxOutput))
  /\ ReturnOutput(buf, TRUE)

GrepSkipsLine ==
  /\ pc = "grep"
  /\ AtLine /\ ~Matches(Token.text)
  /\ sc' = [sc EXCEPT !.pos = Token.next, !.eof = Token.eof, !.line = @ + 1]
  /\ UNCHANGED <<files, maxOutput, req, pc, ring, count, buf, res, opened>>

\* The scanner has stopped, at the end of the file or on an error that nobody asks
\* it about, and the walk goes on with the next file.
GrepFileEnds ==
  /\ pc = "grep"
  /\ ~AtLine
  /\ IF req.dir /\ sc.file < Len(files)
       THEN /\ sc' = [NoScan EXCEPT !.file = sc.file + 1]
            /\ UNCHANGED <<files, maxOutput, req, pc, ring, count, buf, res, opened>>
       ELSE ReturnOutput(buf, FALSE)

-----------------------------------------------------------------------------

\* A file that cannot be opened fails read and tail.
OpenFails(r) ==
  /\ r.tool \in {"read", "tail"}
  /\ files[1].kind # "regular"
  /\ StartFails(r, "open")

\* The deadline of the request or the shutdown of the server is noticed after a
\* line is scanned, and by the walk of a directory in front of a file; read does not look at its context.
CtxDone ==
  /\ \/ pc = "tail" /\ Token.ok
     \/ pc = "grep" /\ (AtLine \/ (req.dir /\ sc.line = 0))
  /\ Return(Failed("context"))

\* A process of the host appends to a file.
HostAppends(f, chunk) ==
  /\ pc \notin {"idle", "done"}
  /\ files[f].kind = "regular"
  /\ Size(f) + Len(chunk) <= Len(opened[f].bytes) + MaxGrowth
  /\ files' = [files EXCEPT ![f].bytes = @ \o chunk]
  /\ UNCHANGED <<maxOutput, req, pc, sc, ring, count, buf, res, opened>>

Next ==
  \/ \E r \in Requests : ReadStarts(r) \/ TailStarts(r) \/ GrepStarts(r) \/ OpenFails(r)
  \/ ReadPage
  \/ ReadProbe
  \/ TailLine
  \/ TailEnds
  \/ GrepMatch
  \/ GrepStops
  \/ GrepSkipsLine
  \/ GrepFileEnds
  \/ CtxDone
  \/ \E f \in DOMAIN files, chunk \in Chunks : HostAppends(f, chunk)

Spec == Init /\ [][Next]_vars

-----------------------------------------------------------------------------
(***************************************************************************)
(* Properties.                                                             *)
(***************************************************************************)

\* Where the lines of s end: at its newlines, and with s if there is none at its end.
Stops(s) ==
  {i \in 1..(Len(s) + 1) : IF i <= Len(s) THEN s[i] = NL ELSE i > 1 /\ s[i - 1] # NL}

LineStart(s, k) == IF k = 1 THEN 1 ELSE Nth(Stops(s), k - 1) + 1

\* The lines of s, which may end in CR NL.
Lines(s) ==
  [k \in 1..Cardinality(Stops(s)) |-> dropCR(SubSeq(s, LineStart(s, k), Nth(Stops(s), k) - 1))]

LastLines(lines, n) == SubSeq(lines, Len(lines) - n + 1, Len(lines))

Done(tool) == pc = "done" /\ req.tool = tool /\ res.err = "none"

\* The contents file f had at some moment between the start of the tool and now.
Seen(f) == {SubSeq(files[f].bytes, 1, k) : k \in Len(opened[f].bytes)..Size(f)}

\* Every variable keeps its type, and no result is longer than the output cap, also
\* that of read, which does not go through capOutput.
TypeOK ==
  /\ pc \in {"idle", "read", "probe", "tail", "grep", "done"}
  /\ maxOutput \in Caps
  /\ count \in Nat
  /\ sc.file \in DOMAIN files /\ sc.pos \in Nat \ {0}
  /\ res.truncated \in BOOLEAN
  /\ maxOutput >= 0 => Len(res.out) <= maxOutput

\* A page is what the file holds at its offset, and it is marked as truncated
\* exactly when the file holds more behind it: a client that asks on from the end of
\* a page while it is told so has the whole file, also one that grows
\* (tool_read.go:93-101).
ReadPages ==
  Done("read") =>
    LET end == req.offset + Len(res.out)
    IN  /\ res.out = SubSeq(files[1].bytes, req.offset + 1, end)
        /\ ~res.truncated <=> end >= Size(1)
        /\ Len(res.out) <= Limit

\* An answer that was cut to the output cap is marked so, and is as many whole runes as
\* the cap allows (util.go:40-51).
CapOnRune ==
  Done("tail") \/ Done("grep") =>
    LET full == IF req.tool = "tail" THEN Text(RingLines) ELSE buf
        n == Len(res.out)
    IN  /\ IsPrefix(res.out, full)
        /\ n < Len(full) =>
             /\ res.truncated
             /\ n <= maxOutput
             /\ n = 0 \/ full[n + 1] # Cont
             /\ \A k \in (n + 1)..maxOutput : full[k + 1] = Cont

\* The window covers the last n lines of s and the end of the line before them.
InWindow(s, n) == LineStart(s, Len(Lines(s)) - n + 1) - 1 > Len(s) - TailMaxScan

\* tail returns whole trailing lines, each ended by a mere newline, of the file as it was
\* at some moment while the tool ran, as many as asked for if the file has them and the
\* window holds them (tool_tail.go:84-88, 96-122).
TailSuffix ==
  Done("tail") /\ ~res.truncated =>
    \E s \in Seen(1), n \in 0..Limit :
      /\ n <= Len(Lines(s))
      /\ res.out = Text(LastLines(Lines(s), n))
      /\ \/ n = Min({Limit, Len(Lines(s))})
         \/ ~InWindow(s, n + 1)

\* Whether the scanner can read s to its end.
Scannable(s) ==
  \A i \in 0..(Len(s) - ScanLineCap) : \E j \in (i + 1)..(i + ScanLineCap) : s[j] = NL

\* What grep prints of the lines of s, as of file f.
GrepReference(f, s) ==
  FlattenSeq([k \in 1..Len(Lines(s)) |->
    IF Matches(Lines(s)[k]) THEN MatchLine(f, k, Lines(s)[k]) ELSE <<>>])

\* What grep may print of file f.
Part(f) == IF files[f].kind = "regular" THEN {GrepReference(f, s) : s \in Seen(f)} ELSE {<<>>}

\* Text is made of parts for the first n files.
PrintedOf(text, n) ==
  \E parts \in [1..n -> UNION {Part(f) : f \in 1..n}] :
    (\A f \in 1..n : parts[f] \in Part(f)) /\ text = FlattenSeq(parts)

Asked == IF req.dir THEN Len(files) ELSE 1

\* An answer of grep that is not marked as truncated lists every matching line of
\* every regular file it was asked about, in order, with its number, for the file as
\* it was at some moment while the tool ran; files with an overlong line are
\* excepted (tool_grep.go:110-172).
GrepComplete ==
  Done("grep") /\ ~res.truncated /\ (\A f \in 1..Asked : Scannable(files[f].bytes)) =>
    PrintedOf(res.out, Asked)

\* "scanLineCap is the maximum line length the line scanners accept before erroring.
\* It is shared by the tools that scan files line by line" (util.go:9-10): the file
\* that was scanned had no overlong line when the tool started.
LineCapErrors ==
  (Done("tail") \/ Done("grep")) /\ opened[1].kind = "regular" /\ Len(opened[1].bytes) <= TailMaxScan
    /\ ~res.truncated => Scannable(opened[1].bytes)
=============================================================================
