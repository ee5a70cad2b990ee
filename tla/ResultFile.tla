----------------------------- MODULE ResultFile -----------------------------
(***************************************************************************)
(* The result file of the export, read as it is downloaded                 *)
(* (catalog-export.ts: download, readLines, summariseCatalog).  The bytes  *)
(* arrive in chunks that may end anywhere: inside a line, and inside a     *)
(* character.                                                              *)
(*                                                                         *)
(* The file is any sequence of bytes.  One byte stands for what a row is,  *)
(* the others are its title, in characters of two bytes; a text is written *)
(* with one element for each byte it was decoded from.                     *)
(***************************************************************************)
EXTENDS Naturals, Sequences, FiniteSets

CONSTANTS
  Files,         \* the result files that Shopify may write
  MaxSample      \* MAX_SAMPLE

FileSteps    == {"cleanse", "treat", "moisturize"}
\* A product with a step, with another value, with none.
ProductKinds == FileSteps \cup {"other", "none"}
\* ... and a row of a nested connection.
RowKinds     == ProductKinds \cup {"nested"}
FileByte     == RowKinds \cup {"newline", "byte1", "byte2"}

ASSUME FileAssumption == Files \subseteq Seq(FileByte) /\ MaxSample \in Nat \ {0}

VARIABLES
  file,      \* the bytes of it
  received,  \* how many of them have been read
  held,      \* bytes of a character the decoder has not seen the end of
  carry,     \* the text that has not been yielded as a line
  report,    \* the numbers so far
  download   \* asked, reading, done, failed; unreadable: a line was not JSON
fileVars == <<file, received, held, carry, report, download>>

EmptyReport == [objectCount |-> 0, byStep |-> [s \in FileSteps |-> 0],
                withoutStep |-> 0, unrecognised |-> 0, sample |-> <<>>]

FileInit ==
  /\ file \in Files
  /\ received = 0 /\ held = <<>> /\ carry = <<>>
  /\ report = EmptyReport /\ download = "asked"

\* An operation that matched nothing has no file.
NoFile ==
  /\ download = "asked" /\ file = <<>>
  /\ download' = "done"
  /\ UNCHANGED <<file, received, held, carry, report>>

\* An error status throws before anything is read.
Respond(ok) ==
  /\ download = "asked" /\ file # <<>>
  /\ download' = IF ok THEN "reading" ELSE "failed"
  /\ UNCHANGED <<file, received, held, carry, report>>

-----------------------------------------------------------------------------
(* Bytes to text.                                                          *)

\* What a byte is decoded to: half a character is the replacement character.
Glyph(bytes, i) ==
  LET paired == \/ bytes[i] = "byte1" /\ i < Len(bytes) /\ bytes[i + 1] = "byte2"
                \/ bytes[i] = "byte2" /\ i > 1 /\ bytes[i - 1] = "byte1"
  IN  IF bytes[i] \in {"byte1", "byte2"} /\ ~paired THEN "half" ELSE bytes[i]

Chars(bytes) == [i \in 1..Len(bytes) |-> Glyph(bytes, i)]

\* Mutation: a decoder that is not told that more is to come.
MutKept(bytes) == 0

\* decode(value, {stream: true}): how many bytes at the end lack their rest.
Kept(bytes) == IF bytes # <<>> /\ bytes[Len(bytes)] = "byte1" THEN 1 ELSE 0

-----------------------------------------------------------------------------
(* Text to lines, and lines to numbers.                                    *)

Newlines(text) == {i \in 1..Len(text) : text[i] = "newline"}

\* Where the line that the carry begins stands in the file.  Products are told
\* apart by it.
LinePlace == (received - Len(held)) - Len(carry) + 1

\* What JSON.parse and the guards after it make of a line.
KindOf(line) ==
  IF line = <<>> THEN "empty"
  ELSE IF line[1] \in RowKinds /\ \A i \in 2..Len(line) : line[i] \notin RowKinds
       THEN line[1] ELSE "broken"

Product(line) == [place |-> LinePlace, title |-> Tail(line)]

\* One line of summariseCatalog.
Counted(r, line) ==
  LET kind == KindOf(line)
  IN  CASE kind \in {"empty", "nested"} -> r
        [] kind \in FileSteps ->
             [r EXCEPT !.objectCount = @ + 1, !.byStep[kind] = @ + 1]
        [] kind = "other" ->
             [r EXCEPT !.objectCount = @ + 1, !.unrecognised = @ + 1]
        [] kind = "none" ->
             [r EXCEPT !.objectCount = @ + 1, !.withoutStep = @ + 1,
                       !.sample = IF Len(@) < MaxSample THEN Append(@, Product(line)) ELSE @]

\* A line that is not JSON throws, and the numbers with it.
Summarise(line, next) ==
  IF KindOf(line) = "broken"
  THEN download' = "unreadable" /\ UNCHANGED report
  ELSE download' = next /\ report' = Counted(report, line)

\* The next chunk, of n bytes, once the lines of the last one are yielded.
ReadChunk(n) ==
  /\ download = "reading" /\ Newlines(carry) = {}
  /\ LET bytes == held \o SubSeq(file, received + 1, received + n)
         whole == Len(bytes) - Kept(bytes)
     IN /\ carry' = carry \o Chars(SubSeq(bytes, 1, whole))
        /\ held' = SubSeq(bytes, whole + 1, Len(bytes))
  /\ received' = received + n
  /\ UNCHANGED <<file, report, download>>

\* The first line of the carry is yielded and counted.
YieldLine(i) ==
  /\ download = "reading"
  /\ i \in Newlines(carry) /\ \A j \in Newlines(carry) : i <= j
  /\ Summarise(SubSeq(carry, 1, i - 1), "reading")
  /\ carry' = SubSeq(carry, i + 1, Len(carry))
  /\ UNCHANGED <<file, received, held>>

\* The end of the body: the decoder gives up what it held, and "a file that does
\* not end in a newline still has a last product on it".
EndOfFile ==
  /\ download = "reading" /\ received = Len(file) /\ Newlines(carry) = {}
  /\ LET line == carry \o Chars(held)
     IN  IF line = <<>> THEN download' = "done" /\ UNCHANGED report
                        ELSE Summarise(line, "done")
  /\ UNCHANGED <<file, received, held, carry>>

\* The connection breaks while a chunk is awaited.
BreakOff ==
  /\ download = "reading" /\ Newlines(carry) = {}
  /\ download' = "failed"
  /\ UNCHANGED <<file, received, held, carry, report>>

FileNext ==
  \/ NoFile
  \/ \E ok \in BOOLEAN : Respond(ok)
  \/ \E n \in 1..(Len(file) - received) : ReadChunk(n)
  \/ \E i \in 1..Len(carry) : YieldLine(i)
  \/ EndOfFile
  \/ BreakOff
FileSpec == FileInit /\ [][FileNext]_fileVars

-----------------------------------------------------------------------------
\* The lines of a file as a whole: where each begins and ends, and its text.
Starts(f) == {s \in 1..Len(f) : s = 1 \/ f[s - 1] = "newline"}

EndsAt(f, s, e) ==
  /\ e = Len(f) + 1 \/ f[e] = "newline"
  /\ \A i \in s..(e - 1) : f[i] # "newline"

LineAt(f, s) ==
  SubSeq(Chars(f), s, (CHOOSE e \in s..(Len(f) + 1) : EndsAt(f, s, e)) - 1)

Of(f, kinds) == {s \in Starts(f) : KindOf(LineAt(f, s)) \in kinds}

\* However the file was cut into chunks, and with or without a last newline, the
\* report counts every product of the file once: it adds up (catalog-export.ts:
\* 351-353), and its sample is the first products without a step, in order and
\* with their titles whole.  A file is refused for a line that is not JSON, and
\* only for that.
ReportAddsUp ==
  /\ download = "unreadable" => Of(file, {"broken"}) # {}
  /\ download = "done" =>
       /\ Of(file, {"broken"}) = {}
       /\ report.objectCount = Cardinality(Of(file, ProductKinds))
       /\ report.objectCount = report.byStep["cleanse"] + report.byStep["treat"]
            + report.byStep["moisturize"] + report.unrecognised + report.withoutStep
       /\ \A s \in FileSteps : report.byStep[s] = Cardinality(Of(file, {s}))
       /\ report.unrecognised = Cardinality(Of(file, {"other"}))
       /\ report.withoutStep = Cardinality(Of(file, {"none"}))
       /\ Len(report.sample) =
            IF report.withoutStep < MaxSample THEN report.withoutStep ELSE MaxSample
       /\ \A n \in DOMAIN report.sample :
            /\ report.sample[n].place \in Of(file, {"none"})
            /\ report.sample[n].title = Tail(LineAt(file, report.sample[n].place))
            /\ \A s \in Of(file, {"none"}) : s < report.sample[n].place =>
                 \E m \in 1..(n - 1) : report.sample[m].place = s
=============================================================================
