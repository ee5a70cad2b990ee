-------------------------- MODULE ResultFileProofs --------------------------
(***************************************************************************)
(* Proofs about ResultFile for every file, of every length and however it  *)
(* is cut into chunks, and every size of the sample.                       *)
(***************************************************************************)
EXTENDS ResultFile, Integers, FiniteSetTheorems, SequenceTheorems, TLAPS

-----------------------------------------------------------------------------
(* The inductive invariant: the carry is the text of the file from a place *)
(* where a line begins, and the numbers are those of the lines before it.  *)

TextByte == FileByte \cup {"half"}
Title    == Seq(TextByte)

Numbers == [objectCount : Nat, byStep : [FileSteps -> Nat], withoutStep : Nat,
            unrecognised : Nat, sample : Seq([place : Nat, title : Title])]

FileTypes ==
  /\ file \in Seq(FileByte) /\ received \in 0..Len(file)
  /\ report \in Numbers
  /\ download \in {"asked", "reading", "done", "failed", "unreadable"}

\* No character is cut between its bytes d and d + 1.
Clean(f, d) == d >= 1 /\ d < Len(f) /\ f[d] = "byte1" => f[d + 1] # "byte2"

HeldRight ==
  \/ held = <<>> /\ Clean(file, received)
  \/ held = <<"byte1">> /\ received >= 1 /\ file[received] = "byte1"

CarryRight ==
  LET d == received - Len(held)
  IN  /\ LinePlace \in 1..(d + 1)
      /\ carry = SubSeq(Chars(file), LinePlace, d)
      /\ LinePlace = 1 \/ file[LinePlace - 1] = "newline"

\* The rows of those kinds that begin before b.
Before(f, b, kinds) == {s \in Of(f, kinds) : s < b}

\* The sample is the first products without a step of those before b.
SampleRight(f, sample, b) ==
  LET paid == Cardinality(Before(f, b, {"none"}))
  IN  /\ Len(sample) = IF paid < MaxSample THEN paid ELSE MaxSample
      /\ \A n \in 1..Len(sample) :
           /\ sample[n].place \in Before(f, b, {"none"})
           /\ sample[n].title = Tail(LineAt(f, sample[n].place))
           /\ \A s \in Before(f, b, {"none"}) : s < sample[n].place =>
                \E m \in 1..(n - 1) : sample[m].place = s
      /\ paid < MaxSample => \A s \in Before(f, b, {"none"}) :
           \E m \in 1..Len(sample) : sample[m].place = s

\* The numbers are those of the lines before b.
CountsRight(f, r, b) ==
  /\ Before(f, b, {"broken"}) = {}
  /\ r.objectCount = Cardinality(Before(f, b, ProductKinds))
  /\ r.objectCount = r.byStep["cleanse"] + r.byStep["treat"]
       + r.byStep["moisturize"] + r.unrecognised + r.withoutStep
  /\ \A s \in FileSteps : r.byStep[s] = Cardinality(Before(f, b, {s}))
  /\ r.unrecognised = Cardinality(Before(f, b, {"other"}))
  /\ r.withoutStep = Cardinality(Before(f, b, {"none"}))
  /\ SampleRight(f, r.sample, b)

FileInv ==
  /\ FileTypes /\ HeldRight /\ CarryRight
  /\ download \in {"asked", "reading"} => CountsRight(file, report, LinePlace)
  /\ download = "asked" => received = 0
  /\ download = "done" => CountsRight(file, report, Len(file) + 1)
  /\ download = "unreadable" => Of(file, {"broken"}) # {}

-----------------------------------------------------------------------------
(* Text.                                                                   *)

LEMMA CharsOfSeq ==
  ASSUME NEW f \in Seq(FileByte)
  PROVE  /\ Chars(f) \in Seq(TextByte) /\ Len(Chars(f)) = Len(f)
         /\ \A i \in 1..Len(f) : Chars(f)[i] = Glyph(f, i)
<1>1. Len(f) \in Nat /\ \A i \in 1..Len(f) : f[i] \in FileByte
  OBVIOUS
<1>2. \A i \in 1..Len(f) : Glyph(f, i) \in TextByte
  BY <1>1 DEF Glyph, TextByte
<1> DEFINE n == Len(f)
           g == [i \in 1..n |-> Glyph(f, i)]
<1>3. n \in Nat /\ g \in [1..n -> TextByte] /\ \A i \in 1..n : g[i] = Glyph(f, i)
  BY <1>1, <1>2
<1>4. Chars(f) = g
  BY DEF Chars
<1> HIDE DEF n, g
<1>5. g \in Seq(TextByte) /\ Len(g) = n
  BY <1>3
<1> QED BY <1>3, <1>4, <1>5 DEF n

\* A newline is a newline in the text too, and nothing else is.
LEMMA NewlinesStay ==
  ASSUME NEW f, NEW i
  PROVE  Glyph(f, i) = "newline" <=> f[i] = "newline"
BY DEF Glyph

\* Bytes between two clean cuts are decoded as they are in the whole file.
LEMMA CleanText ==
  ASSUME NEW f \in Seq(FileByte), NEW a \in 0..Len(f), NEW b \in a..Len(f),
         Clean(f, a), Clean(f, b)
  PROVE  Chars(SubSeq(f, a + 1, b)) = SubSeq(Chars(f), a + 1, b)
<1> DEFINE g == SubSeq(f, a + 1, b)
           t == SubSeq(Chars(f), a + 1, b)
<1>1. a \in Nat /\ b \in Nat /\ a <= b /\ b <= Len(f) /\ Len(f) \in Nat
  OBVIOUS
<1>2. \A i \in (a + 1)..b : f[i] \in FileByte /\ Chars(f)[i] \in TextByte
  BY <1>1, CharsOfSeq
<1>3. g \in Seq(FileByte) /\ Len(g) = b - a /\ \A i \in 1..(b - a) : g[i] = f[a + i]
  BY <1>1, <1>2, SubSeqProperties
<1>4. t \in Seq(TextByte) /\ Len(t) = b - a /\ \A i \in 1..(b - a) : t[i] = Chars(f)[a + i]
  BY <1>1, <1>2, SubSeqProperties
<1> HIDE DEF g, t
<1>5. ASSUME NEW i \in 1..(b - a)
      PROVE  Glyph(g, i) = Glyph(f, a + i)
  <2> DEFINE k == a + i
  <2>1. k \in Nat /\ k \in 1..Len(f) /\ g[i] = f[k]
    BY <1>1, <1>3
  <2>2. i < Len(g) => k < Len(f) /\ g[i + 1] = f[k + 1]
    BY <1>1, <1>3
  <2>3. i > 1 => k > 1 /\ g[i - 1] = f[k - 1]
    BY <1>1, <1>3
  <2>4. ~(i < Len(g)) => k = b
    BY <1>1, <1>3
  <2>5. ~(i > 1) => k - 1 = a
    BY <1>1
  <2>6. ~(i < Len(g)) => ~(f[k] = "byte1" /\ k < Len(f) /\ f[k + 1] = "byte2")
    BY <1>1, <2>1, <2>4 DEF Clean
  <2>7. ~(i > 1) => ~(f[k] = "byte2" /\ k > 1 /\ f[k - 1] = "byte1")
    <3> SUFFICES ASSUME k = a + 1, k > 1 PROVE ~(f[k] = "byte2" /\ f[k - 1] = "byte1")
      BY <1>1, <2>5
    <3>1. a >= 1 /\ a < Len(f) /\ k - 1 = a
      BY <1>1, <2>1
    <3> QED BY <3>1 DEF Clean
  <2> HIDE DEF k
  <2> QED BY <2>1, <2>2, <2>3, <2>6, <2>7 DEF Glyph, k
<1>6. Chars(g) \in Seq(TextByte) /\ Len(Chars(g)) = b - a
      /\ \A i \in 1..(b - a) : Chars(g)[i] = Glyph(g, i)
  BY <1>3, CharsOfSeq
<1>7. \A i \in 1..(b - a) : a + i \in 1..Len(f) /\ Chars(f)[a + i] = Glyph(f, a + i)
  BY <1>1, CharsOfSeq
<1>8. Chars(g) = t
  BY <1>4, <1>5, <1>6, <1>7, SeqEqual
<1> QED BY <1>8 DEF g, t

-----------------------------------------------------------------------------
(* Lines.                                                                  *)

LEMMA KindsOfLines ==
  ASSUME NEW line
  PROVE  KindOf(line) \in RowKinds \cup {"empty", "broken"}
BY DEF KindOf

\* Where a line ends is one place.
LEMMA LineIs ==
  ASSUME NEW f \in Seq(FileByte), NEW s \in 1..Len(f), NEW e \in s..(Len(f) + 1), EndsAt(f, s, e)
  PROVE  LineAt(f, s) = SubSeq(Chars(f), s, e - 1)
<1> DEFINE n == Len(f)
           c == CHOOSE x \in s..(n + 1) : EndsAt(f, s, x)
<1>1. n \in Nat /\ s \in Nat /\ e \in Nat /\ e \in s..(n + 1)
  OBVIOUS
<1>2. c \in s..(n + 1) /\ EndsAt(f, s, c)
  BY <1>1
<1>3. LineAt(f, s) = SubSeq(Chars(f), s, c - 1)
  BY DEF LineAt
<1> HIDE DEF c
<1>4. c \in Nat /\ c <= n + 1 /\ e <= n + 1
  BY <1>1, <1>2
<1>5. ~(c < e)
  <2> SUFFICES ASSUME c < e PROVE FALSE
    OBVIOUS
  <2>1. c \in s..(e - 1) /\ c # n + 1
    BY <1>1, <1>2, <1>4
  <2> QED BY <1>2, <2>1 DEF EndsAt
<1>6. ~(e < c)
  <2> SUFFICES ASSUME e < c PROVE FALSE
    OBVIOUS
  <2>1. e \in s..(c - 1) /\ e # n + 1
    BY <1>1, <1>2, <1>4
  <2> QED BY <1>2, <2>1 DEF EndsAt
<1>7. c = e
  BY <1>1, <1>4, <1>5, <1>6
<1> QED BY <1>3, <1>7

\* A line and those before it are the lines before the next.
LEMMA NextLine ==
  ASSUME NEW f \in Seq(FileByte), NEW b \in Starts(f), NEW e \in b..(Len(f) + 1),
         EndsAt(f, b, e), NEW kinds
  PROVE  /\ KindOf(LineAt(f, b)) \in kinds => Before(f, e + 1, kinds) = Before(f, b, kinds) \cup {b}
         /\ KindOf(LineAt(f, b)) \notin kinds => Before(f, e + 1, kinds) = Before(f, b, kinds)
<1>1. Len(f) \in Nat /\ b \in 1..Len(f) /\ e \in Nat /\ b <= e
  BY DEF Starts
<1>2. ASSUME NEW s \in Starts(f)
      PROVE  s < e + 1 <=> s < b \/ s = b
  <2>1. s \in 1..Len(f) /\ s \in Nat /\ b \in Nat
    BY <1>1 DEF Starts
  <2>2. ASSUME s < e + 1, b < s PROVE FALSE
    <3>1. s - 1 \in b..(e - 1) /\ s # 1
      BY <1>1, <2>1, <2>2
    <3> QED BY <3>1 DEF EndsAt, Starts
  <2> QED BY <1>1, <2>1, <2>2
<1>3. Of(f, kinds) \subseteq Starts(f) /\ (b \in Of(f, kinds) <=> KindOf(LineAt(f, b)) \in kinds)
  BY DEF Of
<1> QED BY <1>2, <1>3 DEF Before

LEMMA NothingBefore ==
  ASSUME NEW f, NEW kinds
  PROVE  Before(f, 1, kinds) = {}
BY DEF Before, Of, Starts

LEMMA AllBefore ==
  ASSUME NEW f \in Seq(FileByte), NEW kinds, NEW b \in Nat, b > Len(f)
  PROVE  Before(f, b, kinds) = Of(f, kinds)
<1>1. \A s \in Of(f, kinds) : s \in 1..Len(f)
  BY DEF Of, Starts
<1>2. Len(f) \in Nat
  OBVIOUS
<1> QED BY <1>1, <1>2 DEF Before

LEMMA FinitelyMany ==
  ASSUME NEW f \in Seq(FileByte), NEW b \in Int, NEW kinds
  PROVE  IsFiniteSet(Before(f, b, kinds)) /\ Cardinality(Before(f, b, kinds)) \in Nat
<1>1. IsFiniteSet(1..Len(f)) /\ Before(f, b, kinds) \in SUBSET (1..Len(f))
  BY FS_Interval DEF Before, Of, Starts
<1>2. IsFiniteSet(Before(f, b, kinds))
  BY <1>1, FS_Subset
<1> QED BY <1>2, FS_CardinalityType

\* How many there are, with the next line.
LEMMA OneMore ==
  ASSUME NEW f \in Seq(FileByte), NEW b \in Starts(f), NEW e \in b..(Len(f) + 1),
         EndsAt(f, b, e), NEW kinds
  PROVE  Cardinality(Before(f, e + 1, kinds)) =
           Cardinality(Before(f, b, kinds)) + (IF KindOf(LineAt(f, b)) \in kinds THEN 1 ELSE 0)
<1>1. b \in Int /\ b \notin Before(f, b, kinds)
  BY DEF Starts, Before
<1>2. IsFiniteSet(Before(f, b, kinds)) /\ Cardinality(Before(f, b, kinds)) \in Nat
  BY <1>1, FinitelyMany
<1>3. CASE KindOf(LineAt(f, b)) \in kinds
  <2>1. Before(f, e + 1, kinds) = Before(f, b, kinds) \cup {b}
    BY <1>3, NextLine
  <2> QED BY <1>1, <1>2, <1>3, <2>1, FS_AddElement
<1>4. CASE KindOf(LineAt(f, b)) \notin kinds
  <2>1. Before(f, e + 1, kinds) = Before(f, b, kinds)
    BY <1>4, NextLine
  <2> QED BY <1>2, <1>4, <2>1
<1> QED BY <1>3, <1>4

-----------------------------------------------------------------------------
(* One line of the summary.                                                *)

\* What a line adds to the numbers.
One(line, kinds) == IF KindOf(line) \in kinds THEN 1 ELSE 0

LEMMA CountedAdds ==
  ASSUME NEW r \in Numbers, NEW line, KindOf(line) # "broken"
  PROVE  \E b \in [FileSteps -> Nat] : \E a :
           /\ \A s \in FileSteps : b[s] = r.byStep[s] + One(line, {s})
           /\ a = IF KindOf(line) = "none" /\ Len(r.sample) < MaxSample
                  THEN Append(r.sample, Product(line)) ELSE r.sample
           /\ Counted(r, line) =
                [objectCount |-> r.objectCount + One(line, ProductKinds), byStep |-> b,
                 withoutStep |-> r.withoutStep + One(line, {"none"}),
                 unrecognised |-> r.unrecognised + One(line, {"other"}), sample |-> a]
<1> DEFINE k == KindOf(line)
           a == IF k = "none" /\ Len(r.sample) < MaxSample
                THEN Append(r.sample, Product(line)) ELSE r.sample
<1>0. PICK c \in Nat, bs \in [FileSteps -> Nat], w \in Nat, u \in Nat, sm \in Seq([place : Nat, title : Title]) :
        r = [objectCount |-> c, byStep |-> bs, withoutStep |-> w, unrecognised |-> u, sample |-> sm]
  BY DEF Numbers
<1>a. r.objectCount = c /\ r.byStep = bs /\ r.withoutStep = w /\ r.unrecognised = u /\ r.sample = sm
  BY <1>0
<1>b. c + 0 = c /\ w + 0 = w /\ u + 0 = u
  OBVIOUS
<1> SUFFICES \E b \in [FileSteps -> Nat] :
                /\ \A s \in FileSteps : b[s] = bs[s] + One(line, {s})
                /\ Counted(r, line) =
                     [objectCount |-> c + One(line, ProductKinds), byStep |-> b,
                      withoutStep |-> w + One(line, {"none"}),
                      unrecognised |-> u + One(line, {"other"}), sample |-> a]
  BY <1>a
<1>1. CASE k \in {"empty", "nested"}
  <2>1. Counted(r, line) = r /\ a = sm
    BY <1>1, <1>a DEF Counted, FileSteps
  <2>2. One(line, ProductKinds) = 0 /\ One(line, {"other"}) = 0 /\ One(line, {"none"}) = 0
        /\ \A s \in FileSteps : One(line, {s}) = 0
    BY <1>1 DEF One, ProductKinds, FileSteps
  <2> HIDE DEF a, k
  <2>3. \A s \in FileSteps : bs[s] = bs[s] + One(line, {s})
    BY <2>2
  <2>4. Counted(r, line) = [objectCount |-> c, byStep |-> bs, withoutStep |-> w,
                            unrecognised |-> u, sample |-> a]
    BY <1>0, <1>a, <2>1
  <2>6. Counted(r, line) = [objectCount |-> c + One(line, ProductKinds), byStep |-> bs,
                            withoutStep |-> w + One(line, {"none"}),
                            unrecognised |-> u + One(line, {"other"}), sample |-> a]
    BY <1>b, <2>2, <2>4
  <2> QED BY <2>3, <2>6
<1>2. CASE k \in FileSteps
  <2> DEFINE b == [bs EXCEPT ![k] = @ + 1]
  <2>1. Counted(r, line) = [r EXCEPT !.objectCount = @ + 1, !.byStep[k] = @ + 1] /\ a = sm
    BY <1>2, <1>a DEF Counted, FileSteps
  <2>2. One(line, ProductKinds) = 1 /\ One(line, {"other"}) = 0 /\ One(line, {"none"}) = 0
        /\ \A s \in FileSteps : One(line, {s}) = IF s = k THEN 1 ELSE 0
    BY <1>2 DEF One, ProductKinds, FileSteps
  <2> HIDE DEF a, k
  <2>3. b \in [FileSteps -> Nat] /\ \A s \in FileSteps : b[s] = bs[s] + (IF s = k THEN 1 ELSE 0)
    BY <1>2
  <2>4. Counted(r, line) = [objectCount |-> c + 1, byStep |-> b, withoutStep |-> w,
                            unrecognised |-> u, sample |-> a]
    BY <1>0, <1>a, <2>1
  <2> HIDE DEF b
  <2>5. \A s \in FileSteps : b[s] = bs[s] + One(line, {s})
    BY <2>2, <2>3
  <2>6. Counted(r, line) = [objectCount |-> c + One(line, ProductKinds), byStep |-> b,
                            withoutStep |-> w + One(line, {"none"}),
                            unrecognised |-> u + One(line, {"other"}), sample |-> a]
    BY <1>b, <2>2, <2>4
  <2> QED BY <2>3, <2>5, <2>6
<1>3. CASE k = "other"
  <2>1. Counted(r, line) = [r EXCEPT !.objectCount = @ + 1, !.unrecognised = @ + 1] /\ a = sm
    BY <1>3, <1>a DEF Counted, FileSteps
  <2>2. One(line, ProductKinds) = 1 /\ One(line, {"other"}) = 1 /\ One(line, {"none"}) = 0
        /\ \A s \in FileSteps : One(line, {s}) = 0
    BY <1>3 DEF One, ProductKinds, FileSteps
  <2> HIDE DEF a, k
  <2>3. \A s \in FileSteps : bs[s] = bs[s] + One(line, {s})
    BY <2>2
  <2>4. Counted(r, line) = [objectCount |-> c + 1, byStep |-> bs, withoutStep |-> w,
                            unrecognised |-> u + 1, sample |-> a]
    BY <1>0, <1>a, <2>1
  <2>6. Counted(r, line) = [objectCount |-> c + One(line, ProductKinds), byStep |-> bs,
                            withoutStep |-> w + One(line, {"none"}),
                            unrecognised |-> u + One(line, {"other"}), sample |-> a]
    BY <1>b, <2>2, <2>4
  <2> QED BY <2>3, <2>6
<1>4. CASE k = "none"
  <2>1. Counted(r, line) = [r EXCEPT !.objectCount = @ + 1, !.withoutStep = @ + 1, !.sample = a]
    BY <1>4 DEF Counted, FileSteps
  <2>2. One(line, ProductKinds) = 1 /\ One(line, {"other"}) = 0 /\ One(line, {"none"}) = 1
        /\ \A s \in FileSteps : One(line, {s}) = 0
    BY <1>4 DEF One, ProductKinds, FileSteps
  <2> HIDE DEF a, k
  <2>3. \A s \in FileSteps : bs[s] = bs[s] + One(line, {s})
    BY <2>2
  <2>4. Counted(r, line) = [objectCount |-> c + 1, byStep |-> bs, withoutStep |-> w + 1,
                            unrecognised |-> u, sample |-> a]
    BY <1>0, <1>a, <2>1
  <2>6. Counted(r, line) = [objectCount |-> c + One(line, ProductKinds), byStep |-> bs,
                            withoutStep |-> w + One(line, {"none"}),
                            unrecognised |-> u + One(line, {"other"}), sample |-> a]
    BY <1>b, <2>2, <2>4
  <2> QED BY <2>3, <2>6
<1> QED BY <1>1, <1>2, <1>3, <1>4, KindsOfLines DEF RowKinds, ProductKinds

\* The sample after a line that is not a product without a step, or that finds it full.
LEMMA SampleStays ==
  ASSUME NEW f \in Seq(FileByte), NEW b \in Starts(f), NEW e \in b..(Len(f) + 1), EndsAt(f, b, e),
         NEW sample \in Seq([place : Nat, title : Title]), SampleRight(f, sample, b),
         KindOf(LineAt(f, b)) = "none" => ~(Len(sample) < MaxSample)
  PROVE  SampleRight(f, sample, e + 1)
<1> DEFINE N == Before(f, b, {"none"})
           M == Before(f, e + 1, {"none"})
<1>1. b \in Int /\ MaxSample \in Nat /\ Len(sample) \in Nat
  BY FileAssumption DEF Starts
<1>2. Cardinality(N) \in Nat /\ Cardinality(M) = Cardinality(N) + (IF KindOf(LineAt(f, b)) = "none" THEN 1 ELSE 0)
  BY <1>1, FinitelyMany, OneMore
<1>3. \A s \in N : s \in Int /\ s < b
  BY DEF Before, Of, Starts
<1>4. /\ KindOf(LineAt(f, b)) = "none" => M = N \cup {b}
      /\ KindOf(LineAt(f, b)) # "none" => M = N
  BY NextLine
<1> HIDE DEF N, M
<1>5. /\ Len(sample) = IF Cardinality(N) < MaxSample THEN Cardinality(N) ELSE MaxSample
      /\ \A n \in 1..Len(sample) :
           /\ sample[n].place \in N
           /\ sample[n].title = Tail(LineAt(f, sample[n].place))
           /\ \A s \in N : s < sample[n].place => \E m \in 1..(n - 1) : sample[m].place = s
      /\ Cardinality(N) < MaxSample => \A s \in N : \E m \in 1..Len(sample) : sample[m].place = s
  BY DEF SampleRight, N
<1>6. Len(sample) = IF Cardinality(M) < MaxSample THEN Cardinality(M) ELSE MaxSample
  BY <1>1, <1>2, <1>5
<1>7. ASSUME NEW n \in 1..Len(sample)
      PROVE  /\ sample[n].place \in M
             /\ sample[n].title = Tail(LineAt(f, sample[n].place))
             /\ \A s \in M : s < sample[n].place => \E m \in 1..(n - 1) : sample[m].place = s
  <2>1. \A s \in M : s < sample[n].place => s \in N
    BY <1>1, <1>3, <1>4, <1>5
  <2>2. sample[n].place \in M
    BY <1>4, <1>5
  <2> QED BY <1>5, <2>1, <2>2
<1>8. Cardinality(M) < MaxSample => M = N /\ Cardinality(N) < MaxSample
  BY <1>1, <1>2, <1>4, <1>5
<1>9. Cardinality(M) < MaxSample => \A s \in M : \E m \in 1..Len(sample) : sample[m].place = s
  BY <1>5, <1>8
<1> QED BY <1>6, <1>7, <1>9 DEF SampleRight, M

\* ... and after one that joins it.
LEMMA SampleGrows ==
  ASSUME NEW f \in Seq(FileByte), NEW b \in Starts(f), NEW e \in b..(Len(f) + 1), EndsAt(f, b, e),
         NEW sample \in Seq([place : Nat, title : Title]), SampleRight(f, sample, b),
         KindOf(LineAt(f, b)) = "none", Len(sample) < MaxSample,
         NEW p \in [place : Nat, title : Title], p.place = b, p.title = Tail(LineAt(f, b))
  PROVE  SampleRight(f, Append(sample, p), e + 1)
<1> DEFINE N == Before(f, b, {"none"})
           M == Before(f, e + 1, {"none"})
           grown == Append(sample, p)
<1>1. b \in Int /\ MaxSample \in Nat /\ Len(sample) \in Nat
  BY FileAssumption DEF Starts
<1>2. Cardinality(N) \in Nat /\ Cardinality(M) = Cardinality(N) + 1
  BY <1>1, FinitelyMany, OneMore
<1>3. \A s \in N : s \in Int /\ s < b
  BY DEF Before, Of, Starts
<1>4. M = N \cup {b}
  <2>1. \A kinds : KindOf(LineAt(f, b)) \in kinds => Before(f, e + 1, kinds) = Before(f, b, kinds) \cup {b}
    BY NextLine
  <2> QED BY <2>1 DEF M, N
<1>0. Len(grown) = Len(sample) + 1 /\ grown[Len(sample) + 1] = p
      /\ \A m \in 1..Len(sample) : grown[m] = sample[m]
  BY AppendProperties
<1> HIDE DEF N, M, grown
<1>5. /\ Len(sample) = IF Cardinality(N) < MaxSample THEN Cardinality(N) ELSE MaxSample
      /\ \A n \in 1..Len(sample) :
           /\ sample[n].place \in N
           /\ sample[n].title = Tail(LineAt(f, sample[n].place))
           /\ \A s \in N : s < sample[n].place => \E m \in 1..(n - 1) : sample[m].place = s
      /\ Cardinality(N) < MaxSample => \A s \in N : \E m \in 1..Len(sample) : sample[m].place = s
  BY DEF SampleRight, N
<1>6. Cardinality(N) < MaxSample /\ Len(sample) = Cardinality(N)
  BY <1>1, <1>2, <1>5
<1>7. Len(grown) = IF Cardinality(M) < MaxSample THEN Cardinality(M) ELSE MaxSample
  BY <1>0, <1>1, <1>2, <1>6
<1>8. ASSUME NEW n \in 1..Len(sample)
      PROVE  /\ grown[n].place \in M
             /\ grown[n].title = Tail(LineAt(f, grown[n].place))
             /\ \A s \in M : s < grown[n].place => \E m \in 1..(n - 1) : grown[m].place = s
  <2>1. \A s \in M : s < sample[n].place => s \in N
    BY <1>1, <1>3, <1>4, <1>5
  <2>2. grown[n] = sample[n] /\ sample[n].place \in M
    BY <1>0, <1>4, <1>5
  <2>3. \A m \in 1..(n - 1) : m \in 1..Len(sample)
    BY <1>1
  <2>4. ASSUME NEW s \in M, s < grown[n].place
        PROVE  \E m \in 1..(n - 1) : grown[m].place = s
    <3>1. PICK m \in 1..(n - 1) : sample[m].place = s
      BY <1>5, <2>1, <2>2, <2>4
    <3> QED BY <1>0, <2>3, <3>1
  <2> QED BY <1>5, <2>2, <2>4
<1>9. \A s \in N : \E m \in 1..Len(sample) : grown[m].place = s
  BY <1>0, <1>5, <1>6
<1>10. LET n == Len(sample) + 1
       IN  /\ grown[n].place \in M
           /\ grown[n].title = Tail(LineAt(f, grown[n].place))
           /\ \A s \in M : s < grown[n].place => \E m \in 1..(n - 1) : grown[m].place = s
  <2>1. \A s \in M : s < b => s \in N
    BY <1>1, <1>4
  <2>2. (Len(sample) + 1) - 1 = Len(sample)
    BY <1>1
  <2> QED BY <1>0, <1>4, <1>9, <2>1, <2>2
<1>11. \A n \in 1..Len(grown) : n \in 1..Len(sample) \/ n = Len(sample) + 1
  BY <1>0, <1>1
<1>12. \A n \in 1..Len(grown) :
             /\ grown[n].place \in M
             /\ grown[n].title = Tail(LineAt(f, grown[n].place))
             /\ \A s \in M : s < grown[n].place => \E m \in 1..(n - 1) : grown[m].place = s
  BY <1>8, <1>10, <1>11
<1>13. \A s \in M : \E m \in 1..Len(grown) : grown[m].place = s
  <2>1. \A m \in 1..Len(sample) : m \in 1..Len(grown)
    BY <1>0, <1>1
  <2>2. Len(sample) + 1 \in 1..Len(grown) /\ grown[Len(sample) + 1].place = b
    BY <1>0, <1>1
  <2> QED BY <1>4, <1>9, <2>1, <2>2
<1> QED BY <1>7, <1>12, <1>13 DEF SampleRight, M, grown

\* One line of the file, counted, takes the numbers to the next.
LEMMA LineCounted ==
  ASSUME NEW f \in Seq(FileByte), NEW b \in Starts(f), NEW e \in b..(Len(f) + 1), EndsAt(f, b, e),
         NEW r \in Numbers, CountsRight(f, r, b), LinePlace = b,
         KindOf(LineAt(f, b)) # "broken", LineAt(f, b) \in Title
  PROVE  Counted(r, LineAt(f, b)) \in Numbers /\ CountsRight(f, Counted(r, LineAt(f, b)), e + 1)
<1> DEFINE line == LineAt(f, b)
           k == KindOf(line)
           Item == [place : Nat, title : Title]
<1>00. PICK bs \in [FileSteps -> Nat] : \E x :
           /\ \A s \in FileSteps : bs[s] = r.byStep[s] + One(line, {s})
           /\ x = IF k = "none" /\ Len(r.sample) < MaxSample
                  THEN Append(r.sample, Product(line)) ELSE r.sample
           /\ Counted(r, line) =
                [objectCount |-> r.objectCount + One(line, ProductKinds), byStep |-> bs,
                 withoutStep |-> r.withoutStep + One(line, {"none"}),
                 unrecognised |-> r.unrecognised + One(line, {"other"}), sample |-> x]
  BY CountedAdds
<1>0. PICK a :
           /\ \A s \in FileSteps : bs[s] = r.byStep[s] + One(line, {s})
           /\ a = IF k = "none" /\ Len(r.sample) < MaxSample
                  THEN Append(r.sample, Product(line)) ELSE r.sample
           /\ Counted(r, line) =
                [objectCount |-> r.objectCount + One(line, ProductKinds), byStep |-> bs,
                 withoutStep |-> r.withoutStep + One(line, {"none"}),
                 unrecognised |-> r.unrecognised + One(line, {"other"}), sample |-> a]
  BY <1>00
<1>1. /\ r.objectCount \in Nat /\ r.withoutStep \in Nat /\ r.unrecognised \in Nat
      /\ r.byStep \in [FileSteps -> Nat] /\ r.sample \in Seq(Item)
  BY DEF Numbers
<1>2. \A kinds : One(line, kinds) \in Nat
  BY DEF One
<1>3. a \in Seq(Item) /\ SampleRight(f, a, e + 1)
  <2>1. SampleRight(f, r.sample, b)
    BY DEF CountsRight
  <2>2. CASE k = "none" /\ Len(r.sample) < MaxSample
    <3>1. a = Append(r.sample, Product(line))
      BY <1>0, <2>2
    <3>2. Product(line) \in Item /\ Product(line).place = b /\ Product(line).title = Tail(line)
      <4>0. line # <<>>
        BY <2>2 DEF KindOf
      <4>1. Tail(line) \in Title
        BY <4>0, HeadTailProperties DEF Title
      <4>2. b \in Nat /\ Product(line) = [place |-> b, title |-> Tail(line)]
        BY DEF Starts, Product
      <4> QED BY <4>1, <4>2
    <3> HIDE DEF line
    <3>3. Append(r.sample, Product(line)) \in Seq(Item)
      BY <1>1, <3>2, AppendProperties
    <3>4. SampleRight(f, Append(r.sample, Product(line)), e + 1)
      BY <1>1, <2>1, <2>2, <3>2, SampleGrows DEF line
    <3> QED BY <3>1, <3>3, <3>4
  <2>3. CASE ~(k = "none" /\ Len(r.sample) < MaxSample)
    <3>1. a = r.sample
      BY <1>0, <2>3
    <3>2. SampleRight(f, r.sample, e + 1)
      BY <1>1, <2>1, <2>3, SampleStays
    <3> QED BY <1>1, <3>1, <3>2
  <2> QED BY <2>2, <2>3
<1>4. \A kinds : Cardinality(Before(f, e + 1, kinds)) = Cardinality(Before(f, b, kinds)) + One(line, kinds)
  BY OneMore DEF One
<1>5. Before(f, e + 1, {"broken"}) = {}
  <2>1. \A kinds : k \notin kinds => Before(f, e + 1, kinds) = Before(f, b, kinds)
    BY NextLine
  <2>2. Before(f, b, {"broken"}) = {}
    BY DEF CountsRight
  <2> QED BY <2>1, <2>2
<1>6. One(line, ProductKinds) = One(line, {"cleanse"}) + One(line, {"treat"}) + One(line, {"moisturize"})
                                + One(line, {"other"}) + One(line, {"none"})
  BY DEF One, ProductKinds, FileSteps
<1>7. /\ r.objectCount = Cardinality(Before(f, b, ProductKinds))
      /\ r.objectCount = r.byStep["cleanse"] + r.byStep["treat"]
           + r.byStep["moisturize"] + r.unrecognised + r.withoutStep
      /\ \A s \in FileSteps : r.byStep[s] = Cardinality(Before(f, b, {s}))
      /\ r.unrecognised = Cardinality(Before(f, b, {"other"}))
      /\ r.withoutStep = Cardinality(Before(f, b, {"none"}))
  BY DEF CountsRight
<1> DEFINE n == Counted(r, line)
<1>8. /\ n.objectCount = r.objectCount + One(line, ProductKinds) /\ n.byStep = bs
      /\ n.withoutStep = r.withoutStep + One(line, {"none"})
      /\ n.unrecognised = r.unrecognised + One(line, {"other"}) /\ n.sample = a
  BY <1>0
<1>9. n \in Numbers
  <2>1. /\ r.objectCount + One(line, ProductKinds) \in Nat
        /\ r.withoutStep + One(line, {"none"}) \in Nat
        /\ r.unrecognised + One(line, {"other"}) \in Nat
    BY <1>1, <1>2
  <2> HIDE DEF line
  <2> QED BY <1>0, <1>3, <2>1 DEF Numbers
<1> HIDE DEF n, line
<1>10. n.objectCount = n.byStep["cleanse"] + n.byStep["treat"] + n.byStep["moisturize"]
                       + n.unrecognised + n.withoutStep
  <2>1. /\ bs["cleanse"] = r.byStep["cleanse"] + One(line, {"cleanse"})
        /\ bs["treat"] = r.byStep["treat"] + One(line, {"treat"})
        /\ bs["moisturize"] = r.byStep["moisturize"] + One(line, {"moisturize"})
    BY <1>0 DEF FileSteps
  <2>2. r.byStep["cleanse"] \in Nat /\ r.byStep["treat"] \in Nat /\ r.byStep["moisturize"] \in Nat
    BY <1>1 DEF FileSteps
  <2>3. /\ One(line, {"cleanse"}) \in Nat /\ One(line, {"treat"}) \in Nat
        /\ One(line, {"moisturize"}) \in Nat /\ One(line, {"other"}) \in Nat
        /\ One(line, {"none"}) \in Nat
    BY <1>2
  <2>4. r.objectCount + One(line, ProductKinds) =
          (r.byStep["cleanse"] + One(line, {"cleanse"})) + (r.byStep["treat"] + One(line, {"treat"}))
          + (r.byStep["moisturize"] + One(line, {"moisturize"}))
          + (r.unrecognised + One(line, {"other"})) + (r.withoutStep + One(line, {"none"}))
    <3>1. r.objectCount = r.byStep["cleanse"] + r.byStep["treat"] + r.byStep["moisturize"]
                          + r.unrecognised + r.withoutStep
      BY <1>7
    <3> DEFINE x1 == r.byStep["cleanse"]
               x2 == r.byStep["treat"]
               x3 == r.byStep["moisturize"]
               d1 == One(line, {"cleanse"})
               d2 == One(line, {"treat"})
               d3 == One(line, {"moisturize"})
               d4 == One(line, {"other"})
               d5 == One(line, {"none"})
               d  == One(line, ProductKinds)
    <3>2. r.objectCount = x1 + x2 + x3 + r.unrecognised + r.withoutStep /\ d = d1 + d2 + d3 + d4 + d5
      BY <1>6, <3>1
    <3>3. /\ x1 \in Nat /\ x2 \in Nat /\ x3 \in Nat /\ r.unrecognised \in Nat /\ r.withoutStep \in Nat
          /\ d1 \in Nat /\ d2 \in Nat /\ d3 \in Nat /\ d4 \in Nat /\ d5 \in Nat
      BY <1>1, <2>2, <2>3
    <3> HIDE DEF x1, x2, x3, d1, d2, d3, d4, d5, d
    <3>4. r.objectCount + d = (x1 + d1) + (x2 + d2) + (x3 + d3) + (r.unrecognised + d4) + (r.withoutStep + d5)
      BY <3>2, <3>3
    <3> QED BY <3>4 DEF x1, x2, x3, d1, d2, d3, d4, d5, d
  <2> QED BY <1>8, <2>1, <2>4
<1>11. n.objectCount = Cardinality(Before(f, e + 1, ProductKinds))
  BY <1>4, <1>7, <1>8
<1>12. n.unrecognised = Cardinality(Before(f, e + 1, {"other"}))
       /\ n.withoutStep = Cardinality(Before(f, e + 1, {"none"}))
  BY <1>4, <1>7, <1>8
<1>13. \A s \in FileSteps : n.byStep[s] = Cardinality(Before(f, e + 1, {s}))
  BY <1>0, <1>4, <1>7, <1>8
<1>14. SampleRight(f, n.sample, e + 1)
  BY <1>3, <1>8
<1>15. CountsRight(f, n, e + 1)
  BY <1>5, <1>10, <1>11, <1>12, <1>13, <1>14 DEF CountsRight
<1> QED BY <1>9, <1>15 DEF n, line

-----------------------------------------------------------------------------
(* The text that is read, place by place.                                  *)

\* What the decoder holds is the end of what was read, from a clean cut.
LEMMA HeldIs ==
  ASSUME file \in Seq(FileByte), received \in 0..Len(file), HeldRight
  PROVE  LET d == received - Len(held)
         IN  d \in 0..received /\ Clean(file, d) /\ held = SubSeq(file, d + 1, received)
<1>1. Len(file) \in Nat /\ received \in Nat /\ received <= Len(file)
  OBVIOUS
<1>2. CASE held = <<>> /\ Clean(file, received)
  <2>1. Len(held) = 0 /\ received - 0 = received
    BY <1>1, <1>2
  <2>2. SubSeq(file, received + 1, received) = <<>>
    BY <1>1, SubSeqProperties
  <2> QED BY <1>1, <1>2, <2>1, <2>2
<1>3. CASE held = <<"byte1">> /\ received >= 1 /\ file[received] = "byte1"
  <2>1. Len(held) = 1 /\ held[1] = "byte1" /\ held \in Seq(FileByte)
    BY <1>3 DEF FileByte
  <2>2. received - 1 \in 0..received /\ (received - 1) + 1 = received
    BY <1>1, <1>3
  <2>3. Clean(file, received - 1)
    BY <1>3, <2>2 DEF Clean
  <2> DEFINE g == SubSeq(file, received, received)
  <2>4. g \in Seq(FileByte) /\ Len(g) = 1 /\ g[1] = file[received]
    BY <1>1, <1>3, SubSeqProperties
  <2>5. held = g
    <3> HIDE DEF g
    <3>1. \A i \in 1..Len(held) : held[i] = g[i]
      BY <1>3, <2>1, <2>4
    <3> QED BY <2>1, <2>4, <3>1, SeqEqual
  <2> QED BY <2>1, <2>2, <2>3, <2>5
<1> QED BY <1>2, <1>3 DEF HeldRight

LEMMA Cut ==
  ASSUME NEW S, NEW t \in Seq(S), NEW m \in 1..(Len(t) + 1), NEW n \in (m - 1)..Len(t)
  PROVE  /\ SubSeq(t, m, n) \in Seq(S) /\ Len(SubSeq(t, m, n)) = n - m + 1
         /\ \A i \in 1..(n - m + 1) : SubSeq(t, m, n)[i] = t[m + i - 1]
<1>1. Len(t) \in Nat /\ m \in Int /\ n \in Int /\ m >= 1 /\ m <= n + 1 /\ n <= Len(t)
  OBVIOUS
<1>2. \A i \in m..n : t[i] \in S
  BY <1>1
<1>3. (IF m <= n THEN n - m + 1 ELSE 0) = n - m + 1
  BY <1>1
<1> QED BY <1>1, <1>2, <1>3, SubSeqProperties

LEMMA CutOfCut ==
  ASSUME NEW S, NEW t \in Seq(S), NEW m \in 1..(Len(t) + 1), NEW n \in (m - 1)..Len(t),
         NEW i \in 1..(n - m + 2), NEW j \in (i - 1)..(n - m + 1)
  PROVE  SubSeq(SubSeq(t, m, n), i, j) = SubSeq(t, m + i - 1, m + j - 1)
<1> DEFINE u == SubSeq(t, m, n)
           lo == m + i - 1
           hi == m + j - 1
<1>1. Len(t) \in Nat /\ m \in Nat /\ n \in Int /\ i \in Nat /\ j \in Int /\ m >= 1 /\ i >= 1
      /\ m <= n + 1 /\ n <= Len(t) /\ i <= j + 1 /\ j <= n - m + 1
  OBVIOUS
<1>2. u \in Seq(S) /\ Len(u) = n - m + 1 /\ \A x \in 1..(n - m + 1) : u[x] = t[m + x - 1]
  BY Cut
<1>3. lo \in 1..(Len(t) + 1) /\ hi \in (lo - 1)..Len(t) /\ hi - lo + 1 = j - i + 1
      /\ \A x \in 1..(j - i + 1) : lo + x - 1 = m + (i + x - 1) - 1 /\ i + x - 1 \in 1..(n - m + 1)
  BY <1>1
<1>4. i \in 1..(Len(u) + 1) /\ j \in (i - 1)..Len(u)
  BY <1>1, <1>2
<1> HIDE DEF u, lo, hi
<1>5. SubSeq(u, i, j) \in Seq(S) /\ Len(SubSeq(u, i, j)) = j - i + 1
      /\ \A x \in 1..(j - i + 1) : SubSeq(u, i, j)[x] = u[i + x - 1]
  BY <1>2, <1>4, Cut
<1>6. SubSeq(t, lo, hi) \in Seq(S) /\ Len(SubSeq(t, lo, hi)) = hi - lo + 1
      /\ \A x \in 1..(hi - lo + 1) : SubSeq(t, lo, hi)[x] = t[lo + x - 1]
  BY <1>3, Cut
<1>7. \A x \in 1..(j - i + 1) : SubSeq(u, i, j)[x] = SubSeq(t, lo, hi)[x]
  BY <1>2, <1>3, <1>5, <1>6
<1>8. SubSeq(u, i, j) = SubSeq(t, lo, hi)
  BY <1>3, <1>5, <1>6, <1>7, SeqEqual
<1> QED BY <1>8 DEF u, lo, hi

\* The pieces of the text of a file.
LEMMA TextPieces ==
  ASSUME NEW f \in Seq(FileByte), NEW b \in 1..(Len(f) + 1), NEW d \in (b - 1)..Len(f)
  PROVE  /\ SubSeq(Chars(f), b, d) \in Title /\ Len(SubSeq(Chars(f), b, d)) = d - b + 1
         /\ \A i \in 1..(d - b + 1) : SubSeq(Chars(f), b, d)[i] = Glyph(f, b + i - 1)
<1>1. Len(f) \in Nat /\ b \in Nat /\ d \in Nat /\ b >= 1 /\ b <= d + 1 /\ d <= Len(f)
  OBVIOUS
<1>2. Chars(f) \in Seq(TextByte) /\ Len(Chars(f)) = Len(f) /\ \A i \in 1..Len(f) : Chars(f)[i] = Glyph(f, i)
  BY CharsOfSeq
<1>4. /\ SubSeq(Chars(f), b, d) \in Seq(TextByte)
      /\ Len(SubSeq(Chars(f), b, d)) = d - b + 1
      /\ \A i \in 1..(d - b + 1) : SubSeq(Chars(f), b, d)[i] = Chars(f)[b + i - 1]
  BY <1>2, Cut
<1>5. \A i \in 1..(d - b + 1) : b + i - 1 \in 1..Len(f)
  BY <1>1
<1> QED BY <1>2, <1>4, <1>5 DEF Title

\* The first newline of a text that begins with a line ends that line.
LEMMA FirstLine ==
  ASSUME NEW f \in Seq(FileByte), NEW b \in 1..(Len(f) + 1), NEW d \in (b - 1)..Len(f),
         b = 1 \/ f[b - 1] = "newline", NEW i \in Newlines(SubSeq(Chars(f), b, d)),
         \A j \in Newlines(SubSeq(Chars(f), b, d)) : i <= j
  PROVE  LET text == SubSeq(Chars(f), b, d)
         IN  /\ b \in Starts(f) /\ b + i - 1 \in b..d /\ EndsAt(f, b, b + i - 1)
             /\ LineAt(f, b) = SubSeq(text, 1, i - 1) /\ LineAt(f, b) \in Title
             /\ SubSeq(text, i + 1, Len(text)) = SubSeq(Chars(f), b + i, d)
             /\ f[b + i - 1] = "newline"
<1> DEFINE text == SubSeq(Chars(f), b, d)
<1>0. text = SubSeq(Chars(f), b, d) /\ i \in Newlines(text) /\ \A j \in Newlines(text) : i <= j
  OBVIOUS
<1> HIDE DEF text
<1>1. Len(f) \in Nat /\ b \in Nat /\ d \in Nat /\ b >= 1 /\ b <= d + 1 /\ d <= Len(f)
  OBVIOUS
<1>2. text \in Title /\ Len(text) = d - b + 1 /\ \A j \in 1..(d - b + 1) : text[j] = Glyph(f, b + j - 1)
  BY <1>0, TextPieces
<1>3. i \in 1..(d - b + 1) /\ i \in Nat /\ text[i] = "newline"
  BY <1>0, <1>1, <1>2 DEF Newlines
<1> DEFINE e == b + i - 1
<1>4. e \in Nat /\ e \in b..d /\ b \in 1..Len(f) /\ e + 1 = b + i /\ e - 1 = b + i - 2
  BY <1>1, <1>3
<1>5. f[e] = "newline"
  BY <1>2, <1>3, NewlinesStay
<1>6. b \in Starts(f)
  BY <1>4 DEF Starts
<1>7. ASSUME NEW j \in b..(e - 1) PROVE f[j] # "newline"
  <2>1. j - b + 1 \in 1..(d - b + 1) /\ j - b + 1 < i /\ b + (j - b + 1) - 1 = j
    BY <1>1, <1>3
  <2>2. text[j - b + 1] = Glyph(f, j)
    BY <1>2, <2>1
  <2>3. j - b + 1 \notin Newlines(text)
    BY <1>0, <1>3, <2>1
  <2>4. text[j - b + 1] # "newline"
    BY <1>2, <2>1, <2>3 DEF Newlines
  <2> QED BY <2>2, <2>4, NewlinesStay
<1>8. EndsAt(f, b, e)
  BY <1>5, <1>7 DEF EndsAt
<1>9. LineAt(f, b) = SubSeq(Chars(f), b, e - 1)
  <2>1. e \in b..(Len(f) + 1)
    BY <1>1, <1>4
  <2> HIDE DEF e
  <2> QED BY <1>4, <1>8, <2>1, LineIs
<1> HIDE DEF e
<1>t. Chars(f) \in Seq(TextByte) /\ Len(Chars(f)) = Len(f)
  BY CharsOfSeq
<1>10. SubSeq(text, 1, i - 1) = SubSeq(Chars(f), b, e - 1)
  <2>1. 1 \in 1..(d - b + 2) /\ i - 1 \in (1 - 1)..(d - b + 1) /\ b + 1 - 1 = b /\ b + (i - 1) - 1 = e - 1
    BY <1>1, <1>3 DEF e
  <2>2. SubSeq(SubSeq(Chars(f), b, d), 1, i - 1) = SubSeq(Chars(f), b + 1 - 1, b + (i - 1) - 1)
    BY <1>t, <2>1, CutOfCut
  <2> QED BY <1>0, <2>1, <2>2
<1>11. SubSeq(text, i + 1, Len(text)) = SubSeq(Chars(f), b + i, d)
  <2> DEFINE lo == i + 1
             hi == d - b + 1
  <2>1. lo \in 1..(d - b + 2) /\ hi \in (lo - 1)..(d - b + 1) /\ b + lo - 1 = b + i /\ b + hi - 1 = d
    BY <1>1, <1>3
  <2> HIDE DEF lo, hi
  <2>2. SubSeq(SubSeq(Chars(f), b, d), lo, hi) = SubSeq(Chars(f), b + lo - 1, b + hi - 1)
    BY <1>t, <2>1, CutOfCut
  <2> QED BY <1>0, <1>2, <2>1, <2>2 DEF lo, hi
<1>12. LineAt(f, b) \in Title
  <2>1. e - 1 \in (b - 1)..Len(f) /\ b \in 1..(Len(f) + 1)
    BY <1>1, <1>4
  <2> QED BY <1>9, <2>1, TextPieces
<1> QED BY <1>4, <1>5, <1>6, <1>8, <1>9, <1>10, <1>11, <1>12 DEF e, text

\* A text to the end of the file in which no newline is left is its last line.
LEMMA LastLine ==
  ASSUME NEW f \in Seq(FileByte), NEW b \in 1..Len(f),
         b = 1 \/ f[b - 1] = "newline", NEW text, text = SubSeq(Chars(f), b, Len(f)),
         \A j \in b..Len(f) : f[j] # "newline"
  PROVE  /\ b \in Starts(f) /\ EndsAt(f, b, Len(f) + 1)
         /\ LineAt(f, b) = text /\ LineAt(f, b) \in Title /\ text # <<>>
<1>1. Len(f) \in Nat /\ b \in Nat /\ b <= Len(f) /\ (Len(f) + 1) - 1 = Len(f) /\ Len(f) + 1 \in b..(Len(f) + 1)
  OBVIOUS
<1>2. b \in Starts(f)
  BY DEF Starts
<1>3. EndsAt(f, b, Len(f) + 1)
  BY <1>1 DEF EndsAt
<1>4. LineAt(f, b) = SubSeq(Chars(f), b, (Len(f) + 1) - 1)
  BY <1>1, <1>3, LineIs
<1>5. text \in Title /\ Len(text) = Len(f) - b + 1
  <2>1. b \in 1..(Len(f) + 1) /\ Len(f) \in (b - 1)..Len(f)
    BY <1>1
  <2> QED BY <2>1, TextPieces
<1>6. text # <<>>
  <2>1. Len(text) # 0
    BY <1>1, <1>5
  <2>2. Len(<<>>) = 0
    OBVIOUS
  <2> QED BY <2>1, <2>2
<1> QED BY <1>1, <1>2, <1>3, <1>4, <1>5, <1>6

-----------------------------------------------------------------------------
(* The steps.                                                              *)

\* A chunk, of any length, leaves the carry the text from the same place on.
LEMMA ChunkText ==
  ASSUME FileTypes, HeldRight, CarryRight, NEW n \in 1..(Len(file) - received), ReadChunk(n)
  PROVE  HeldRight' /\ CarryRight' /\ LinePlace' = LinePlace
<1>0. PICK f, b, c, d : f = file /\ b = LinePlace /\ c = received /\ d = received - Len(held)
  OBVIOUS
<1>f. f \in Seq(FileByte) /\ c \in 0..Len(f) /\ n \in 1..(Len(f) - c)
  BY <1>0 DEF FileTypes
<1>1. /\ Len(f) \in Nat /\ c \in Nat /\ d \in Nat /\ b \in Nat /\ d <= c /\ c <= Len(f)
      /\ b >= 1 /\ b <= d + 1 /\ c + n <= Len(f) /\ n >= 1 /\ n \in Nat
      /\ Clean(f, d) /\ held = SubSeq(f, d + 1, c)
      /\ carry = SubSeq(Chars(f), b, d) /\ (b = 1 \/ f[b - 1] = "newline")
  <2>1. d \in 0..received /\ Clean(file, d) /\ held = SubSeq(file, d + 1, received)
    BY <1>0, HeldIs DEF FileTypes
  <2>2. /\ b \in 1..(d + 1) /\ carry = SubSeq(Chars(file), b, d)
        /\ b = 1 \/ file[b - 1] = "newline"
    BY <1>0 DEF CarryRight
  <2>3. d \in 0..c /\ b \in 1..(d + 1) /\ Len(f) \in Nat
    BY <1>0, <1>f, <2>1, <2>2
  <2>4. /\ Clean(f, d) /\ held = SubSeq(f, d + 1, c)
        /\ carry = SubSeq(Chars(f), b, d) /\ (b = 1 \/ f[b - 1] = "newline")
    BY <1>0, <2>1, <2>2
  <2> QED BY <1>f, <2>3, <2>4
<1> DEFINE bytes == held \o SubSeq(f, c + 1, c + n)
           k == IF f[c + n] = "byte1" THEN 1 ELSE 0
           x == c + n - k
           m == (c + n) - d
<1>2. bytes = SubSeq(f, d + 1, c + n)
  <2> DEFINE lo == d + 1
             hi == c + n
  <2>1. lo \in 1..(Len(f) + 1) /\ c \in (lo - 1)..Len(f) /\ hi \in c..Len(f)
    BY <1>1
  <2> HIDE DEF lo, hi
  <2>2. SubSeq(f, lo, c) \o SubSeq(f, c + 1, hi) = SubSeq(f, lo, hi)
    BY <1>f, <2>1, ConcatAdjacentSubSeq
  <2> QED BY <1>1, <2>2 DEF lo, hi
<1>3. bytes \in Seq(FileByte) /\ Len(bytes) = m /\ m \in Nat /\ m >= 1 /\ bytes[m] = f[c + n]
  <2>1. d + 1 \in 1..(Len(f) + 1) /\ c + n \in ((d + 1) - 1)..Len(f) /\ (c + n) - (d + 1) + 1 = m
        /\ m \in 1..m /\ (d + 1) + m - 1 = c + n
    BY <1>1
  <2> DEFINE lo == d + 1
             hi == c + n
  <2> HIDE DEF lo, hi, bytes, m
  <2>2. SubSeq(f, lo, hi) \in Seq(FileByte) /\ Len(SubSeq(f, lo, hi)) = hi - lo + 1
        /\ \A i \in 1..(hi - lo + 1) : SubSeq(f, lo, hi)[i] = f[lo + i - 1]
    BY <2>1, <1>f, Cut DEF lo, hi
  <2>3. hi - lo + 1 = m /\ m \in 1..m /\ lo + m - 1 = hi /\ bytes = SubSeq(f, lo, hi)
    BY <1>2, <2>1 DEF lo, hi
  <2>4. m \in Nat /\ m >= 1
    BY <1>1 DEF m
  <2> QED BY <2>2, <2>3, <2>4 DEF hi
<1>4. Kept(bytes) = k
  <2> HIDE DEF bytes, m
  <2>1. bytes # <<>>
    BY <1>3
  <2> QED BY <1>3, <2>1 DEF Kept
<1>5. /\ carry' = carry \o Chars(SubSeq(bytes, 1, m - k))
      /\ held' = SubSeq(bytes, (m - k) + 1, m)
      /\ received' = c + n /\ file' = f
  <2> HIDE DEF k, m
  <2> QED BY <1>0, <1>3, <1>4 DEF ReadChunk
<1>6. k \in 0..1 /\ x \in d..(c + n) /\ x \in Nat /\ x <= Len(f) /\ m - k \in Nat /\ d + (m - k) = x
      /\ (c + n) - x = k
  BY <1>1
<1>7. Clean(f, x)
  <2>1. CASE f[c + n] = "byte1"
    <3>1. x + 1 = c + n
      BY <1>1, <2>1
    <3> HIDE DEF x
    <3> QED BY <2>1, <3>1 DEF Clean
  <2>2. CASE f[c + n] # "byte1"
    <3>1. x = c + n
      BY <1>1, <2>2
    <3> HIDE DEF x
    <3> QED BY <2>2, <3>1 DEF Clean
  <2> QED BY <2>1, <2>2
<1> HIDE DEF k, x
<1>8. SubSeq(bytes, 1, m - k) = SubSeq(f, d + 1, x) /\ SubSeq(bytes, (m - k) + 1, m) = SubSeq(f, x + 1, c + n)
  <2> DEFINE lo == d + 1
             hi == c + n
             w  == m - k
             v  == w + 1
  <2>1. lo \in 1..(Len(f) + 1) /\ hi \in (lo - 1)..Len(f)
    BY <1>1
  <2>2. 1 \in 1..(hi - lo + 2) /\ w \in (1 - 1)..(hi - lo + 1) /\ lo + 1 - 1 = lo /\ lo + w - 1 = x
    BY <1>1, <1>6
  <2>3. v \in 1..(hi - lo + 2) /\ m \in (v - 1)..(hi - lo + 1) /\ lo + v - 1 = x + 1 /\ lo + m - 1 = hi
    BY <1>1, <1>6
  <2>4. bytes = SubSeq(f, lo, hi)
    BY <1>2
  <2> HIDE DEF lo, hi, w, v, m, bytes
  <2>5. SubSeq(SubSeq(f, lo, hi), 1, w) = SubSeq(f, lo + 1 - 1, lo + w - 1)
    BY <2>1, <2>2, <1>f, CutOfCut
  <2>6. SubSeq(SubSeq(f, lo, hi), v, m) = SubSeq(f, lo + v - 1, lo + m - 1)
    BY <2>1, <2>3, <1>f, CutOfCut
  <2>7. SubSeq(bytes, 1, w) = SubSeq(f, lo, x) /\ SubSeq(bytes, v, m) = SubSeq(f, x + 1, hi)
    BY <2>2, <2>3, <2>4, <2>5, <2>6
  <2> QED BY <2>7 DEF lo, hi, w, v
<1>9. Chars(SubSeq(f, d + 1, x)) = SubSeq(Chars(f), d + 1, x)
  <2>1. d \in 0..Len(f) /\ x \in d..Len(f)
    BY <1>1, <1>6
  <2> QED BY <1>1, <1>7, <1>f, <2>1, CleanText
<1>10. carry' = SubSeq(Chars(f), b, x)
  <2>1. Chars(f) \in Seq(TextByte) /\ Len(Chars(f)) = Len(f)
    BY <1>f, CharsOfSeq
  <2>2. b \in 1..(Len(f) + 1) /\ d \in (b - 1)..Len(f) /\ x \in d..Len(f)
    BY <1>1, <1>6
  <2>3. SubSeq(Chars(f), b, d) \o SubSeq(Chars(f), d + 1, x) = SubSeq(Chars(f), b, x)
    BY <1>f, <2>1, <2>2, ConcatAdjacentSubSeq
  <2> HIDE DEF bytes
  <2> QED BY <1>1, <1>5, <1>8, <1>9, <2>3
<1>11. Len(carry') = x - b + 1
  <2>1. b \in 1..(Len(f) + 1) /\ x \in (b - 1)..Len(f)
    BY <1>1, <1>6
  <2> QED BY <1>10, <2>1, <1>f, TextPieces
<1>12. held' = SubSeq(f, x + 1, c + n)
  BY <1>5, <1>8
<1>13. Len(held') = k /\ HeldRight'
  <2>1. CASE f[c + n] = "byte1"
    <3>1. k = 1 /\ x + 1 = c + n /\ c + n \in 1..Len(f)
      BY <1>1, <2>1 DEF k, x
    <3> DEFINE hi == c + n
               g == SubSeq(f, hi, hi)
    <3>2. hi \in 1..(Len(f) + 1) /\ hi \in (hi - 1)..Len(f) /\ hi - hi + 1 = 1 /\ hi + 1 - 1 = hi
      BY <1>1
    <3> HIDE DEF hi
    <3>3. SubSeq(f, hi, hi) \in Seq(FileByte) /\ Len(SubSeq(f, hi, hi)) = hi - hi + 1
        /\ \A i \in 1..(hi - hi + 1) : SubSeq(f, hi, hi)[i] = f[hi + i - 1]
      BY <1>f, <3>2, Cut
    <3>4. g \in Seq(FileByte) /\ Len(g) = 1 /\ g[1] = "byte1"
      BY <2>1, <3>2, <3>3 DEF hi
    <3>5. held' = g
      BY <1>12, <3>1 DEF hi
    <3> HIDE DEF g
    <3>6. <<"byte1">> \in Seq(FileByte) /\ Len(<<"byte1">>) = 1 /\ <<"byte1">>[1] = "byte1"
      BY DEF FileByte
    <3>7. g = <<"byte1">>
      <4>1. \A i \in 1..Len(g) : g[i] = <<"byte1">>[i]
        BY <3>4, <3>6
      <4> QED BY <3>4, <3>6, <4>1, SeqEqual
    <3>8. held' = <<"byte1">> /\ received' >= 1 /\ file'[received'] = "byte1"
      <4>1. c + n >= 1 /\ received' = c + n /\ file' = f
        BY <1>1, <1>5
      <4> QED BY <2>1, <3>5, <3>7, <4>1
    <3> QED BY <3>1, <3>4, <3>5, <3>8 DEF HeldRight
  <2>2. CASE f[c + n] # "byte1"
    <3>1. k = 0 /\ x = c + n
      BY <1>1, <2>2 DEF k, x
    <3>2. SubSeq(f, (c + n) + 1, c + n) = <<>>
      BY <1>1, SubSeqEmpty
    <3>3. held' = <<>> /\ Clean(file', received')
      BY <1>5, <1>7, <1>12, <3>1, <3>2
    <3> QED BY <3>1, <3>3 DEF HeldRight
  <2> QED BY <2>1, <2>2
<1>14. LinePlace' = b
  <2>1. LinePlace' = ((c + n) - k) - (x - b + 1) + 1
    BY <1>5, <1>11, <1>13 DEF LinePlace
  <2> QED BY <1>1, <1>6, <2>1
<1>15. CarryRight'
  <2>1. received' - Len(held') = x
    BY <1>1, <1>5, <1>6, <1>13
  <2>2. b \in 1..(x + 1)
    BY <1>1, <1>6
  <2> QED BY <1>1, <1>5, <1>10, <1>14, <2>1, <2>2 DEF CarryRight
<1> QED BY <1>0, <1>13, <1>14, <1>15

\* The line that the first newline of the carry ends is counted.
LEMMA LineYielded ==
  ASSUME FileInv, NEW i \in 1..Len(carry), YieldLine(i)
  PROVE  FileInv'
<1>0. PICK f, b, c, d : f = file /\ b = LinePlace /\ c = received /\ d = received - Len(held)
  OBVIOUS
<1>1. f \in Seq(FileByte) /\ c \in 0..Len(f) /\ d \in 0..c /\ b \in 1..(d + 1)
  <2>1. d \in 0..received
    BY <1>0, HeldIs DEF FileInv, FileTypes
  <2> QED BY <1>0, <2>1 DEF FileInv, FileTypes, CarryRight
<1>2. /\ carry = SubSeq(Chars(f), b, d) /\ (b = 1 \/ f[b - 1] = "newline")
      /\ report \in Numbers /\ download = "reading" /\ CountsRight(f, report, b)
  BY <1>0 DEF FileInv, FileTypes, CarryRight, YieldLine
<1>3. /\ i \in Newlines(carry) /\ \A j \in Newlines(carry) : i <= j
      /\ Summarise(SubSeq(carry, 1, i - 1), "reading")
      /\ carry' = SubSeq(carry, i + 1, Len(carry))
      /\ file' = f /\ received' = c /\ held' = held
  BY <1>0 DEF YieldLine
<1>4. b \in 1..(Len(f) + 1) /\ d \in (b - 1)..Len(f) /\ Len(f) \in Nat /\ i \in Nat
  BY <1>1
<1>5. /\ b \in Starts(f) /\ b + i - 1 \in b..d /\ EndsAt(f, b, b + i - 1)
      /\ LineAt(f, b) = SubSeq(carry, 1, i - 1) /\ LineAt(f, b) \in Title
      /\ SubSeq(carry, i + 1, Len(carry)) = SubSeq(Chars(f), b + i, d)
      /\ f[b + i - 1] = "newline"
  <2>1. /\ f \in Seq(FileByte) /\ b \in 1..(Len(f) + 1) /\ d \in (b - 1)..Len(f)
        /\ b = 1 \/ f[b - 1] = "newline"
        /\ i \in Newlines(SubSeq(Chars(f), b, d)) /\ \A j \in Newlines(SubSeq(Chars(f), b, d)) : i <= j
    BY <1>1, <1>2, <1>3, <1>4
  <2> DEFINE text == SubSeq(Chars(f), b, d)
  <2>2. /\ b \in Starts(f) /\ b + i - 1 \in b..d /\ EndsAt(f, b, b + i - 1)
        /\ LineAt(f, b) = SubSeq(text, 1, i - 1) /\ LineAt(f, b) \in Title
        /\ SubSeq(text, i + 1, Len(text)) = SubSeq(Chars(f), b + i, d)
        /\ f[b + i - 1] = "newline"
    BY <2>1, FirstLine
  <2> QED BY <1>2, <2>2
<1> DEFINE e == b + i - 1
<1>6. e \in b..(Len(f) + 1) /\ e + 1 = b + i /\ b + i \in 1..(d + 1) /\ b + i \in 1..(Len(f) + 1)
      /\ d \in ((b + i) - 1)..Len(f) /\ (b + i) - 1 = b + i - 1
  BY <1>1, <1>4, <1>5
<1>7. Len(carry') = d - (b + i) + 1
  BY <1>1, <1>3, <1>5, <1>6, TextPieces
<1>8. LinePlace' = b + i
  <2>1. LinePlace' = d - (d - (b + i) + 1) + 1
    BY <1>0, <1>3, <1>7 DEF LinePlace
  <2> QED BY <1>1, <1>4, <2>1
<1>9. CarryRight'
  <2>1. (received - Len(held))' = d
    BY <1>0, <1>3
  <2> QED BY <1>3, <1>5, <1>6, <1>8, <2>1 DEF CarryRight
<1>10. HeldRight'
  BY <1>0, <1>3 DEF FileInv, HeldRight
<1>11. CASE KindOf(LineAt(f, b)) = "broken"
  <2>1. download' = "unreadable" /\ report' = report
    BY <1>3, <1>5, <1>11 DEF Summarise
  <2>2. b \in Of(f, {"broken"})
    BY <1>5, <1>11 DEF Of
  <2> QED BY <1>1, <1>2, <1>3, <1>9, <1>10, <2>1, <2>2 DEF FileInv, FileTypes
<1>12. CASE KindOf(LineAt(f, b)) # "broken"
  <2>1. download' = "reading" /\ report' = Counted(report, LineAt(f, b))
    BY <1>3, <1>5, <1>12 DEF Summarise
  <2>2. Counted(report, LineAt(f, b)) \in Numbers /\ CountsRight(f, Counted(report, LineAt(f, b)), e + 1)
    <3> DEFINE r == report
    <3>1. r \in Numbers /\ CountsRight(f, r, b) /\ LinePlace = b
      BY <1>0, <1>2
    <3> HIDE DEF r, e
    <3>2. Counted(r, LineAt(f, b)) \in Numbers /\ CountsRight(f, Counted(r, LineAt(f, b)), e + 1)
      BY <1>1, <1>5, <1>6, <1>12, <3>1, LineCounted DEF e
    <3> QED BY <3>2 DEF r
  <2>3. report' \in Numbers /\ CountsRight(file', report', LinePlace')
    BY <1>3, <1>6, <1>8, <2>1, <2>2
  <2> QED BY <1>1, <1>2, <1>3, <1>9, <1>10, <2>1, <2>3 DEF FileInv, FileTypes
<1> QED BY <1>11, <1>12

\* The end of the file: what is left is its last line, or nothing is.
LEMMA FileEnded ==
  ASSUME FileInv, EndOfFile
  PROVE  FileInv'
<1>0. PICK f, b, d, line : f = file /\ b = LinePlace /\ d = received - Len(held) /\ line = carry \o Chars(held)
  OBVIOUS
<1>1. f \in Seq(FileByte) /\ received = Len(f) /\ d \in 0..Len(f) /\ b \in 1..(d + 1) /\ Len(f) \in Nat
      /\ Clean(f, d) /\ held = SubSeq(f, d + 1, Len(f))
  <2>1. d \in 0..received /\ Clean(file, d) /\ held = SubSeq(file, d + 1, received)
    BY <1>0, HeldIs DEF FileInv, FileTypes
  <2>2. file \in Seq(FileByte) /\ received = Len(file) /\ Len(file) \in Nat
    BY DEF FileInv, FileTypes, EndOfFile
  <2>3. b \in 1..(d + 1)
    BY <1>0 DEF FileInv, CarryRight
  <2> QED BY <1>0, <2>1, <2>2, <2>3
<1>2. /\ carry = SubSeq(Chars(f), b, d) /\ (b = 1 \/ f[b - 1] = "newline")
      /\ report \in Numbers /\ download = "reading" /\ CountsRight(f, report, b)
  BY <1>0 DEF FileInv, FileTypes, CarryRight, EndOfFile
<1>3. /\ Newlines(carry) = {}
      /\ IF line = <<>> THEN download' = "done" /\ UNCHANGED report ELSE Summarise(line, "done")
      /\ UNCHANGED <<file, received, held, carry>>
  BY <1>0 DEF EndOfFile
<1>4. line = SubSeq(Chars(f), b, Len(f))
  <2>1. Chars(SubSeq(f, d + 1, Len(f))) = SubSeq(Chars(f), d + 1, Len(f))
    <3>1. Len(f) \in d..Len(f) /\ Clean(f, Len(f))
      BY <1>1 DEF Clean
    <3> QED BY <1>1, <3>1, CleanText
  <2>2. b \in 1..(Len(f) + 1) /\ d \in (b - 1)..Len(f) /\ Len(f) \in d..Len(f)
    BY <1>1
  <2>3. Chars(f) \in Seq(TextByte) /\ Len(Chars(f)) = Len(f)
    BY <1>1, CharsOfSeq
  <2> DEFINE n == Len(f)
  <2>4. n \in d..Len(Chars(f)) /\ b \in 1..(Len(Chars(f)) + 1) /\ d \in (b - 1)..Len(Chars(f))
    BY <2>2, <2>3
  <2> HIDE DEF n
  <2>5. SubSeq(Chars(f), b, d) \o SubSeq(Chars(f), d + 1, n) = SubSeq(Chars(f), b, n)
    BY <2>3, <2>4, ConcatAdjacentSubSeq
  <2> QED BY <1>0, <1>1, <1>2, <2>1, <2>5 DEF n
<1>5. HeldRight' /\ CarryRight'
  BY <1>3 DEF FileInv, HeldRight, CarryRight, LinePlace
<1>6. CASE b = Len(f) + 1
  <2>1. line = <<>>
    BY <1>1, <1>4, <1>6, SubSeqEmpty
  <2>2. download' = "done" /\ report' = report
    BY <1>3, <2>1
  <2>3. CountsRight(file', report', Len(file') + 1)
    BY <1>0, <1>2, <1>3, <1>6, <2>2
  <2> QED BY <1>2, <1>3, <1>5, <2>2, <2>3 DEF FileInv, FileTypes
<1>7. CASE b \in 1..Len(f)
  <2>1. \A j \in b..Len(f) : f[j] # "newline"
    <3> SUFFICES ASSUME NEW j \in b..Len(f), f[j] = "newline" PROVE FALSE
      OBVIOUS
    <3>1. Glyph(f, j) = "newline" /\ j \in Nat /\ j >= b /\ j <= Len(f)
      BY <1>1, NewlinesStay
    <3>2. CASE j <= d
      <4>1. b \in 1..(Len(f) + 1) /\ d \in (b - 1)..Len(f) /\ j - b + 1 \in 1..(d - b + 1) /\ b + (j - b + 1) - 1 = j
        BY <1>1, <3>1, <3>2
      <4>2. Len(carry) = d - b + 1 /\ \A i \in 1..(d - b + 1) : carry[i] = Glyph(f, b + i - 1)
        BY <1>1, <1>2, <4>1, TextPieces
      <4>3. carry[j - b + 1] = "newline"
        BY <3>1, <4>1, <4>2
      <4>4. j - b + 1 \in Newlines(carry)
        BY <4>1, <4>2, <4>3 DEF Newlines
      <4> QED BY <1>3, <4>4
    <3>3. CASE d < j
      <4>1. held # <<>>
        <5>1. Len(held) # 0
          BY <1>0, <1>1, <3>1, <3>3
        <5>2. Len(<<>>) = 0
          OBVIOUS
        <5> QED BY <5>1, <5>2
      <4>2. held = <<"byte1">> /\ f[Len(f)] = "byte1"
        BY <1>0, <1>1, <4>1 DEF FileInv, HeldRight
      <4>3. Len(held) = 1
        BY <4>2
      <4>4. j = Len(f)
        BY <1>0, <1>1, <3>1, <3>3, <4>3
      <4> QED BY <4>2, <4>4
    <3> QED BY <1>1, <3>1, <3>2, <3>3
  <2>2. /\ b \in Starts(f) /\ EndsAt(f, b, Len(f) + 1)
        /\ LineAt(f, b) = line /\ LineAt(f, b) \in Title /\ line # <<>>
    BY <1>1, <1>2, <1>4, <1>7, <2>1, LastLine
  <2>3. Summarise(LineAt(f, b), "done")
    BY <1>3, <2>2
  <2>4. CASE KindOf(LineAt(f, b)) = "broken"
    <3>1. download' = "unreadable" /\ report' = report
      BY <2>3, <2>4 DEF Summarise
    <3>2. b \in Of(f, {"broken"})
      BY <2>2, <2>4 DEF Of
    <3> QED BY <1>0, <1>2, <1>3, <1>5, <3>1, <3>2 DEF FileInv, FileTypes
  <2>5. CASE KindOf(LineAt(f, b)) # "broken"
    <3>1. download' = "done" /\ report' = Counted(report, LineAt(f, b))
      BY <2>3, <2>5 DEF Summarise
    <3> DEFINE r == report
               e == Len(f) + 1
    <3>0. e \in b..(Len(f) + 1) /\ e \in Nat /\ e + 1 \in Nat /\ e + 1 > Len(f) /\ e > Len(f)
      BY <1>1, <1>7
    <3>00. r \in Numbers /\ CountsRight(f, r, b) /\ LinePlace = b /\ EndsAt(f, b, e)
      BY <1>0, <1>2, <2>2
    <3> HIDE DEF r, e
    <3>2. r \in Numbers /\ CountsRight(f, r, b) /\ LinePlace = b /\ e \in b..(Len(f) + 1) /\ EndsAt(f, b, e)
          /\ e \in Nat /\ e + 1 \in Nat /\ e + 1 > Len(f) /\ e > Len(f)
      BY <3>0, <3>00
    <3>3. Counted(r, LineAt(f, b)) \in Numbers /\ CountsRight(f, Counted(r, LineAt(f, b)), e + 1)
      BY <1>1, <2>2, <2>5, <3>2, LineCounted
    <3>4. \A kinds : Before(f, e + 1, kinds) = Before(f, e, kinds)
      <4>1. \A kinds : Before(f, e + 1, kinds) = Of(f, kinds)
        BY <1>1, <3>2, AllBefore
      <4>2. \A kinds : Before(f, e, kinds) = Of(f, kinds)
        BY <1>1, <3>2, AllBefore
      <4> QED BY <4>1, <4>2
    <3>5. CountsRight(f, Counted(r, LineAt(f, b)), e)
      BY <3>3, <3>4 DEF CountsRight, SampleRight
    <3>6. report' \in Numbers /\ CountsRight(file', report', Len(file') + 1)
      BY <1>0, <1>3, <3>1, <3>3, <3>5 DEF r, e
    <3> QED BY <1>3, <1>5, <3>1, <3>6 DEF FileInv, FileTypes
  <2> QED BY <2>4, <2>5
<1> QED BY <1>1, <1>6, <1>7

LEMMA FileInvHolds == FileSpec => []FileInv
<1>1. FileInit => FileInv
  <2> SUFFICES ASSUME FileInit PROVE FileInv
    OBVIOUS
  <2>1. file \in Seq(FileByte) /\ received = 0 /\ held = <<>> /\ carry = <<>>
        /\ report = EmptyReport /\ download = "asked" /\ Len(file) \in Nat
    BY FileAssumption DEF FileInit
  <2>2. LinePlace = 1 /\ received - Len(held) = 0
    <3>1. Len(held) = 0 /\ Len(carry) = 0
      BY <2>1
    <3>2. LinePlace = (0 - 0) - 0 + 1
      BY <2>1, <3>1 DEF LinePlace
    <3>3. (0 - 0) - 0 + 1 = 1 /\ 0 - 0 = 0
      OBVIOUS
    <3>4. received = 0
      BY <2>1
    <3>5. received - Len(held) = 0 - 0
      BY <3>1, <3>4
    <3> QED BY <3>2, <3>3, <3>5
  <2>3. CarryRight
    <3>1. SubSeq(Chars(file), 1, 0) = <<>>
      BY SubSeqEmpty
    <3> QED BY <2>1, <2>2, <3>1 DEF CarryRight
  <2>4. HeldRight
    BY <2>1 DEF HeldRight, Clean
  <2> DEFINE zeros == [s \in FileSteps |-> 0]
             Item == [place : Nat, title : Title]
  <2>5. zeros \in [FileSteps -> Nat] /\ <<>> \in Seq(Item) /\ \A s \in FileSteps : zeros[s] = 0
    OBVIOUS
  <2>6. report = [objectCount |-> 0, byStep |-> zeros, withoutStep |-> 0, unrecognised |-> 0, sample |-> <<>>]
    BY <2>1 DEF EmptyReport
  <2> HIDE DEF zeros, Item
  <2>7. report \in Numbers
    BY <2>5, <2>6 DEF Numbers, Item
  <2>8. \A kinds : Before(file, 1, kinds) = {} /\ Cardinality({}) = 0
    BY NothingBefore, FS_EmptySet
  <2>9. zeros["cleanse"] = 0 /\ zeros["treat"] = 0 /\ zeros["moisturize"] = 0
    BY <2>5 DEF FileSteps
  <2>10. report.objectCount = 0 /\ report.byStep = zeros /\ report.withoutStep = 0
         /\ report.unrecognised = 0 /\ report.sample = <<>>
    BY <2>6
  <2>11. SampleRight(file, <<>>, 1)
    <3>1. Len(<<>>) = 0 /\ 0 < MaxSample
      BY FileAssumption
    <3> QED BY <2>8, <3>1 DEF SampleRight
  <2>12. CountsRight(file, report, 1)
    <3>1. \A kinds : Cardinality(Before(file, 1, kinds)) = 0
      BY <2>8
    <3>2. /\ \A s \in FileSteps : report.byStep[s] = 0
          /\ report.byStep["cleanse"] = 0 /\ report.byStep["treat"] = 0 /\ report.byStep["moisturize"] = 0
      BY <2>5, <2>9, <2>10
    <3>3. report.objectCount = report.byStep["cleanse"] + report.byStep["treat"]
            + report.byStep["moisturize"] + report.unrecognised + report.withoutStep
      BY <2>10, <3>2
    <3>4. SampleRight(file, report.sample, 1)
      BY <2>10, <2>11
    <3> QED BY <2>8, <2>10, <3>1, <3>2, <3>3, <3>4 DEF CountsRight
  <2> QED BY <2>1, <2>2, <2>3, <2>4, <2>7, <2>12 DEF FileInv, FileTypes
<1>2. FileInv /\ [FileNext]_fileVars => FileInv'
  <2> SUFFICES ASSUME FileInv, [FileNext]_fileVars PROVE FileInv'
    OBVIOUS
  <2>1. ASSUME UNCHANGED <<file, received, held, carry, report>>
        PROVE  /\ HeldRight' /\ CarryRight' /\ LinePlace' = LinePlace
               /\ file' = file /\ received' = received /\ report' = report
    BY <2>1 DEF FileInv, HeldRight, CarryRight, LinePlace
  <2>2. CASE NoFile
    <3>1. file = <<>> /\ download = "asked" /\ download' = "done"
          /\ UNCHANGED <<file, received, held, carry, report>>
      BY <2>2 DEF NoFile
    <3>2. Len(file) = 0 /\ received = 0
      BY <3>1 DEF FileInv
    <3>3. LinePlace = Len(file) + 1
      <4>1. received - Len(held) \in 0..received
        BY HeldIs DEF FileInv, FileTypes
      <4>2. LinePlace \in 1..((received - Len(held)) + 1)
        BY DEF FileInv, CarryRight
      <4> QED BY <3>2, <4>1, <4>2
    <3> QED BY <2>1, <3>1, <3>3 DEF FileInv, FileTypes
  <2>3. CASE \E ok \in BOOLEAN : Respond(ok)
    <3>1. download = "asked" /\ download' \in {"reading", "failed"}
          /\ UNCHANGED <<file, received, held, carry, report>>
      BY <2>3 DEF Respond
    <3> QED BY <2>1, <3>1 DEF FileInv, FileTypes
  <2>4. ASSUME NEW n \in 1..(Len(file) - received), ReadChunk(n)
        PROVE  FileInv'
    <3>1. HeldRight' /\ CarryRight' /\ LinePlace' = LinePlace
      BY <2>4, ChunkText DEF FileInv
    <3>2. received' = received + n /\ file' = file /\ report' = report
          /\ download = "reading" /\ download' = "reading"
      BY <2>4 DEF ReadChunk
    <3>3. received' \in 0..Len(file')
      BY <3>2 DEF FileInv, FileTypes
    <3> QED BY <3>1, <3>2, <3>3 DEF FileInv, FileTypes
  <2>5. CASE \E i \in 1..Len(carry) : YieldLine(i)
    BY <2>5, LineYielded
  <2>6. CASE EndOfFile
    BY <2>6, FileEnded
  <2>7. CASE BreakOff
    <3>1. download = "reading" /\ download' = "failed"
          /\ UNCHANGED <<file, received, held, carry, report>>
      BY <2>7 DEF BreakOff
    <3> QED BY <2>1, <3>1 DEF FileInv, FileTypes
  <2>8. CASE UNCHANGED fileVars
    <3>1. UNCHANGED <<file, received, held, carry, report>> /\ download' = download
      BY <2>8 DEF fileVars
    <3> QED BY <2>1, <3>1 DEF FileInv, FileTypes
  <2> QED BY <2>2, <2>3, <2>4, <2>5, <2>6, <2>7, <2>8 DEF FileNext
<1> QED BY <1>1, <1>2, PTL DEF FileSpec

\* However the file was cut into chunks, the report counts every product of it
\* once and adds up, its sample is the first products without a step, in order
\* and with their titles whole, and only a line that is not JSON refuses a file:
\* for every file of every length.
THEOREM ReportCountsTheFile == FileSpec => []ReportAddsUp
<1>1. FileInv => ReportAddsUp
  <2> SUFFICES ASSUME FileInv PROVE ReportAddsUp
    OBVIOUS
  <2>1. ASSUME download = "done"
        PROVE  /\ CountsRight(file, report, Len(file) + 1)
               /\ \A kinds : Before(file, Len(file) + 1, kinds) = Of(file, kinds)
    <3>1. file \in Seq(FileByte) /\ Len(file) + 1 \in Nat /\ Len(file) + 1 > Len(file)
      BY DEF FileInv, FileTypes
    <3> QED BY <2>1, <3>1, AllBefore DEF FileInv
  <2>2. report.sample \in Seq([place : Nat, title : Title])
    BY DEF FileInv, FileTypes, Numbers
  <2>3. DOMAIN report.sample = 1..Len(report.sample)
    BY <2>2
  <2> QED BY <2>1, <2>3 DEF FileInv, ReportAddsUp, CountsRight, SampleRight
<1> QED BY <1>1, FileInvHolds, PTL
=============================================================================
