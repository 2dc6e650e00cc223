----------------------------- MODULE DisplayProofs -----------------------------
(***************************************************************************)
(* Proofs about Display, for any number of scanners, timers, verdicts and  *)
(* restarts and a display of any size: a text that nobody without the      *)
(* mutex has overlapped is whole, bytes meet only where there was such a   *)
(* thread, the display is ready when the scanners run, and no verdict      *)
(* stays.                                                                  *)
(***************************************************************************)
EXTENDS Display, SequenceTheorems, FiniteSetTheorems, TLAPS
-----------------------------------------------------------------------------
\* A scan thread that shows a verdict has the mutex, if there is one; a timer
\* that sleeps does not write.
Callers ==
  /\ \A s \in Scanners :
       /\ Busy(s) => writes[s] # Nothing
       /\ writes[s] # Nothing => mpc = "run" /\ sLCDMutex \in {s, Destroyed}
  /\ \A t \in asleep : ~Busy(t)

\* What the main thread has left to write at each step of a restart.
OffBytes == {<<Byte("clear", 0), Byte("light", FALSE)>>, <<Byte("light", FALSE)>>, <<>>}
OnBytes ==
  {<<Byte("reset", 0), Byte("clear", 0), Byte("home", Origin), Byte("light", TRUE)>>,
   <<Byte("clear", 0), Byte("home", Origin), Byte("light", TRUE)>>,
   <<Byte("home", Origin), Byte("light", TRUE)>>,
   <<Byte("light", TRUE)>>}
MainBytes ==
  /\ mpc \in {"run", "delete"} => rest[Main] = <<>>
  /\ mpc = "destroy" => rest[Main] \in OffBytes /\ writes[Main] = Nothing
  /\ mpc = "create" /\ Busy(Main) =>
       rest[Main] \in OnBytes /\ writes[Main] = Nothing /\ sLCDInit
  /\ mpc = "default" => rest[Main] \in Seq(TextByte)
  /\ \A t \in Scanners \cup Timers : rest[t] \in Seq(TextByte)

\* A display that is said to be set up is to be used, has its mutex and is lit, or
\* about to be.
SetUp ==
  /\ sLCDInit => /\ gUseLCD /\ fd /\ sLCDMutex # Destroyed
                 /\ lit \/ torn \/ (mpc = "create" /\ Busy(Main))
  /\ mpc \in {"run", "default", "create"} /\ gUseLCD /\ fd => sLCDInit
  /\ mpc \in {"run", "default"} => objects = Cardinality(Scanners)
  /\ mpc = "delete" /\ objects < Cardinality(Scanners) => ~sLCDInit
  /\ mpc = "destroy" => ~sLCDInit

\* Two write at a time only if one of them did without the mutex, which is remembered.
Meetings ==
  /\ \A t, u \in Busies : t # u => met /\ t \in overlapped /\ u \in overlapped
  /\ torn => met

\* The display shows i cells of the first line of m and j of the second.
Drawn(m, i, j) ==
  \A x \in 0..(COLS - 1) :
    /\ ddram[0][x] = (IF x < i THEN m[1].text ELSE Blank)
    /\ ddram[1][x] = (IF x < j THEN m[2].text ELSE Blank)
At(x, y) == xy = [x |-> x, y |-> y] /\ address = [x |-> x, y |-> y]

\* The bytes of the last k characters of a line, and those of the second line.
Left(line, k) == [i \in 1..k |-> Byte("data", line.text)]
Second(m) == lcd_i2c_gotoxy(0, 1) \o lcd_i2c_puts(m[2])

\* How far a text is, and what is on the display of it.
Begun(r, m) == r = Text(m)
Cleared(r, m) ==
  Drawn(m, 0, 0) /\ r = lcd_i2c_gotoxy(0, 0) \o (lcd_i2c_puts(m[1]) \o Second(m))
InFirst(r, m) ==
  \E k \in 0..m[1].len :
    /\ Drawn(m, m[1].len - k, 0) /\ r = Left(m[1], k) \o Second(m)
    /\ k > 0 => At(m[1].len - k, 0)
FirstFull(r, m) ==
  m[1].len = COLS /\ Drawn(m, COLS, 0) /\ r = lcd_i2c_gotoxy(0, 1) \o Second(m)
InSecond(r, m) ==
  \E k \in 0..m[2].len :
    /\ Drawn(m, m[1].len, m[2].len - k) /\ r = Left(m[2], k)
    /\ k > 0 => At(m[2].len - k, 1)
SecondFull(r, m) ==
  m[2].len = COLS /\ Drawn(m, m[1].len, COLS) /\ r = lcd_i2c_gotoxy(0, 0)

Progress(r, m) ==
  \/ Begun(r, m) \/ Cleared(r, m) \/ InFirst(r, m) \/ FirstFull(r, m)
  \/ InSecond(r, m) \/ SecondFull(r, m)

\* The main thread clears the display before it does anything else that lasts.
Clearing(r) == Len(r) <= 2 /\ Head(r).op # "clear" => Drawn(Nothing, 0, 0)

OnItsWay(t) ==
  IF t = Main /\ mpc \in {"destroy", "create"}
  THEN Clearing(rest[t])
  ELSE Progress(rest[t], writes[t])

Alone(t) == Busy(t) /\ t \notin overlapped /\ fd /\ ~torn
Texting == \A t \in Threads : Alone(t) => OnItsWay(t)

Shown ==
  Busies = {} /\ fd /\ ~torn /\ last.alone => Screen = Picture(last.text)

\* A verdict is under way, or a timer that will take it back.
Pending ==
  \/ asleep # {}
  \/ \E s \in Scanners : writes[s] # Nothing
  \/ \E t \in Timers : Busy(t)

\* Timers, and the main thread in the end of a restart, write the default lines, and what
\* is not of them will be taken back.
TakesBack ==
  /\ \A t \in Timers : Busy(t) => writes[t] = Defaults
  /\ mpc = "default" /\ Busy(Main) => writes[Main] = Defaults
  /\ mpc \in {"run", "default"} /\ ~Busy(Main) => last.text = Defaults \/ Pending

\* The inductive invariant.
IInv ==
  /\ TypeOK /\ Callers /\ MainBytes /\ SetUp /\ Meetings /\ Texting /\ Shown /\ TakesBack
-----------------------------------------------------------------------------
(***************************************************************************)
(* Bytes, lines and texts.                                                 *)
(***************************************************************************)
\* The numbers of columns and cells.
LEMMA Sizes == COLS \in Nat \ {0} /\ WIDTH \in Nat /\ WIDTH >= COLS
BY DisplayAssumption

\* The threads are of three kinds.
LEMMA Kinds ==
  /\ Scanners \cap Bare = {} /\ Bare = Timers \cup {Main}
  /\ Threads = Scanners \cup Bare /\ Main \notin Scanners \cup Timers
BY DisplayAssumption DEF Threads, Bare

\* The lines of a text fit.
LEMMA Lines ==
  ASSUME NEW m \in Texts, NEW i \in {1, 2}
  PROVE  m[i].text \in Cells /\ m[i].len \in 0..COLS
<1>1. CASE m = Nothing
  <2>1. m[i] = NoLine BY <1>1 DEF Nothing
  <2> QED BY <2>1, Sizes DEF NoLine, Cells
<1>2. CASE m \in Messages \cup {Defaults}
  <2>1. i \in 1..ROWS BY DEF ROWS
  <2> QED BY <1>2, <2>1, DisplayAssumption DEF Cells
<1> QED BY <1>1, <1>2 DEF Texts

\* The bytes of calls.
LEMMA ByteTypes ==
  /\ Byte("clear", 0) \in TextByte
  /\ \A x \in 0..(COLS - 1), y \in Rows : Byte("address", [x |-> x, y |-> y]) \in TextByte
  /\ \A c \in Cells : Byte("data", c) \in TextByte
  /\ TextByte \subseteq LcdByte
BY DEF Byte, TextByte, LcdByte, Places

\* The two rows, and the first column.
LEMMA RowsAre == Rows = {0, 1} /\ 0 \in 0..(COLS - 1) /\ ROWS = 2
BY Sizes DEF Rows, ROWS

\* Concatenation, of whole sequences.
LEMMA Catenation ==
  ASSUME NEW S, NEW s \in Seq(S), NEW u \in Seq(S)
  PROVE  /\ s \o u \in Seq(S) /\ Len(s \o u) = Len(s) + Len(u)
         /\ \A i \in 1..Len(s) : (s \o u)[i] = s[i]
         /\ \A i \in (Len(s) + 1)..(Len(s) + Len(u)) : (s \o u)[i] = u[i - Len(s)]
OBVIOUS

\* Two bytes...
LEMMA Two ==
  ASSUME NEW S, NEW a \in S, NEW b \in S
  PROVE  <<a, b>> \in Seq(S) /\ <<a>> \o <<b>> = <<a, b>>
<1> DEFINE w == <<a>> \o <<b>>
           v == <<a, b>>
<1>1. Len(w) = 2 /\ w[1] = a /\ w[2] = b /\ w \in Seq(S) OBVIOUS
<1>2. Len(v) = 2 /\ v[1] = a /\ v[2] = b /\ v \in Seq(S) OBVIOUS
<1> HIDE DEF w, v
<1>3. Len(w) = Len(v) BY <1>1, <1>2
<1>4. \A i \in 1..Len(w) : w[i] = v[i] BY <1>1, <1>2
<1>5. w = v BY <1>1, <1>2, <1>3, <1>4, SeqEqual
<1> QED BY <1>1, <1>2, <1>5 DEF w, v

\* ... three ...
LEMMA Three ==
  ASSUME NEW S, NEW a \in S, NEW b \in S, NEW c \in S
  PROVE  <<a, b, c>> \in Seq(S) /\ <<a, b>> \o <<c>> = <<a, b, c>>
<1> DEFINE w == <<a, b>> \o <<c>>
           v == <<a, b, c>>
<1>1. Len(w) = 3 /\ w[1] = a /\ w[2] = b /\ w[3] = c /\ w \in Seq(S) OBVIOUS
<1>2. Len(v) = 3 /\ v[1] = a /\ v[2] = b /\ v[3] = c /\ v \in Seq(S) OBVIOUS
<1> HIDE DEF w, v
<1>3. Len(w) = Len(v) BY <1>1, <1>2
<1>4. \A i \in 1..Len(w) : w[i] = v[i] BY <1>1, <1>2
<1>5. w = v BY <1>1, <1>2, <1>3, <1>4, SeqEqual
<1> QED BY <1>1, <1>2, <1>5 DEF w, v

\* ... and four.
LEMMA Four ==
  ASSUME NEW S, NEW a \in S, NEW b \in S, NEW c \in S, NEW d \in S
  PROVE  <<a, b, c, d>> \in Seq(S) /\ <<a, b, c>> \o <<d>> = <<a, b, c, d>>
<1> DEFINE w == <<a, b, c>> \o <<d>>
           v == <<a, b, c, d>>
<1>1. Len(w) = 4 /\ w[1] = a /\ w[2] = b /\ w[3] = c /\ w[4] = d /\ w \in Seq(S) OBVIOUS
<1>2. Len(v) = 4 /\ v[1] = a /\ v[2] = b /\ v[3] = c /\ v[4] = d /\ v \in Seq(S) OBVIOUS
<1> HIDE DEF w, v
<1>3. Len(w) = Len(v) BY <1>1, <1>2
<1>4. \A i \in 1..Len(w) : w[i] = v[i] BY <1>1, <1>2
<1>5. w = v BY <1>1, <1>2, <1>3, <1>4, SeqEqual
<1> QED BY <1>1, <1>2, <1>5 DEF w, v

\* A byte before others.
LEMMA OneThen ==
  ASSUME NEW S, NEW b \in S, NEW u \in Seq(S)
  PROVE  /\ <<b>> \o u \in Seq(S) /\ <<b>> \o u # <<>>
         /\ Head(<<b>> \o u) = b /\ Tail(<<b>> \o u) = u
<1> DEFINE w == <<b>> \o u
<1>1. <<b>> \in Seq(S) /\ Len(<<b>>) = 1 OBVIOUS
<1>2. /\ w \in Seq(S) /\ Len(w) = 1 + Len(u)
      /\ \A i \in 1..(1 + Len(u)) : w[i] = IF i <= 1 THEN <<b>>[i] ELSE u[i - 1]
  BY <1>1, ConcatProperties
<1>3. Len(u) \in Nat OBVIOUS
<1>4. w # <<>> BY <1>2, <1>3
<1>5. Head(w) = b BY <1>2, <1>3, <1>4
<1>6. /\ Tail(w) \in Seq(S) /\ Len(Tail(w)) = Len(u)
      /\ \A i \in 1..Len(u) : Tail(w)[i] = w[i + 1]
  BY <1>2, <1>3, <1>4, HeadTailProperties
<1>7. \A i \in 1..Len(u) : Tail(w)[i] = u[i]
  BY <1>2, <1>3, <1>6
<1>8. Tail(w) = u BY <1>6, <1>7, SeqEqual
<1> QED BY <1>2, <1>4, <1>5, <1>8

\* The rest of a line.
LEMMA LeftTypes ==
  ASSUME NEW line, line.text \in Cells, NEW k \in Nat
  PROVE  Left(line, k) \in Seq(TextByte) /\ Len(Left(line, k)) = k
<1>1. Byte("data", line.text) \in TextByte BY ByteTypes
<1>2. Left(line, k) \in [1..k -> TextByte] BY <1>1 DEF Left
<1> QED BY <1>2

\* A character of it is written.
LEMMA LeftThen ==
  ASSUME NEW line, line.text \in Cells, NEW k \in Nat \ {0}, NEW u \in Seq(TextByte)
  PROVE  /\ Left(line, k) \o u \in Seq(TextByte) /\ Left(line, k) \o u # <<>>
         /\ Head(Left(line, k) \o u) = Byte("data", line.text)
         /\ Tail(Left(line, k) \o u) = Left(line, k - 1) \o u
<1> DEFINE d == Byte("data", line.text)
<1>1. /\ Left(line, k) \in Seq(TextByte) /\ Len(Left(line, k)) = k
      /\ Left(line, k - 1) \in Seq(TextByte) /\ Len(Left(line, k - 1)) = k - 1
  BY LeftTypes
<1>2. d \in TextByte BY ByteTypes
<1>3. Left(line, k) = <<d>> \o Left(line, k - 1)
  <2> DEFINE w == <<d>> \o Left(line, k - 1)
  <2>1. <<d>> \in Seq(TextByte) /\ Len(<<d>>) = 1 BY <1>2
  <2>2. w \in Seq(TextByte) /\ Len(w) = k BY <1>1, <2>1, Catenation
  <2>3. ASSUME NEW i \in 1..k PROVE w[i] = d
    <3>1. CASE i = 1
      <4>1. \A j \in 1..Len(<<d>>) : w[j] = <<d>>[j] BY <1>1, <2>1, Catenation
      <4> QED BY <3>1, <2>1, <4>1
    <3>2. CASE i # 1
      <4>1. \A j \in (1 + 1)..(1 + (k - 1)) : w[j] = Left(line, k - 1)[j - 1]
        BY <1>1, <2>1, Catenation
      <4>2. i - 1 \in 1..(k - 1) /\ i \in (1 + 1)..(1 + (k - 1)) BY <3>2
      <4>3. Left(line, k - 1)[i - 1] = d BY <4>2 DEF Left
      <4> QED BY <4>1, <4>2, <4>3
    <3> QED BY <3>1, <3>2
  <2>4. \A i \in 1..k : Left(line, k)[i] = d BY DEF Left
  <2> HIDE DEF w, d
  <2>5. \A i \in 1..Len(w) : w[i] = Left(line, k)[i] BY <2>2, <2>3, <2>4
  <2>6. Len(w) = Len(Left(line, k)) BY <1>1, <2>2
  <2> DEFINE v == Left(line, k)
  <2>7. w \in Seq(TextByte) /\ v \in Seq(TextByte) BY <1>1, <2>2
  <2> HIDE DEF v
  <2>8. w = v BY <2>5, <2>6, <2>7, SeqEqual DEF v
  <2> QED BY <2>8 DEF v, w, d
<1>4. Left(line, k) \o u = <<d>> \o (Left(line, k - 1) \o u)
  <2>1. <<d>> \in Seq(TextByte) BY <1>2
  <2> QED BY <1>1, <1>3, <2>1, ConcatAssociative
<1>5. Left(line, k - 1) \o u \in Seq(TextByte) BY <1>1, Catenation
<1> HIDE DEF d
<1>6. /\ <<d>> \o (Left(line, k - 1) \o u) \in Seq(TextByte)
      /\ <<d>> \o (Left(line, k - 1) \o u) # <<>>
      /\ Head(<<d>> \o (Left(line, k - 1) \o u)) = d
      /\ Tail(<<d>> \o (Left(line, k - 1) \o u)) = Left(line, k - 1) \o u
  BY <1>2, <1>5, OneThen
<1> QED BY <1>4, <1>6 DEF d

\* Nothing of a line is left.
LEMMA LeftNothing ==
  ASSUME NEW line, NEW u \in Seq(TextByte)
  PROVE  Left(line, 0) = <<>> /\ Left(line, 0) \o u = u
<1>1. Left(line, 0) = <<>> BY DEF Left
<1> QED BY <1>1, ConcatEmptySeq

\* What a text is made of.
LEMMA TextParts ==
  ASSUME NEW m \in Texts
  PROVE  /\ \A i \in {1, 2} : /\ lcd_i2c_puts(m[i]) = Left(m[i], m[i].len)
                              /\ lcd_i2c_puts(m[i]) \in Seq(TextByte)
         /\ Second(m) \in Seq(TextByte)
         /\ lcd_i2c_puts(m[1]) \o Second(m) \in Seq(TextByte)
         /\ Text(m) = <<Byte("clear", 0)>> \o
                        (lcd_i2c_gotoxy(0, 0) \o (lcd_i2c_puts(m[1]) \o Second(m)))
         /\ lcd_i2c_gotoxy(0, 0) \o (lcd_i2c_puts(m[1]) \o Second(m)) \in Seq(TextByte)
         /\ Text(m) \in Seq(TextByte) /\ Text(m) # <<>>
<1>1. ASSUME NEW i \in {1, 2}
      PROVE lcd_i2c_puts(m[i]) = Left(m[i], m[i].len) /\ lcd_i2c_puts(m[i]) \in Seq(TextByte)
  <2>1. m[i].text \in Cells /\ m[i].len \in Nat BY Lines
  <2>2. Left(m[i], m[i].len) \in Seq(TextByte) BY <2>1, LeftTypes
  <2> QED BY <2>2 DEF Left, lcd_i2c_puts
<1>2. /\ lcd_i2c_clear \in Seq(TextByte)
      /\ lcd_i2c_gotoxy(0, 0) \in Seq(TextByte) /\ lcd_i2c_gotoxy(0, 1) \in Seq(TextByte)
  BY ByteTypes, RowsAre DEF lcd_i2c_clear, lcd_i2c_gotoxy
<1> HIDE DEF Second
<1>3. lcd_i2c_puts(m[1]) \in Seq(TextByte) /\ lcd_i2c_puts(m[2]) \in Seq(TextByte) BY <1>1
<1>4. Second(m) \in Seq(TextByte) BY <1>2, <1>3, ConcatProperties DEF Second
<1>5. lcd_i2c_puts(m[1]) \o Second(m) \in Seq(TextByte) BY <1>3, <1>4, ConcatProperties
<1>6. lcd_i2c_gotoxy(0, 0) \o (lcd_i2c_puts(m[1]) \o Second(m)) \in Seq(TextByte)
  BY <1>2, <1>5, ConcatProperties
<1> DEFINE c == lcd_i2c_clear
           g == lcd_i2c_gotoxy(0, 0)
           h == lcd_i2c_gotoxy(0, 1)
           p == lcd_i2c_puts(m[1])
           q == lcd_i2c_puts(m[2])
<1>7. Text(m) = c \o (g \o (p \o Second(m)))
  <2> DEFINE a == c \o g
             b == h \o q
             d == a \o p
             e == p \o b
  <2>1. /\ c \in Seq(TextByte) /\ g \in Seq(TextByte) /\ h \in Seq(TextByte)
        /\ p \in Seq(TextByte) /\ q \in Seq(TextByte)
    BY <1>2, <1>3
  <2> HIDE DEF c, g, h, p, q
  <2>2. a \in Seq(TextByte) /\ b \in Seq(TextByte) BY <2>1, Catenation
  <2> HIDE DEF a, b
  <2>3. d \in Seq(TextByte) /\ e \in Seq(TextByte) BY <2>1, <2>2, Catenation
  <2>4. d \o b = a \o e
    <3>1. p \in Seq(TextByte) BY <2>1
    <3> QED BY <2>2, <3>1
  <2> HIDE DEF d, e
  <2>5. (d \o h) \o q = d \o b
    <3>1. d \in Seq(TextByte) /\ h \in Seq(TextByte) /\ q \in Seq(TextByte) BY <2>1, <2>3
    <3> QED BY <3>1 DEF b
  <2>6. a \o e = c \o (g \o e)
    <3>1. c \in Seq(TextByte) /\ g \in Seq(TextByte) /\ e \in Seq(TextByte) BY <2>1, <2>3
    <3> QED BY <3>1 DEF a
  <2>7. (d \o h) \o q = c \o (g \o e) BY <2>4, <2>5, <2>6
  <2>8. (((c \o g) \o p) \o h) \o q = c \o (g \o (p \o (h \o q))) BY <2>7 DEF a, b, d, e
  <2> QED BY <2>8 DEF Text, Second, c, g, h, p, q
<1>8. Text(m) = <<Byte("clear", 0)>> \o (g \o (p \o Second(m))) BY <1>7 DEF lcd_i2c_clear
<1>9. Text(m) \in Seq(TextByte) /\ Text(m) # <<>> BY <1>6, <1>8, OneThen, ByteTypes
<1> QED BY <1>1, <1>4, <1>5, <1>6, <1>8, <1>9

(***************************************************************************)
(* The types.                                                              *)
(***************************************************************************)
\* TypeOK in three parts.
LcdOK ==
  /\ ddram \in [Rows -> [0..(WIDTH - 1) -> Cells]]
  /\ address \in [x : 0..(WIDTH - 1), y : Rows]
  /\ torn \in BOOLEAN /\ lit \in BOOLEAN /\ fd \in BOOLEAN
BusOK ==
  /\ xy \in Places
  /\ rest \in [Threads -> Seq(LcdByte)] /\ writes \in [Threads -> Texts]
  /\ mid \subseteq Busies /\ clash \subseteq mid
GhostOK ==
  /\ overlapped \subseteq Threads /\ met \in BOOLEAN
  /\ last \in [text : Texts, alone : BOOLEAN]
RestOK ==
  /\ gUseLCD \in BOOLEAN /\ sLCDInit \in BOOLEAN /\ asleep \subseteq Timers
  /\ sLCDMutex \in Scanners \cup {Free, Destroyed}
  /\ mpc \in {"run", "delete", "destroy", "create", "default"}
  /\ objects \in 0..Cardinality(Scanners)
  /\ messages \in 0..MaxMessages /\ restarts \in 0..MaxRestarts

\* The types hold when their parts do.
LEMMA Parts == TypeOK <=> LcdOK /\ BusOK /\ GhostOK /\ RestOK
BY DEF TypeOK, LcdOK, BusOK, GhostOK, RestOK

\* Also after a step.
LEMMA PartsNext == TypeOK' <=> LcdOK' /\ BusOK' /\ GhostOK' /\ RestOK'
BY DEF TypeOK, LcdOK, BusOK, GhostOK, RestOK

\* There is a scanner.
LEMMA SomeScanner == Cardinality(Scanners) \in Nat /\ Cardinality(Scanners) > 0
BY DisplayAssumption, FS_CardinalityType, FS_EmptySet

\* An empty memory is one, and its first cell a place.
LEMMA DarkOK ==
  /\ Dark \in [Rows -> [0..(WIDTH - 1) -> Cells]]
  /\ Origin \in [x : 0..(WIDTH - 1), y : Rows] /\ Origin \in Places
<1>1. Blank \in Cells BY DEF Cells
<1>2. 0 \in 0..(WIDTH - 1) /\ 0 \in 0..(COLS - 1) /\ 0 \in Rows BY Sizes, RowsAre
<1> QED BY <1>1, <1>2 DEF Dark, Origin, Places

\* The display is scrambled within its types.
LEMMA ScrambledOK ==
  ASSUME Scrambled
  PROVE  /\ ddram' \in [Rows -> [0..(WIDTH - 1) -> Cells]]
         /\ address' \in [x : 0..(WIDTH - 1), y : Rows] /\ lit' \in BOOLEAN
BY DarkOK DEF Scrambled

\* The next place on the display, and the other row.
LEMMA NextPlace ==
  ASSUME NEW a \in [x : 0..(WIDTH - 1), y : Rows], NEW y \in Rows
  PROVE  /\ a.x + 1 < WIDTH => [a EXCEPT !.x = @ + 1] \in [x : 0..(WIDTH - 1), y : Rows]
         /\ (y + 1) % ROWS \in Rows
         /\ [x |-> 0, y |-> (a.y + 1) % ROWS] \in [x : 0..(WIDTH - 1), y : Rows]
<1>1. \A z \in Rows : (z + 1) % ROWS \in Rows BY RowsAre
<1>2. a.x \in 0..(WIDTH - 1) /\ a.y \in Rows /\ 0 \in 0..(WIDTH - 1) BY Sizes
<1>3. a.x + 1 < WIDTH => a.x + 1 \in 0..(WIDTH - 1) BY <1>2, Sizes
<1> QED BY <1>1, <1>2, <1>3

\* A byte of each kind.
LEMMA ByteKinds ==
  ASSUME NEW b \in LcdByte
  PROVE  /\ b.op \in {"clear", "reset", "address", "home", "data", "light"}
         /\ b.op \in {"address", "home"} => b.arg \in Places
         /\ b.op = "data" => b.arg \in Cells
         /\ b.op = "light" => b.arg \in BOOLEAN
         /\ b.op \in {"clear", "address", "data"} => b \in TextByte
         /\ b \in TextByte => b.op \in {"clear", "address", "data"}
BY DEF LcdByte, TextByte

\* The display takes a byte within its types.
LEMMA TakeOK ==
  ASSUME LcdOK, NEW b \in LcdByte, Take(b)
  PROVE  /\ ddram' \in [Rows -> [0..(WIDTH - 1) -> Cells]]
         /\ address' \in [x : 0..(WIDTH - 1), y : Rows] /\ lit' \in BOOLEAN
<1>0. /\ ddram \in [Rows -> [0..(WIDTH - 1) -> Cells]]
      /\ address \in [x : 0..(WIDTH - 1), y : Rows] /\ lit \in BOOLEAN
  BY DEF LcdOK
<1>1. CASE b.op = "data"
  <2>1. /\ ddram' = [ddram EXCEPT ![address.y][address.x] = b.arg]
        /\ address' = IF address.x + 1 < WIDTH
                      THEN [address EXCEPT !.x = @ + 1]
                      ELSE [x |-> 0, y |-> (address.y + 1) % ROWS]
        /\ lit' = lit
    BY <1>1 DEF Take
  <2>2. b.arg \in Cells BY <1>1, ByteKinds
  <2>3. address' \in [x : 0..(WIDTH - 1), y : Rows] BY <1>0, <2>1, NextPlace
  <2>4. address.y \in Rows /\ address.x \in 0..(WIDTH - 1) BY <1>0
  <2>5. ddram' \in [Rows -> [0..(WIDTH - 1) -> Cells]]
    BY <1>0, <2>1, <2>2, <2>4
  <2> QED BY <1>0, <2>1, <2>3, <2>5
<1>2. CASE b.op \in {"address", "home"}
  <2>1. address' = b.arg /\ ddram' = ddram /\ lit' = lit BY <1>2 DEF Take
  <2>2. b.arg \in Places BY <1>2, ByteKinds
  <2>3. b.arg \in [x : 0..(WIDTH - 1), y : Rows] BY <2>2, Sizes DEF Places
  <2> QED BY <1>0, <2>1, <2>3
<1>3. CASE b.op \in {"clear", "reset"}
  <2>1. ddram' = Dark /\ address' = Origin /\ lit' = lit BY <1>3 DEF Take
  <2> QED BY <1>0, <2>1, DarkOK
<1>4. CASE b.op = "light"
  <2>1. lit' = b.arg /\ ddram' = ddram /\ address' = address BY <1>4 DEF Take
  <2>2. b.arg \in BOOLEAN BY <1>4, ByteKinds
  <2> QED BY <1>0, <2>1, <2>2
<1> QED BY <1>1, <1>2, <1>3, <1>4, ByteKinds

\* Who is in the middle of a byte has it to write.
LEMMA Writing ==
  ASSUME BusOK, NEW t \in Threads, Busy(t)
  PROVE  /\ rest[t] \in Seq(LcdByte) /\ rest[t] # <<>>
         /\ Head(rest[t]) \in LcdByte /\ Tail(rest[t]) \in Seq(LcdByte)
<1>1. rest[t] \in Seq(LcdByte) /\ rest[t] # <<>> BY DEF BusOK, Busy
<1> QED BY <1>1, HeadTailProperties

\* What the end of a byte changes in what is left: a character that ends a line
\* is followed by the move to the next, of any other byte only itself is gone.
LEMMA Rests ==
  ASSUME BusOK, NEW t \in Threads, EndByte(t)
  PROVE  /\ Busy(t) /\ rest' \in [Threads -> Seq(LcdByte)] /\ xy' \in Places
         /\ \A u \in Threads \ {t} : rest'[u] = rest[u]
         /\ \/ rest'[t] = Tail(rest[t])
            \/ /\ Head(rest[t]).op = "data"
               /\ \E y \in Rows : rest'[t] = lcd_i2c_gotoxy(0, y) \o Tail(rest[t])
         /\ rest[t] \in Seq(TextByte) => rest'[t] \in Seq(TextByte)
<1> DEFINE b == Head(rest[t])
<1>1. Busy(t) /\ rest \in [Threads -> Seq(LcdByte)] /\ xy \in Places
  BY DEF BusOK, EndByte, Busies
<1>2. b \in LcdByte /\ Tail(rest[t]) \in Seq(LcdByte) BY <1>1, Writing
<1>3. rest[t] \in Seq(TextByte) => Tail(rest[t]) \in Seq(TextByte)
  BY <1>1, HeadTailProperties DEF Busy
<1>4. CASE b.op = "data" /\ xy.x + 1 = COLS
  <2> DEFINE y == (xy.y + 1) % ROWS
  <2>1. xy' = [x |-> 0, y |-> y] /\ rest' = [rest EXCEPT ![t] = lcd_i2c_gotoxy(0, y) \o Tail(@)]
    BY <1>4 DEF EndByte, Advance
  <2>2. xy.y \in Rows BY <1>1 DEF Places
  <2>3. y \in Rows BY <2>2, RowsAre
  <2>4. Byte("address", [x |-> 0, y |-> y]) \in TextByte BY <2>3, RowsAre, ByteTypes
  <2> HIDE DEF y
  <2>5. rest'[t] = lcd_i2c_gotoxy(0, y) \o Tail(rest[t]) BY <1>1, <2>1
  <2>6. rest'[t] \in Seq(LcdByte)
    BY <1>2, <2>4, <2>5, OneThen, ByteTypes DEF lcd_i2c_gotoxy
  <2>7. rest[t] \in Seq(TextByte) => rest'[t] \in Seq(TextByte)
    BY <1>3, <2>4, <2>5, OneThen DEF lcd_i2c_gotoxy
  <2>8. rest' \in [Threads -> Seq(LcdByte)]
    <3>1. DOMAIN rest' = Threads /\ \A u \in Threads \ {t} : rest'[u] = rest[u] BY <1>1, <2>1
    <3>2. rest' = [u \in Threads |-> rest'[u]] BY <1>1, <2>1
    <3>3. \A u \in Threads : rest'[u] \in Seq(LcdByte) BY <1>1, <2>6, <3>1
    <3> QED BY <3>2, <3>3
  <2>9. xy' \in Places BY <2>1, <2>3, RowsAre DEF Places
  <2> QED BY <1>1, <1>4, <2>1, <2>3, <2>5, <2>7, <2>8, <2>9
<1>5. CASE ~(b.op = "data" /\ xy.x + 1 = COLS)
  <2>1. rest' = [rest EXCEPT ![t] = Tail(@)]
    <3>1. CASE b.op = "data" BY <1>5, <3>1 DEF EndByte, Advance, Sent
    <3>2. CASE b.op \in {"address", "home"} BY <3>2 DEF EndByte, Sent
    <3>3. CASE b.op \notin {"data", "address", "home"} BY <3>3 DEF EndByte, Sent
    <3> QED BY <3>1, <3>2, <3>3
  <2>2. rest'[t] = Tail(rest[t]) BY <1>1, <2>1
  <2>3. rest' \in [Threads -> Seq(LcdByte)] BY <1>1, <1>2, <2>1
  <2>4. xy' \in Places
    <3>1. CASE b.op = "data"
      <4>1. xy' = [xy EXCEPT !.x = @ + 1] BY <1>5, <3>1 DEF EndByte, Advance
      <4>2. xy.x + 1 \in 0..(COLS - 1) BY <1>1, <1>5, <3>1, Sizes DEF Places
      <4> QED BY <1>1, <4>1, <4>2 DEF Places
    <3>2. CASE b.op \in {"address", "home"}
      <4>1. xy' = b.arg BY <3>2 DEF EndByte
      <4> QED BY <1>2, <3>2, <4>1, ByteKinds
    <3>3. CASE b.op \notin {"data", "address", "home"} BY <1>1, <3>3 DEF EndByte
    <3> QED BY <3>1, <3>2, <3>3
  <2> QED BY <1>1, <1>3, <2>1, <2>2, <2>3, <2>4
<1> QED BY <1>4, <1>5

\* What a thread is to write is a sequence of bytes.
LEMMA Programs ==
  /\ \A m \in Texts : Text(m) \in Seq(LcdByte) /\ Text(m) # <<>>
  /\ lcd_i2c_clear \o lcd_i2c_backlight(FALSE) = <<Byte("clear", 0), Byte("light", FALSE)>>
  /\ lcd_i2c_init \o lcd_i2c_backlight(TRUE) =
       <<Byte("reset", 0), Byte("clear", 0), Byte("home", Origin), Byte("light", TRUE)>>
  /\ <<Byte("clear", 0), Byte("light", FALSE)>> \in Seq(LcdByte)
  /\ <<Byte("reset", 0), Byte("clear", 0), Byte("home", Origin), Byte("light", TRUE)>>
       \in Seq(LcdByte)
<1>1. \A m \in Texts : Text(m) \in Seq(LcdByte) /\ Text(m) # <<>>
  <2> TAKE m \in Texts
  <2>1. Text(m) \in Seq(TextByte) /\ Text(m) # <<>> BY TextParts
  <2> QED BY <2>1, ByteTypes, SeqMonotonic
<1>2. /\ Byte("clear", 0) \in LcdByte /\ Byte("reset", 0) \in LcdByte
      /\ Byte("home", Origin) \in LcdByte
      /\ Byte("light", FALSE) \in LcdByte /\ Byte("light", TRUE) \in LcdByte
  BY DarkOK DEF Byte, LcdByte, TextByte
<1> DEFINE r == Byte("reset", 0)
           c == Byte("clear", 0)
           h == Byte("home", Origin)
           d == Byte("light", FALSE)
           l == Byte("light", TRUE)
<1>3. r \in LcdByte /\ c \in LcdByte /\ h \in LcdByte /\ d \in LcdByte /\ l \in LcdByte
  BY <1>2
<1> HIDE DEF r, c, h, d, l
<1>4. <<c, d>> \in Seq(LcdByte) /\ <<c>> \o <<d>> = <<c, d>> BY <1>3, Two
<1>5. <<r>> \o <<c>> = <<r, c>> BY <1>3, Two
<1>6. <<r, c>> \o <<h>> = <<r, c, h>> BY <1>3, Three
<1>7. <<r, c, h, l>> \in Seq(LcdByte) /\ <<r, c, h>> \o <<l>> = <<r, c, h, l>> BY <1>3, Four
<1>8. lcd_i2c_clear \o lcd_i2c_backlight(FALSE) = <<c, d>>
  BY <1>4 DEF c, d, lcd_i2c_clear, lcd_i2c_backlight
<1>9. lcd_i2c_init = <<r, c, h>> BY <1>5, <1>6 DEF r, c, h, lcd_i2c_init, lcd_i2c_clear
<1>10. lcd_i2c_init \o lcd_i2c_backlight(TRUE) = <<r, c, h, l>>
  BY <1>7, <1>9 DEF l, lcd_i2c_backlight
<1> QED BY <1>1, <1>4, <1>7, <1>8, <1>10 DEF r, c, h, d, l

\* A thread that begins to write is busy, and nobody else ceases to be.
LEMMA WriteOK ==
  ASSUME BusOK, GhostOK, NEW t \in Threads, NEW bytes \in Seq(LcdByte), bytes # <<>>,
         NEW m \in Texts, Write(t, bytes, m)
  PROVE  /\ BusOK' /\ GhostOK' /\ Busies' = Busies \cup {t}
         /\ rest'[t] = bytes /\ writes'[t] = m
         /\ \A u \in Threads \ {t} : rest'[u] = rest[u] /\ writes'[u] = writes[u]
<1>1. /\ rest' = [rest EXCEPT ![t] = bytes] /\ writes' = [writes EXCEPT ![t] = m]
      /\ xy' = xy /\ mid' = mid /\ clash' = clash /\ last' = last
  BY DEF Write
<1>2. /\ rest \in [Threads -> Seq(LcdByte)] /\ writes \in [Threads -> Texts]
      /\ mid \subseteq Busies /\ clash \subseteq mid /\ xy \in Places
  BY DEF BusOK
<1>3. /\ rest' \in [Threads -> Seq(LcdByte)] /\ writes' \in [Threads -> Texts]
      /\ rest'[t] = bytes /\ writes'[t] = m
      /\ \A u \in Threads \ {t} : rest'[u] = rest[u] /\ writes'[u] = writes[u]
  BY <1>1, <1>2
<1>4. Busies' = Busies \cup {t} BY <1>3 DEF Busies, Busy
<1>5. BusOK' BY <1>1, <1>2, <1>3, <1>4 DEF BusOK
<1>6. Busies \subseteq Threads BY DEF Busies
<1>7. overlapped' \subseteq Threads /\ met' \in BOOLEAN
  BY <1>6 DEF Write, GhostOK
<1>8. GhostOK' BY <1>1, <1>7 DEF GhostOK
<1> QED BY <1>3, <1>4, <1>5, <1>8

\* A byte is begun.
LEMMA StartTypes ==
  ASSUME TypeOK, NEW t \in Threads, StartByte(t)
  PROVE  TypeOK'
<1>1. LcdOK /\ BusOK /\ GhostOK /\ RestOK BY Parts
<1>2. /\ rest' = rest /\ mid' = mid \cup {t} /\ xy' = xy /\ writes' = writes
      /\ clash' = (IF mid = {} THEN {} ELSE mid') /\ t \in Busies
  BY DEF StartByte, Busies
<1>3. Busies' = Busies BY <1>2 DEF Busies, Busy
<1>4. BusOK' BY <1>1, <1>2, <1>3 DEF BusOK
<1>5. LcdOK'
  <2>1. torn' \in BOOLEAN /\ fd' \in BOOLEAN BY <1>1 DEF StartByte, LcdOK, objectVars
  <2>2. CASE torn'
    <3>1. Scrambled BY <2>2 DEF StartByte
    <3> QED BY <2>1, <3>1, ScrambledOK DEF LcdOK
  <2>3. CASE ~torn'
    <3>1. ddram' = ddram /\ address' = address /\ lit' = lit BY <2>3 DEF StartByte
    <3> QED BY <1>1, <2>1, <3>1 DEF LcdOK
  <2> QED BY <2>2, <2>3
<1>6. GhostOK' BY <1>1 DEF StartByte, ghostVars, GhostOK
<1>7. RestOK' BY <1>1 DEF StartByte, objectVars, RestOK
<1> QED BY <1>4, <1>5, <1>6, <1>7, PartsNext

\* A byte is ended.
LEMMA EndTypes ==
  ASSUME TypeOK, NEW t \in Threads, EndByte(t)
  PROVE  TypeOK'
<1>1. LcdOK /\ BusOK /\ GhostOK /\ RestOK BY Parts
<1>2. /\ Busy(t) /\ rest' \in [Threads -> Seq(LcdByte)] /\ xy' \in Places
      /\ \A u \in Threads \ {t} : rest'[u] = rest[u]
  BY <1>1, Rests
<1>3. Head(rest[t]) \in LcdByte BY <1>1, <1>2, Writing
<1>4. mid' = mid \ {t} /\ clash' = clash \ {t} /\ writes' = writes BY DEF EndByte
<1>5. mid' \subseteq Busies'
  <2>1. \A u \in mid' : u \in Threads \ {t} /\ rest[u] # <<>>
    BY <1>1, <1>4 DEF BusOK, Busies, Busy
  <2> QED BY <1>2, <2>1 DEF Busies, Busy
<1>6. BusOK' BY <1>1, <1>2, <1>4, <1>5 DEF BusOK
<1>7. LcdOK'
  <2>1. torn' \in BOOLEAN /\ fd' \in BOOLEAN BY <1>1 DEF EndByte, LcdOK, objectVars
  <2>2. CASE fd /\ ~torn'
    <3>1. Take(Head(rest[t])) BY <2>2 DEF EndByte
    <3> QED BY <1>1, <1>3, <2>1, <3>1, TakeOK DEF LcdOK
  <2>3. CASE ~(fd /\ ~torn')
    <3>1. ddram' = ddram /\ address' = address /\ lit' = lit BY <2>3 DEF EndByte
    <3> QED BY <1>1, <2>1, <3>1 DEF LcdOK
  <2> QED BY <2>2, <2>3
<1>8. GhostOK'
  <2>1. met' \in BOOLEAN BY <1>1 DEF EndByte, GhostOK
  <2>2. overlapped' \subseteq overlapped BY DEF EndByte
  <2>3. last' \in [text : Texts, alone : BOOLEAN]
    <3> DEFINE alone == t \notin overlapped
    <3>1. last' = last \/ last' = [text |-> writes[t], alone |-> alone]
      BY DEF EndByte
    <3>2. writes[t] \in Texts BY <1>1 DEF BusOK
    <3>3. alone \in BOOLEAN OBVIOUS
    <3> HIDE DEF alone
    <3> QED BY <1>1, <3>1, <3>2, <3>3 DEF GhostOK
  <2> QED BY <1>1, <2>1, <2>2, <2>3 DEF GhostOK
<1>9. RestOK' BY <1>1 DEF EndByte, objectVars, RestOK
<1> QED BY <1>6, <1>7, <1>8, <1>9, PartsNext

\* The calls of the threads.
LEMMA CallTypes ==
  ASSUME TypeOK
  PROVE  /\ \A s \in Scanners, m \in Messages : ShowLCDMessage(s, m) => TypeOK'
         /\ \A s \in Scanners : Unlock(s) => TypeOK'
         /\ \A t \in Timers : Wake(t) => TypeOK'
<1>1. LcdOK /\ BusOK /\ GhostOK /\ RestOK BY Parts
<1>2. ASSUME NEW s \in Scanners, NEW m \in Messages, ShowLCDMessage(s, m) PROVE TypeOK'
  <2>1. Write(s, Text(m), m) /\ m \in Texts /\ s \in Threads
    BY <1>2 DEF ShowLCDMessage, Texts, Threads
  <2>2. Text(m) \in Seq(LcdByte) /\ Text(m) # <<>> BY <2>1, Programs
  <2>3. BusOK' /\ GhostOK' BY <1>1, <2>1, <2>2, WriteOK
  <2>4. LcdOK' BY <1>1, <1>2 DEF ShowLCDMessage, lcdVars, objectVars, LcdOK
  <2>5. RestOK'
    <3>1. messages' \in 0..MaxMessages
      BY <1>1, <1>2, DisplayAssumption DEF ShowLCDMessage, RestOK
    <3>2. sLCDMutex' \in Scanners \cup {Free, Destroyed} BY <1>2 DEF ShowLCDMessage
    <3> QED BY <1>1, <1>2, <3>1, <3>2 DEF ShowLCDMessage, objectVars, RestOK
  <2> QED BY <2>3, <2>4, <2>5, PartsNext
<1>3. ASSUME NEW s \in Scanners, Unlock(s) PROVE TypeOK'
  <2>1. Nothing \in Texts /\ s \in Threads BY DEF Texts, Threads
  <2>2. LcdOK' BY <1>1, <1>3 DEF Unlock, busVars, lcdVars, objectVars, LcdOK
  <2>3. Busies' = Busies BY <1>3 DEF Unlock, busVars, Busies, Busy
  <2>4. BusOK'
    <3>1. writes' \in [Threads -> Texts] BY <1>1, <1>3, <2>1 DEF Unlock, BusOK
    <3> QED BY <1>1, <1>3, <2>3, <3>1 DEF Unlock, busVars, BusOK
  <2>5. GhostOK' BY <1>1, <1>3 DEF Unlock, ghostVars, GhostOK
  <2>6. RestOK'
    <3>1. asleep' \subseteq Timers
      <4>1. (CHOOSE t \in Idle : TRUE) \in Idle BY <1>3 DEF Unlock
      <4> QED BY <1>1, <1>3, <4>1 DEF Unlock, Idle, RestOK
    <3>2. sLCDMutex' \in Scanners \cup {Free, Destroyed} BY <1>1, <1>3 DEF Unlock, RestOK
    <3> QED BY <1>1, <1>3, <3>1, <3>2 DEF Unlock, objectVars, RestOK
  <2> QED BY <2>2, <2>4, <2>5, <2>6, PartsNext
<1>4. ASSUME NEW t \in Timers, Wake(t) PROVE TypeOK'
  <2>1. Write(t, Text(Defaults), Defaults) /\ Defaults \in Texts /\ t \in Threads
    BY <1>4 DEF Wake, Texts, Threads
  <2>2. Text(Defaults) \in Seq(LcdByte) /\ Text(Defaults) # <<>> BY <2>1, Programs
  <2>3. BusOK' /\ GhostOK' BY <1>1, <2>1, <2>2, WriteOK
  <2>4. LcdOK' BY <1>1, <1>4 DEF Wake, lcdVars, objectVars, LcdOK
  <2>5. RestOK' BY <1>1, <1>4 DEF Wake, objectVars, RestOK
  <2> QED BY <2>3, <2>4, <2>5, PartsNext
<1> QED BY <1>2, <1>3, <1>4

\* The steps of the main thread that write nothing.
LEMMA QuietTypes ==
  ASSUME TypeOK, StopScanners \/ DestroyMutex \/ StartScanners \/ UNCHANGED vars
  PROVE  TypeOK'
<1>1. LcdOK /\ BusOK /\ GhostOK /\ RestOK BY Parts
<1>2. UNCHANGED <<busVars, writes, fd, ghostVars>>
  BY DEF StopScanners, DestroyMutex, StartScanners, vars, objectVars
<1>3. LcdOK' BY <1>1, <1>2 DEF LcdOK, busVars, lcdVars
<1>4. Busies' = Busies BY <1>2 DEF busVars, Busies, Busy
<1>5. BusOK' BY <1>1, <1>2, <1>4 DEF BusOK, busVars
<1>6. GhostOK' BY <1>1, <1>2 DEF GhostOK, ghostVars
<1>7. RestOK'
  <2>1. CASE StopScanners
    <3>1. restarts' \in 0..MaxRestarts BY <1>1, <2>1, DisplayAssumption DEF StopScanners, RestOK
    <3> QED BY <1>1, <2>1, <3>1 DEF StopScanners, RestOK
  <2>2. CASE DestroyMutex BY <1>1, <2>2 DEF DestroyMutex, RestOK
  <2>3. CASE StartScanners BY <1>1, <2>3 DEF StartScanners, RestOK
  <2>4. CASE UNCHANGED vars BY <1>1, <2>4 DEF vars, objectVars, RestOK
  <2> QED BY <2>1, <2>2, <2>3, <2>4
<1> QED BY <1>3, <1>5, <1>6, <1>7, PartsNext

\* The destructors.
LEMMA DeleteTypes ==
  ASSUME TypeOK, DeleteScanner
  PROVE  TypeOK'
<1>1. LcdOK /\ BusOK /\ GhostOK /\ RestOK BY Parts
<1>2. LcdOK' BY <1>1 DEF DeleteScanner, lcdVars, LcdOK
<1>3. RestOK'
  <2>1. objects' \in 0..Cardinality(Scanners) BY <1>1, SomeScanner DEF DeleteScanner, RestOK
  <2>2. mpc' \in {"delete", "destroy"} BY DEF DeleteScanner
  <2> QED BY <1>1, <2>1, <2>2 DEF DeleteScanner, RestOK
<1>4. BusOK' /\ GhostOK'
  <2>1. CASE gUseLCD /\ sLCDInit
    <3>1. Write(Main, <<Byte("clear", 0), Byte("light", FALSE)>>, Nothing)
      BY <2>1, Programs DEF DeleteScanner
    <3>2. Main \in Threads /\ Nothing \in Texts BY DEF Threads, Texts
    <3>3. <<Byte("clear", 0), Byte("light", FALSE)>> # <<>> OBVIOUS
    <3> QED BY <1>1, <3>1, <3>2, <3>3, Programs, WriteOK
  <2>2. CASE ~(gUseLCD /\ sLCDInit)
    <3>1. UNCHANGED <<xy, rest, mid, clash, writes, ghostVars>> BY <2>2 DEF DeleteScanner
    <3>2. Busies' = Busies BY <3>1 DEF Busies, Busy
    <3> QED BY <1>1, <3>1, <3>2 DEF BusOK, GhostOK, ghostVars
  <2> QED BY <2>1, <2>2
<1> QED BY <1>2, <1>3, <1>4, PartsNext

\* The constructors.
LEMMA CreateTypes ==
  ASSUME TypeOK, CreateScanner
  PROVE  TypeOK'
<1>1. LcdOK /\ BusOK /\ GhostOK /\ RestOK BY Parts
<1>2. objects' \in 0..Cardinality(Scanners)
  BY <1>1, SomeScanner DEF CreateScanner, RestOK
<1>3. mpc' = "create" /\ UNCHANGED <<restarts, asleep, messages>> BY DEF CreateScanner
<1>6. gUseLCD' \in BOOLEAN BY <1>1, DisplayAssumption DEF CreateScanner, RestOK
<1>4. CASE ~gUseLCD' \/ sLCDInit
  <2>1. UNCHANGED <<busVars, writes, fd, sLCDInit, sLCDMutex, ghostVars>>
    BY <1>4 DEF CreateScanner
  <2>2. Busies' = Busies BY <2>1 DEF busVars, Busies, Busy
  <2>3. LcdOK' BY <1>1, <2>1 DEF LcdOK, busVars, lcdVars
  <2>4. BusOK' BY <1>1, <2>1, <2>2 DEF BusOK, busVars
  <2>5. GhostOK' BY <1>1, <2>1 DEF GhostOK, ghostVars
  <2>6. RestOK' BY <1>1, <1>2, <1>3, <1>6, <2>1 DEF RestOK
  <2> QED BY <2>3, <2>4, <2>5, <2>6, PartsNext
<1>5. CASE ~(~gUseLCD' \/ sLCDInit)
  <2>1. PICK ok \in BOOLEAN :
          /\ fd' = ok
          /\ torn' = (torn \/ mid # {})
          /\ IF torn' THEN Scrambled ELSE UNCHANGED <<ddram, address, lit>>
          /\ sLCDInit' = ok
          /\ sLCDMutex' = IF ok THEN Free ELSE sLCDMutex
          /\ IF ok
             THEN Write(Main, lcd_i2c_init \o lcd_i2c_backlight(TRUE), Nothing)
             ELSE /\ met' = (met \/ mid # {})
                  /\ UNCHANGED <<xy, rest, mid, clash, writes, overlapped, last>>
    BY <1>5, DisplayAssumption DEF CreateScanner
  <2>2. LcdOK'
    <3>1. torn' \in BOOLEAN /\ fd' \in BOOLEAN BY <1>1, <2>1 DEF LcdOK
    <3>2. CASE torn' BY <2>1, <3>1, <3>2, ScrambledOK DEF LcdOK
    <3>3. CASE ~torn' BY <1>1, <2>1, <3>1, <3>3 DEF LcdOK
    <3> QED BY <3>2, <3>3
  <2>3. RestOK' BY <1>1, <1>2, <1>3, <1>6, <2>1 DEF RestOK
  <2>4. BusOK' /\ GhostOK'
    <3>1. CASE ok
      <4> DEFINE p ==
            <<Byte("reset", 0), Byte("clear", 0), Byte("home", Origin), Byte("light", TRUE)>>
      <4>1. Write(Main, p, Nothing) BY <2>1, <3>1, Programs
      <4>2. Main \in Threads /\ Nothing \in Texts BY DEF Threads, Texts
      <4>3. p # <<>> /\ p \in Seq(LcdByte) BY Programs
      <4> HIDE DEF p
      <4> QED BY <1>1, <4>1, <4>2, <4>3, WriteOK
    <3>2. CASE ~ok
      <4>1. UNCHANGED <<xy, rest, mid, clash, writes, overlapped, last>>
            /\ met' = (met \/ mid # {})
        BY <2>1, <3>2
      <4>2. Busies' = Busies BY <4>1 DEF Busies, Busy
      <4> QED BY <1>1, <4>1, <4>2 DEF BusOK, GhostOK
    <3> QED BY <3>1, <3>2
  <2> QED BY <2>2, <2>3, <2>4, PartsNext
<1> QED BY <1>4, <1>5

\* The default lines of a new life.
LEMMA DefaultTypes ==
  ASSUME TypeOK, SetCommonStrings
  PROVE  TypeOK'
<1>1. LcdOK /\ BusOK /\ GhostOK /\ RestOK BY Parts
<1>2. LcdOK' BY <1>1 DEF SetCommonStrings, lcdVars, LcdOK
<1>3. RestOK' BY <1>1 DEF SetCommonStrings, RestOK
<1>4. Write(Main, Text(Defaults), Defaults) BY DEF SetCommonStrings
<1>5. Main \in Threads /\ Defaults \in Texts BY DEF Threads, Texts
<1>6. Text(Defaults) \in Seq(LcdByte) /\ Text(Defaults) # <<>> BY <1>5, Programs
<1>7. BusOK' /\ GhostOK' BY <1>1, <1>4, <1>5, <1>6, WriteOK
<1> QED BY <1>2, <1>3, <1>7, PartsNext

\* Every step is one of these.
LEMMA Steps ==
  ASSUME [Next]_vars
  PROVE  \/ \E t \in Threads : StartByte(t) \/ EndByte(t)
         \/ \E s \in Scanners, m \in Messages : ShowLCDMessage(s, m)
         \/ \E s \in Scanners : Unlock(s)
         \/ \E t \in Timers : Wake(t)
         \/ StopScanners \/ DestroyMutex \/ StartScanners \/ UNCHANGED vars
         \/ DeleteScanner \/ CreateScanner \/ SetCommonStrings
BY DEF Next, Scan, Shut, Restart, Bytes, Threads

\* No step leaves the types.
LEMMA TypeNext == TypeOK /\ [Next]_vars => TypeOK'
BY Steps, StartTypes, EndTypes, CallTypes, QuietTypes, DeleteTypes, CreateTypes, DefaultTypes

\* The daemon starts within them.
LEMMA TypeInit == Init => TypeOK
<1> SUFFICES ASSUME Init PROVE TypeOK OBVIOUS
<1>1. Defaults \in Texts /\ Nothing \in Texts BY DEF Texts
<1>2. /\ Defaults[1].text \in Cells /\ Defaults[2].text \in Cells /\ Blank \in Cells
      /\ Defaults[2].len \in 0..COLS
  BY <1>1, Lines DEF Cells
<1>3. \A y \in Rows : Defaults[y + 1].text \in Cells
  <2>1. \A y \in {0, 1} : y + 1 = 1 \/ y + 1 = 2 OBVIOUS
  <2> QED BY <1>2, <2>1, RowsAre
<1>4. xy \in Places
  <2>1. CASE Defaults[2].len < COLS
    <3>1. Defaults[2].len \in 0..(COLS - 1) BY <1>2, <2>1, Sizes
    <3> QED BY <2>1, <3>1, RowsAre DEF Init, Places
  <2>2. CASE ~(Defaults[2].len < COLS) BY <2>2, DarkOK DEF Init
  <2> QED BY <2>1, <2>2
<1>5. LcdOK
  <2>1. address \in [x : 0..(WIDTH - 1), y : Rows]
    <3>1. address = xy BY DEF Init
    <3> QED BY <1>4, <3>1, Sizes DEF Places
  <2>2. ddram \in [Rows -> [0..(WIDTH - 1) -> Cells]] BY <1>2, <1>3 DEF Init
  <2>3. fd \in BOOLEAN BY DisplayAssumption DEF Init
  <2> QED BY <2>1, <2>2, <2>3 DEF Init, LcdOK
<1>6. BusOK
  <2>1. rest \in [Threads -> Seq(LcdByte)] BY DEF Init
  <2> QED BY <1>1, <1>4, <2>1 DEF Init, BusOK
<1>7. GhostOK BY <1>1 DEF Init, GhostOK
<1>8. RestOK
  <2>1. gUseLCD \in BOOLEAN /\ sLCDInit = fd BY DisplayAssumption DEF Init
  <2> QED BY <1>5, <2>1, SomeScanner, DisplayAssumption DEF Init, RestOK, LcdOK
<1> QED BY <1>5, <1>6, <1>7, <1>8, Parts

(***************************************************************************)
(* Who writes, and the main thread in a restart.                           *)
(***************************************************************************)
\* The end of a byte makes nobody else busy or idle.
LEMMA EndBusies ==
  ASSUME BusOK, NEW t \in Threads, EndByte(t)
  PROVE  /\ t \in Busies /\ Busies' \subseteq Busies
         /\ \A u \in Threads \ {t} : rest'[u] = rest[u] /\ (Busy(u)' <=> Busy(u))
<1>1. Busy(t) /\ \A u \in Threads \ {t} : rest'[u] = rest[u] BY Rests
<1> QED BY <1>1 DEF Busies, Busy

\* What the threads that call have, still holds after a step.
LEMMA CallersNext ==
  ASSUME TypeOK, Callers, [Next]_vars
  PROVE  Callers'
<1>1. LcdOK /\ BusOK /\ GhostOK /\ RestOK BY Parts
<1> DEFINE Calls(s) ==
      /\ Busy(s) => writes[s] # Nothing
      /\ writes[s] # Nothing => mpc = "run" /\ sLCDMutex \in {s, Destroyed}
<1>2. ASSUME NEW t \in Threads, StartByte(t) PROVE Callers'
  BY <1>2 DEF StartByte, objectVars, Callers, Busy
<1>3. ASSUME NEW t \in Threads, EndByte(t) PROVE Callers'
  <2>1. Busies' \subseteq Busies BY <1>1, <1>3, EndBusies
  <2>2. \A u \in Threads : Busy(u)' => Busy(u) BY <2>1 DEF Busies
  <2>3. UNCHANGED <<writes, mpc, sLCDMutex, asleep>> BY <1>3 DEF EndByte, objectVars
  <2>4. Scanners \subseteq Threads /\ asleep \subseteq Threads BY <1>1 DEF Threads, RestOK
  <2> QED BY <2>2, <2>3, <2>4 DEF Callers
<1>4. ASSUME NEW s \in Scanners, NEW m \in Messages, ShowLCDMessage(s, m) PROVE Callers'
  <2>1. Write(s, Text(m), m) /\ m \in Texts /\ s \in Threads /\ mpc = "run" /\ mpc' = "run"
        /\ sLCDMutex \in {Free, Destroyed} /\ asleep' = asleep
        /\ sLCDMutex' = IF sLCDMutex = Free THEN s ELSE Destroyed
    BY <1>4 DEF ShowLCDMessage, objectVars, Texts, Threads
  <2>2. /\ writes'[s] = m
        /\ \A u \in Threads \ {s} : rest'[u] = rest[u] /\ writes'[u] = writes[u]
    BY <1>1, <2>1, Programs, WriteOK
  <2>3. ASSUME NEW u \in Scanners PROVE Calls(u)'
    <3>1. CASE u = s
      <4>1. m # Nothing BY DisplayAssumption
      <4> QED BY <2>1, <2>2, <3>1, <4>1
    <3>2. CASE u # s
      <4>1. (Busy(u)' <=> Busy(u)) /\ writes'[u] = writes[u] BY <2>2, <3>2 DEF Busy, Threads
      <4>2. writes[u] # Nothing => sLCDMutex = Destroyed
        BY <2>1, DisplayAssumption DEF Callers
      <4>3. writes[u] # Nothing => sLCDMutex' = Destroyed BY <2>1, <4>2, DisplayAssumption
      <4> QED BY <2>1, <4>1, <4>3 DEF Callers
    <3> QED BY <3>1, <3>2
  <2>4. \A t \in asleep : t \in Threads \ {s} BY <1>1, Kinds DEF RestOK, Threads
  <2> QED BY <2>1, <2>2, <2>3, <2>4 DEF Callers, Busy
<1>5. ASSUME NEW s \in Scanners, Unlock(s) PROVE Callers'
  <2>1. /\ rest' = rest /\ mpc' = mpc /\ writes' = [writes EXCEPT ![s] = Nothing] /\ ~Busy(s)
        /\ sLCDMutex' = (IF sLCDMutex = s THEN Free ELSE sLCDMutex)
        /\ Idle # {} /\ asleep' = asleep \cup {CHOOSE t \in Idle : TRUE}
        /\ writes[s] # Nothing
    BY <1>5 DEF Unlock, busVars, objectVars
  <2>2. (CHOOSE t \in Idle : TRUE) \in Idle BY <2>1
  <2>3. \A t \in asleep' : ~Busy(t)' BY <2>1, <2>2 DEF Callers, Idle, Busy
  <2>4. writes \in [Threads -> Texts] /\ Scanners \subseteq Threads BY <1>1 DEF BusOK, Threads
  <2>5. ASSUME NEW u \in Scanners PROVE Calls(u)'
    <3>1. CASE u = s BY <2>1, <2>4, <3>1 DEF Busy
    <3>2. CASE u # s
      <4>1. writes'[u] = writes[u] BY <2>1, <3>2
      <4>2. writes[u] # Nothing => sLCDMutex \in {u, Destroyed} BY DEF Callers
      <4>3. s # Destroyed BY DisplayAssumption
      <4>4. writes[u] # Nothing => sLCDMutex' = sLCDMutex BY <2>1, <3>2, <4>2, <4>3
      <4> QED BY <2>1, <4>1, <4>4 DEF Callers, Busy
    <3> QED BY <3>1, <3>2
  <2> QED BY <2>3, <2>5 DEF Callers
<1>6. ASSUME NEW t \in Timers, Wake(t) PROVE Callers'
  <2>1. Write(t, Text(Defaults), Defaults) /\ Defaults \in Texts /\ t \in Threads
        /\ asleep' = asleep \ {t} /\ mpc' = mpc /\ sLCDMutex' = sLCDMutex
    BY <1>6 DEF Wake, objectVars, Texts, Threads
  <2>2. \A u \in Threads \ {t} : rest'[u] = rest[u] /\ writes'[u] = writes[u]
    BY <1>1, <2>1, Programs, WriteOK
  <2>3. \A u \in Scanners \cup asleep' : u \in Threads \ {t}
    BY <1>1, <2>1, DisplayAssumption DEF RestOK, Threads
  <2> QED BY <2>1, <2>2, <2>3 DEF Callers, Busy
<1>7. CASE StopScanners
  BY <1>7 DEF StopScanners, busVars, Callers, Busy
<1>8. ASSUME mpc # "run", \/ DeleteScanner \/ DestroyMutex \/ CreateScanner
                          \/ SetCommonStrings \/ StartScanners
      PROVE  Callers'
  <2>1. \A s \in Scanners : writes[s] = Nothing /\ ~Busy(s) BY <1>8 DEF Callers
  <2>2. asleep' = asleep /\ Main \in Threads /\ Nothing \in Texts /\ Defaults \in Texts
    BY <1>8 DEF DeleteScanner, DestroyMutex, CreateScanner, SetCommonStrings, StartScanners,
                Threads, Texts
  <2>3. \A u \in Threads \ {Main} : rest'[u] = rest[u] /\ writes'[u] = writes[u]
    <3>1. CASE UNCHANGED <<rest, writes>> BY <3>1
    <3>2. CASE \E p \in Seq(LcdByte) : \E m \in Texts : p # <<>> /\ Write(Main, p, m)
      BY <1>1, <2>2, <3>2, WriteOK
    <3>3. CASE DeleteScanner
      <4>1. CASE gUseLCD /\ sLCDInit
        <5>1. Write(Main, <<Byte("clear", 0), Byte("light", FALSE)>>, Nothing)
          BY <3>3, <4>1, Programs DEF DeleteScanner
        <5>2. <<Byte("clear", 0), Byte("light", FALSE)>> # <<>> OBVIOUS
        <5> QED BY <2>2, <3>2, <5>1, <5>2, Programs
      <4>2. CASE ~(gUseLCD /\ sLCDInit) BY <3>1, <3>3, <4>2 DEF DeleteScanner
      <4> QED BY <4>1, <4>2
    <3>4. CASE DestroyMutex BY <3>1, <3>4 DEF DestroyMutex, busVars
    <3>5. CASE CreateScanner
      <4> DEFINE p ==
            <<Byte("reset", 0), Byte("clear", 0), Byte("home", Origin), Byte("light", TRUE)>>
      <4>1. p # <<>> /\ p \in Seq(LcdByte) BY Programs
      <4>2. UNCHANGED <<rest, writes>> \/ Write(Main, p, Nothing)
        BY <3>5, Programs DEF CreateScanner, busVars
      <4> HIDE DEF p
      <4> QED BY <2>2, <3>1, <3>2, <4>1, <4>2
    <3>6. CASE SetCommonStrings
      <4>1. Write(Main, Text(Defaults), Defaults) BY <3>6 DEF SetCommonStrings
      <4> QED BY <2>2, <3>2, <4>1, Programs
    <3>7. CASE StartScanners BY <3>1, <3>7 DEF StartScanners, busVars
    <3> QED BY <1>8, <3>3, <3>4, <3>5, <3>6, <3>7
  <2>4. \A u \in Scanners \cup asleep : u \in Threads \ {Main}
    BY <1>1, Kinds DEF RestOK, Threads
  <2> QED BY <2>1, <2>2, <2>3, <2>4 DEF Callers, Busy
<1>9. CASE UNCHANGED vars BY <1>9 DEF vars, busVars, objectVars, Callers, Busy
<1>10. DeleteScanner \/ DestroyMutex \/ CreateScanner \/ SetCommonStrings \/ StartScanners
         => mpc # "run"
  BY DEF DeleteScanner, DestroyMutex, CreateScanner, SetCommonStrings, StartScanners
<1> QED BY <1>2, <1>3, <1>4, <1>5, <1>6, <1>7, <1>8, <1>9, <1>10, Steps

\* What is left of the bytes of a restart, when one is written.
LEMMA RestartBytes ==
  /\ \A r \in OffBytes : r # <<>> =>
       Tail(r) \in OffBytes /\ Head(r).op \in {"clear", "light"}
         /\ (Head(r).op = "light" => Head(r).arg = FALSE)
  /\ \A r \in OnBytes :
       /\ r # <<>> /\ Head(r).op \in {"reset", "clear", "home", "light"}
       /\ Tail(r) \in OnBytes \cup {<<>>}
       /\ Head(r).op = "reset" => Tail(r) \in OnBytes
       /\ Head(r).op = "light" => Head(r).arg = TRUE
       /\ Tail(r) = <<>> => Head(r).op = "light"
<1> DEFINE rr == Byte("reset", 0)
           c == Byte("clear", 0)
           h == Byte("home", Origin)
           d == Byte("light", FALSE)
           l == Byte("light", TRUE)
<1>1. /\ rr.op = "reset" /\ c.op = "clear" /\ h.op = "home"
      /\ d.op = "light" /\ d.arg = FALSE /\ l.op = "light" /\ l.arg = TRUE
  BY DEF Byte
<1>2. /\ OffBytes = {<<c, d>>, <<d>>, <<>>}
      /\ OnBytes = {<<rr, c, h, l>>, <<c, h, l>>, <<h, l>>, <<l>>}
  BY DEF OffBytes, OnBytes
<1> HIDE DEF rr, c, h, d, l
<1>3. /\ Tail(<<c, d>>) = <<d>> /\ Tail(<<d>>) = <<>>
      /\ Tail(<<rr, c, h, l>>) = <<c, h, l>> /\ Tail(<<c, h, l>>) = <<h, l>>
      /\ Tail(<<h, l>>) = <<l>> /\ Tail(<<l>>) = <<>>
  OBVIOUS
<1>4. /\ Head(<<c, d>>) = c /\ Head(<<d>>) = d
      /\ Head(<<rr, c, h, l>>) = rr /\ Head(<<c, h, l>>) = c
      /\ Head(<<h, l>>) = h /\ Head(<<l>>) = l
  OBVIOUS
<1>5. /\ <<c, h, l>> # <<>> /\ <<h, l>> # <<>> /\ <<l>> # <<>> /\ <<rr, c, h, l>> # <<>>
  OBVIOUS
<1>6. ASSUME NEW r \in OffBytes, r # <<>>
      PROVE  /\ Tail(r) \in OffBytes /\ Head(r).op \in {"clear", "light"}
             /\ Head(r).op = "light" => Head(r).arg = FALSE
  <2>1. CASE r = <<c, d>> BY <1>1, <1>2, <1>3, <1>4, <2>1
  <2>2. CASE r = <<d>> BY <1>1, <1>2, <1>3, <1>4, <2>2
  <2> QED BY <1>2, <1>6, <2>1, <2>2
<1>7. ASSUME NEW r \in OnBytes
      PROVE  /\ r # <<>> /\ Head(r).op \in {"reset", "clear", "home", "light"}
             /\ Tail(r) \in OnBytes \cup {<<>>}
             /\ Head(r).op = "reset" => Tail(r) \in OnBytes
             /\ Head(r).op = "light" => Head(r).arg = TRUE
             /\ Tail(r) = <<>> => Head(r).op = "light"
  <2>1. CASE r = <<rr, c, h, l>> BY <1>1, <1>2, <1>3, <1>4, <1>5, <2>1
  <2>2. CASE r = <<c, h, l>> BY <1>1, <1>2, <1>3, <1>4, <1>5, <2>2
  <2>3. CASE r = <<h, l>> BY <1>1, <1>2, <1>3, <1>4, <1>5, <2>3
  <2>4. CASE r = <<l>> BY <1>1, <1>2, <1>3, <1>4, <1>5, <2>4
  <2> QED BY <1>2, <2>1, <2>2, <2>3, <2>4
<1> QED BY <1>6, <1>7

\* The bytes of the other threads are of texts, those of the main thread of its step.
LEMMA MainNext ==
  ASSUME TypeOK, MainBytes, [Next]_vars
  PROVE  MainBytes'
<1>1. LcdOK /\ BusOK /\ GhostOK /\ RestOK BY Parts
<1> DEFINE Others == Scanners \cup Timers
<1>2. Others \subseteq Threads \ {Main} /\ Main \in Threads BY Kinds DEF Threads
<1>3. ASSUME NEW t \in Threads, StartByte(t) PROVE MainBytes'
  BY <1>3 DEF StartByte, objectVars, MainBytes, Busy
<1>4. ASSUME NEW t \in Threads, EndByte(t) PROVE MainBytes'
  <2>0. /\ Busy(t) /\ \A u \in Threads \ {t} : rest'[u] = rest[u]
        /\ \/ rest'[t] = Tail(rest[t])
           \/ Head(rest[t]).op = "data"
        /\ rest[t] \in Seq(TextByte) => rest'[t] \in Seq(TextByte)
    BY <1>1, <1>4, Rests
  <2>1. mpc' = mpc /\ sLCDInit' = sLCDInit /\ writes' = writes
    BY <1>4 DEF EndByte, objectVars
  <2>2. \A u \in Others : rest'[u] \in Seq(TextByte)
    <3> TAKE u \in Others
    <3>1. rest[u] \in Seq(TextByte) BY DEF MainBytes
    <3> QED BY <1>2, <2>0, <3>1
  <2>3. CASE t # Main
    <3>1. rest'[Main] = rest[Main] BY <1>2, <2>0, <2>3
    <3> QED BY <2>1, <2>2, <3>1 DEF MainBytes, Busy
  <2>4. CASE t = Main
    <3>1. rest[Main] # <<>> BY <2>0, <2>4 DEF Busy
    <3>2. mpc \notin {"run", "delete"} BY <3>1 DEF MainBytes
    <3>3. mpc = "destroy" => rest'[Main] \in OffBytes /\ writes[Main] = Nothing
      BY <2>0, <2>4, <3>1, RestartBytes DEF MainBytes
    <3>4. mpc = "create" =>
            rest'[Main] \in OnBytes \cup {<<>>} /\ writes[Main] = Nothing /\ sLCDInit
      <4> SUFFICES ASSUME mpc = "create"
                   PROVE  /\ rest'[Main] \in OnBytes \cup {<<>>}
                          /\ writes[Main] = Nothing /\ sLCDInit
        OBVIOUS
      <4>1. rest[Main] \in OnBytes /\ writes[Main] = Nothing /\ sLCDInit
        BY <3>1 DEF MainBytes, Busy
      <4>2. Head(rest[Main]).op # "data" /\ Tail(rest[Main]) \in OnBytes \cup {<<>>}
        BY <4>1, RestartBytes
      <4>3. rest'[Main] = Tail(rest[Main]) BY <2>0, <2>4, <4>2
      <4> QED BY <4>1, <4>2, <4>3
    <3>5. mpc = "default" => rest'[Main] \in Seq(TextByte) BY <2>0, <2>4 DEF MainBytes
    <3> QED BY <2>1, <2>2, <3>2, <3>3, <3>4, <3>5 DEF MainBytes, Busy
  <2> QED BY <2>3, <2>4
<1>5. ASSUME NEW t \in Others, NEW m \in Texts, Write(t, Text(m), m),
             mpc' = mpc, sLCDInit' = sLCDInit
      PROVE  MainBytes'
  <2>1. t \in Threads BY <1>2
  <2>2. /\ rest'[t] = Text(m)
        /\ \A u \in Threads \ {t} : rest'[u] = rest[u] /\ writes'[u] = writes[u]
    BY <1>1, <1>5, <2>1, Programs, WriteOK
  <2>3. Text(m) \in Seq(TextByte) BY TextParts
  <2>4. rest'[Main] = rest[Main] /\ writes'[Main] = writes[Main] BY <1>2, <2>2
  <2>5. \A u \in Others : rest'[u] \in Seq(TextByte)
    <3> TAKE u \in Others
    <3>1. rest[u] \in Seq(TextByte) BY DEF MainBytes
    <3> QED BY <1>2, <2>2, <2>3, <3>1
  <2> QED BY <1>5, <2>4, <2>5 DEF MainBytes, Busy
<1>6. ASSUME NEW s \in Scanners, NEW m \in Messages, ShowLCDMessage(s, m) PROVE MainBytes'
  <2>1. Write(s, Text(m), m) /\ mpc' = mpc /\ sLCDInit' = sLCDInit /\ m \in Texts
    BY <1>6 DEF ShowLCDMessage, objectVars, Texts
  <2> QED BY <1>5, <2>1
<1>7. ASSUME NEW t \in Timers, Wake(t) PROVE MainBytes'
  <2>1. Write(t, Text(Defaults), Defaults) /\ mpc' = mpc /\ sLCDInit' = sLCDInit
        /\ Defaults \in Texts
    BY <1>7 DEF Wake, objectVars, Texts
  <2> QED BY <1>5, <2>1
<1>8. ASSUME NEW s \in Scanners, Unlock(s) PROVE MainBytes'
  <2>1. rest' = rest /\ mpc' = mpc /\ sLCDInit' = sLCDInit
        /\ writes' = [writes EXCEPT ![s] = Nothing]
    BY <1>8 DEF Unlock, busVars, objectVars
  <2>2. writes'[Main] = writes[Main] BY <1>1, <1>2, <2>1 DEF BusOK
  <2> QED BY <2>1, <2>2 DEF MainBytes, Busy
<1>9. CASE StopScanners \/ DestroyMutex \/ StartScanners \/ UNCHANGED vars
  <2>1. rest' = rest /\ writes' = writes /\ sLCDInit' = sLCDInit
    BY <1>9 DEF StopScanners, DestroyMutex, StartScanners, vars, busVars, objectVars
  <2>2. \/ mpc = "run" /\ mpc' = "delete"
        \/ mpc = "destroy" /\ mpc' = "delete" /\ ~Busy(Main)
        \/ mpc = "default" /\ mpc' = "run" /\ ~Busy(Main)
        \/ mpc' = mpc
    BY <1>9 DEF StopScanners, DestroyMutex, StartScanners, vars, objectVars
  <2> QED BY <2>1, <2>2 DEF MainBytes, Busy
<1>10. ASSUME NEW p \in Seq(LcdByte), p # <<>>, NEW m \in Texts, Write(Main, p, m)
       PROVE  /\ rest'[Main] = p /\ writes'[Main] = m
              /\ \A u \in Others : rest'[u] \in Seq(TextByte)
  <2>1. /\ rest'[Main] = p /\ writes'[Main] = m
        /\ \A u \in Threads \ {Main} : rest'[u] = rest[u]
    BY <1>1, <1>2, <1>10, WriteOK
  <2>2. \A u \in Others : rest[u] \in Seq(TextByte) BY DEF MainBytes
  <2> QED BY <1>2, <2>1, <2>2
<1>11. Nothing \in Texts /\ Defaults \in Texts BY DEF Texts
<1>12. CASE DeleteScanner
  <2>1. CASE gUseLCD /\ sLCDInit
    <3> DEFINE p == <<Byte("clear", 0), Byte("light", FALSE)>>
    <3>1. p \in Seq(LcdByte) /\ p # <<>> /\ Write(Main, p, Nothing) /\ mpc' = "destroy"
      BY <1>12, <2>1, Programs DEF DeleteScanner
    <3>2. p \in OffBytes BY DEF OffBytes
    <3> HIDE DEF p
    <3>3. /\ rest'[Main] = p /\ writes'[Main] = Nothing
          /\ \A u \in Others : rest'[u] \in Seq(TextByte)
      BY <1>10, <1>11, <3>1
    <3> QED BY <3>1, <3>2, <3>3 DEF MainBytes
  <2>2. CASE ~(gUseLCD /\ sLCDInit)
    <3>1. rest' = rest /\ writes' = writes /\ mpc' = mpc /\ mpc = "delete"
      BY <1>12, <2>2 DEF DeleteScanner
    <3> QED BY <3>1 DEF MainBytes
  <2> QED BY <2>1, <2>2
<1>13. CASE CreateScanner
  <2>1. mpc' = "create" /\ ~Busy(Main) BY <1>13 DEF CreateScanner
  <2> DEFINE p ==
        <<Byte("reset", 0), Byte("clear", 0), Byte("home", Origin), Byte("light", TRUE)>>
  <2>2. p \in Seq(LcdByte) /\ p # <<>> /\ p \in OnBytes BY Programs DEF OnBytes
  <2>3. UNCHANGED <<rest, writes>> \/ (Write(Main, p, Nothing) /\ sLCDInit' = TRUE)
    BY <1>13, Programs, DisplayAssumption DEF CreateScanner, busVars
  <2> HIDE DEF p
  <2>4. CASE UNCHANGED <<rest, writes>> BY <2>1, <2>4 DEF MainBytes, Busy
  <2>5. CASE Write(Main, p, Nothing) /\ sLCDInit' = TRUE
    <3>1. /\ rest'[Main] = p /\ writes'[Main] = Nothing
          /\ \A u \in Others : rest'[u] \in Seq(TextByte)
      BY <1>10, <1>11, <2>2, <2>5
    <3> QED BY <2>1, <2>2, <2>5, <3>1 DEF MainBytes
  <2> QED BY <2>3, <2>4, <2>5
<1>14. CASE SetCommonStrings
  <2>1. Write(Main, Text(Defaults), Defaults) /\ mpc' = "default"
    BY <1>14 DEF SetCommonStrings
  <2>2. Text(Defaults) \in Seq(LcdByte) /\ Text(Defaults) # <<>> /\ Text(Defaults) \in Seq(TextByte)
    BY <1>11, Programs, TextParts
  <2>3. rest'[Main] = Text(Defaults) /\ \A u \in Others : rest'[u] \in Seq(TextByte)
    BY <1>10, <1>11, <2>1, <2>2
  <2> QED BY <2>1, <2>2, <2>3 DEF MainBytes
<1> QED BY <1>3, <1>4, <1>6, <1>7, <1>8, <1>9, <1>12, <1>13, <1>14, Steps

\* A reset, and a byte that changes the light, is the main thread's.
LEMMA RestartsOnly ==
  ASSUME TypeOK, MainBytes, NEW t \in Threads, Busy(t),
         Head(rest[t]).op \in {"reset", "light"}
  PROVE  t = Main /\ mpc \in {"destroy", "create"}
<1>1. BusOK /\ RestOK BY Parts
<1>2. ASSUME rest[t] \in Seq(TextByte) PROVE FALSE
  <2>1. Head(rest[t]) \in TextByte BY <1>2, HeadTailProperties DEF Busy
  <2> QED BY <2>1, ByteKinds, ByteTypes
<1>3. t = Main
  <2>1. t \notin Scanners \cup Timers BY <1>2 DEF MainBytes
  <2> QED BY <2>1 DEF Threads
<1>4. mpc \notin {"run", "delete", "default"} BY <1>2, <1>3 DEF MainBytes, Busy
<1> QED BY <1>1, <1>3, <1>4 DEF RestOK

\* A reset is written only while the display is being set up.
LEMMA ResetsWhenSetUp ==
  ASSUME TypeOK, MainBytes, SetUp, NEW t \in Threads, Busy(t), Head(rest[t]).op = "reset"
  PROVE  /\ t = Main /\ mpc = "create" /\ sLCDInit /\ fd
         /\ rest[Main] \in OnBytes /\ Tail(rest[Main]) \in OnBytes
<1>1. t = Main /\ mpc \in {"destroy", "create"} BY RestartsOnly
<1>2. mpc # "destroy"
  <2>1. mpc = "destroy" => rest[Main] \in OffBytes BY DEF MainBytes
  <2> QED BY <1>1, <2>1, RestartBytes DEF Busy
<1>3. rest[Main] \in OnBytes /\ sLCDInit BY <1>1, <1>2 DEF MainBytes
<1> QED BY <1>1, <1>2, <1>3, RestartBytes DEF SetUp

\* A display that is said to be set up stays lit, or out of step.
LEMMA LitNext ==
  ASSUME TypeOK, MainBytes, SetUp, sLCDInit, NEW t \in Threads, EndByte(t)
  PROVE  lit' \/ torn' \/ (mpc' = "create" /\ Busy(Main)')
<1>0. LcdOK /\ BusOK /\ GhostOK /\ RestOK BY Parts
<1> DEFINE b == Head(rest[t])
<1>1. /\ Busy(t) /\ \A u \in Threads \ {t} : rest'[u] = rest[u]
      /\ rest'[t] = Tail(rest[t]) \/ b.op = "data"
  BY <1>0, Rests
<1>2. mpc' = mpc /\ fd BY DEF EndByte, objectVars, SetUp
<1>3. Main \in Threads /\ mpc # "destroy" BY DEF Threads, SetUp
<1>4. SUFFICES ASSUME ~torn' PROVE lit' \/ (mpc' = "create" /\ Busy(Main)') OBVIOUS
<1>5. Take(b) BY <1>2, <1>4 DEF EndByte
<1>6. b \in LcdByte BY <1>0, <1>1, Writing
<1>7. CASE torn
  <2>1. b.op = "reset" BY <1>2, <1>4, <1>7 DEF EndByte
  <2>2. t = Main /\ mpc = "create" /\ Tail(rest[Main]) \in OnBytes
    BY <1>1, <2>1, ResetsWhenSetUp
  <2>3. rest'[Main] = Tail(rest[Main]) BY <1>1, <2>1, <2>2
  <2> QED BY <1>2, <2>2, <2>3, RestartBytes DEF Busy
<1>8. CASE b.op = "light"
  <2>1. t = Main /\ mpc = "create" BY <1>1, <1>3, <1>8, RestartsOnly
  <2>2. rest[Main] \in OnBytes BY <1>1, <2>1 DEF MainBytes
  <2>3. b.arg = TRUE BY <1>8, <2>1, <2>2, RestartBytes
  <2>4. lit' = b.arg BY <1>5, <1>8 DEF Take
  <2> QED BY <2>3, <2>4
<1>9. CASE ~torn /\ b.op # "light"
  <2>1. lit' = lit BY <1>5, <1>6, <1>9, ByteKinds DEF Take
  <2>2. CASE lit BY <2>1, <2>2
  <2>3. CASE ~lit
    <3>1. mpc = "create" /\ Busy(Main) BY <1>9, <2>3 DEF SetUp
    <3>2. CASE t # Main
      <4>1. rest'[Main] = rest[Main] BY <1>1, <1>3, <3>2
      <4> QED BY <1>2, <3>1, <4>1 DEF Busy
    <3>3. CASE t = Main
      <4>1. rest[Main] \in OnBytes BY <3>1 DEF MainBytes
      <4>2. b.op \in {"reset", "clear", "home"} /\ Tail(rest[Main]) # <<>>
        BY <1>9, <3>3, <4>1, RestartBytes
      <4>3. rest'[Main] = Tail(rest[Main]) BY <1>1, <3>3, <4>2
      <4> QED BY <1>2, <3>1, <4>2, <4>3 DEF Busy
    <3> QED BY <3>2, <3>3
  <2> QED BY <2>2, <2>3
<1> QED BY <1>7, <1>8, <1>9

\* What the flag of the display says, it says after a step.
LEMMA SetUpNext ==
  ASSUME TypeOK, Callers, MainBytes, SetUp, [Next]_vars
  PROVE  SetUp'
<1>0. LcdOK /\ BusOK /\ GhostOK /\ RestOK BY Parts
<1>1. Main \in Threads /\ Main \notin Scanners \cup Timers BY DisplayAssumption DEF Threads
<1>2. ASSUME NEW t \in Threads, StartByte(t) PROVE SetUp'
  <2>1. rest' = rest /\ UNCHANGED objectVars /\ sLCDMutex' = sLCDMutex BY <1>2 DEF StartByte
  <2>2. torn' \/ (lit' = lit /\ ~torn) BY <1>2 DEF StartByte
  <2> QED BY <2>1, <2>2 DEF SetUp, objectVars, Busy
<1>3. ASSUME NEW t \in Threads, EndByte(t) PROVE SetUp'
  <2>1. UNCHANGED objectVars /\ sLCDMutex' = sLCDMutex BY <1>3 DEF EndByte
  <2>2. sLCDInit => lit' \/ torn' \/ (mpc' = "create" /\ Busy(Main)') BY <1>3, LitNext
  <2> QED BY <2>1, <2>2 DEF SetUp, objectVars
<1>4. ASSUME UNCHANGED <<lcdVars, objectVars>>, Busy(Main)' <=> Busy(Main),
             sLCDMutex # Destroyed => sLCDMutex' # Destroyed
      PROVE  SetUp'
  BY <1>4 DEF SetUp, lcdVars, objectVars
<1>5. ASSUME NEW s \in Scanners, NEW m \in Messages, ShowLCDMessage(s, m) PROVE SetUp'
  <2>1. Write(s, Text(m), m) /\ m \in Texts /\ s \in Threads
        /\ UNCHANGED <<lcdVars, objectVars>>
        /\ sLCDMutex \in {Free, Destroyed}
        /\ sLCDMutex' = IF sLCDMutex = Free THEN s ELSE Destroyed
    BY <1>5 DEF ShowLCDMessage, Texts, Threads
  <2>2. \A u \in Threads \ {s} : rest'[u] = rest[u] BY <1>0, <2>1, Programs, WriteOK
  <2>3. rest'[Main] = rest[Main] BY <1>1, <2>2
  <2>4. s # Destroyed BY DisplayAssumption
  <2> QED BY <1>4, <2>1, <2>3, <2>4 DEF Busy
<1>6. ASSUME NEW s \in Scanners, Unlock(s) PROVE SetUp'
  <2>1. UNCHANGED <<lcdVars, objectVars>> /\ rest' = rest
        /\ sLCDMutex' = IF sLCDMutex = s THEN Free ELSE sLCDMutex
    BY <1>6 DEF Unlock, busVars
  <2>2. Free # Destroyed BY DisplayAssumption
  <2> QED BY <1>4, <2>1, <2>2 DEF Busy
<1>7. ASSUME NEW t \in Timers, Wake(t) PROVE SetUp'
  <2>1. Write(t, Text(Defaults), Defaults) /\ Defaults \in Texts /\ t \in Threads
        /\ UNCHANGED <<lcdVars, objectVars>> /\ sLCDMutex' = sLCDMutex
    BY <1>7 DEF Wake, Texts, Threads
  <2>2. \A u \in Threads \ {t} : rest'[u] = rest[u] BY <1>0, <2>1, Programs, WriteOK
  <2>3. rest'[Main] = rest[Main] BY <1>1, <2>2
  <2> QED BY <1>4, <2>1, <2>3 DEF Busy
<1>8. CASE StopScanners
  <2>1. UNCHANGED <<busVars, gUseLCD, fd, sLCDInit, objects, sLCDMutex>> /\ mpc = "run" /\ mpc' = "delete"
    BY <1>8 DEF StopScanners
  <2> QED BY <1>0, <2>1, SomeScanner DEF SetUp, busVars, lcdVars, Busy, RestOK
<1>9. CASE DeleteScanner
  <2>1. fd' = fd /\ gUseLCD' = gUseLCD /\ mpc = "delete" /\ mpc' \in {"delete", "destroy"}
        /\ sLCDInit' = (sLCDInit /\ ~gUseLCD)
    BY <1>0, <1>9 DEF DeleteScanner, RestOK
  <2>2. ~sLCDInit' BY <2>1 DEF SetUp
  <2> QED BY <2>1, <2>2 DEF SetUp
<1>10. CASE DestroyMutex
  <2>1. sLCDInit' = sLCDInit /\ mpc = "destroy" /\ mpc' = "delete" BY <1>10 DEF DestroyMutex
  <2> QED BY <2>1 DEF SetUp
<1>11. CASE CreateScanner
  <2>1. mpc' = "create" /\ ~Busy(Main) /\ (mpc = "create" \/ (mpc = "delete" /\ objects = 0))
    BY <1>11 DEF CreateScanner
  <2>2. CASE ~gUseLCD' \/ sLCDInit
    <3>1. UNCHANGED <<busVars, fd, sLCDInit, sLCDMutex>> BY <1>11, <2>2 DEF CreateScanner
    <3>2. CASE mpc = "create"
      <4>1. gUseLCD' = gUseLCD BY <1>11, <3>2 DEF CreateScanner
      <4> QED BY <2>1, <3>1, <3>2, <4>1 DEF SetUp, busVars, lcdVars, Busy
    <3>3. CASE mpc = "delete" /\ objects = 0
      <4>1. ~sLCDInit BY <3>3, SomeScanner DEF SetUp
      <4>2. ~gUseLCD' BY <2>2, <4>1
      <4> QED BY <2>1, <3>1, <4>1, <4>2 DEF SetUp
    <3> QED BY <2>1, <3>2, <3>3
  <2>3. CASE ~(~gUseLCD' \/ sLCDInit)
    <3>1. PICK ok \in BOOLEAN :
            /\ fd' = ok /\ sLCDInit' = ok
            /\ sLCDMutex' = IF ok THEN Free ELSE sLCDMutex
            /\ ok => Write(Main, lcd_i2c_init \o lcd_i2c_backlight(TRUE), Nothing)
      BY <1>11, <2>3, DisplayAssumption DEF CreateScanner
    <3>0. gUseLCD' BY <2>3
    <3>2. ok => Busy(Main)'
      <4> DEFINE p ==
            <<Byte("reset", 0), Byte("clear", 0), Byte("home", Origin), Byte("light", TRUE)>>
      <4>1. ok => Write(Main, p, Nothing) BY <3>1, Programs
      <4>2. p \in Seq(LcdByte) /\ p # <<>> /\ Nothing \in Texts BY Programs DEF Texts
      <4> HIDE DEF p
      <4>3. ok => rest'[Main] = p BY <1>0, <1>1, <4>1, <4>2, WriteOK
      <4> QED BY <4>2, <4>3 DEF Busy
    <3>3. Free # Destroyed BY DisplayAssumption
    <3> QED BY <2>1, <3>0, <3>1, <3>2, <3>3 DEF SetUp
  <2> QED BY <2>2, <2>3
<1>12. CASE SetCommonStrings
  <2>1. UNCHANGED <<lcdVars, gUseLCD, fd, sLCDInit, objects, sLCDMutex>> /\ mpc = "create"
        /\ mpc' = "default" /\ ~Busy(Main) /\ objects = Cardinality(Scanners)
    BY <1>12 DEF SetCommonStrings
  <2> QED BY <2>1 DEF SetUp, lcdVars
<1>13. CASE StartScanners
  <2>1. UNCHANGED <<busVars, gUseLCD, fd, sLCDInit, objects, sLCDMutex>> /\ mpc = "default" /\ mpc' = "run"
    BY <1>13 DEF StartScanners
  <2> QED BY <2>1 DEF SetUp, busVars, lcdVars
<1>14. CASE UNCHANGED vars
  BY <1>4, <1>14 DEF vars, busVars, Busy
<1> QED BY <1>2, <1>3, <1>5, <1>6, <1>7, <1>8, <1>9, <1>10, <1>11, <1>12, <1>13, <1>14, Steps

(***************************************************************************)
(* A text on its way to the display.                                       *)
(***************************************************************************)
\* A move of the cursor is one byte.
LEMMA Moves ==
  ASSUME NEW y \in Rows, NEW u \in Seq(TextByte)
  PROVE  /\ lcd_i2c_gotoxy(0, y) \in Seq(TextByte)
         /\ lcd_i2c_gotoxy(0, y) \o u \in Seq(TextByte) /\ lcd_i2c_gotoxy(0, y) \o u # <<>>
         /\ Head(lcd_i2c_gotoxy(0, y) \o u) = Byte("address", [x |-> 0, y |-> y])
         /\ Tail(lcd_i2c_gotoxy(0, y) \o u) = u
<1> DEFINE b == Byte("address", [x |-> 0, y |-> y])
<1>1. b \in TextByte BY ByteTypes, RowsAre
<1> HIDE DEF b
<1>2. /\ <<b>> \o u \in Seq(TextByte) /\ <<b>> \o u # <<>>
      /\ Head(<<b>> \o u) = b /\ Tail(<<b>> \o u) = u
  BY <1>1, OneThen
<1>3. <<b>> \in Seq(TextByte) BY <1>1
<1> QED BY <1>2, <1>3 DEF b, lcd_i2c_gotoxy

\* A move of the cursor by itself.
LEMMA LastMove ==
  ASSUME NEW y \in Rows
  PROVE  /\ lcd_i2c_gotoxy(0, y) # <<>>
         /\ Head(lcd_i2c_gotoxy(0, y)) = Byte("address", [x |-> 0, y |-> y])
         /\ Tail(lcd_i2c_gotoxy(0, y)) = <<>>
<1> DEFINE b == Byte("address", [x |-> 0, y |-> y])
<1> HIDE DEF b
<1>1. <<b>> # <<>> /\ Head(<<b>>) = b /\ Tail(<<b>>) = <<>> OBVIOUS
<1> QED BY <1>1 DEF b, lcd_i2c_gotoxy

\* The display and the program follow a move.
LEMMA Moved ==
  ASSUME BusOK, NEW t \in Threads, NEW y \in Rows, EndByte(t), fd, ~torn',
         Head(rest[t]) = Byte("address", [x |-> 0, y |-> y])
  PROVE  rest'[t] = Tail(rest[t]) /\ ddram' = ddram /\ At(0, y)'
<1> DEFINE b == Head(rest[t])
           p == [x |-> 0, y |-> y]
<1>1. b.op = "address" /\ b.arg = p BY DEF Byte
<1> HIDE DEF b, p
<1>2. Take(b) BY DEF EndByte, b
<1>3. address' = p /\ ddram' = ddram BY <1>1, <1>2 DEF Take
<1>4. xy' = p /\ Sent(t) BY <1>1 DEF EndByte, b
<1>5. rest'[t] = Tail(rest[t]) BY <1>4 DEF Sent, BusOK
<1> QED BY <1>3, <1>4, <1>5 DEF At, p

\* A character is written where the cursor is; after the last of a line the
\* cursor goes to the other.
LEMMA Written ==
  ASSUME LcdOK, BusOK, NEW t \in Threads, NEW c \in Cells, NEW x \in 0..(COLS - 1),
         NEW y \in Rows, NEW z \in Rows \ {y}, EndByte(t), fd, ~torn',
         Head(rest[t]) = Byte("data", c), At(x, y)
  PROVE  /\ ddram' = [ddram EXCEPT ![y][x] = c]
         /\ x + 1 # COLS => At(x + 1, y)' /\ rest'[t] = Tail(rest[t])
         /\ x + 1 = COLS => rest'[t] = lcd_i2c_gotoxy(0, z) \o Tail(rest[t])
<1> DEFINE b == Head(rest[t])
<1>1. b.op = "data" /\ b.arg = c BY DEF Byte
<1> HIDE DEF b
<1>2. Take(b) BY DEF EndByte, b
<1>3. Advance(t) BY <1>1 DEF EndByte, b
<1>4. /\ xy = [x |-> x, y |-> y] /\ address = [x |-> x, y |-> y]
      /\ xy.x = x /\ xy.y = y /\ address.x = x /\ address.y = y
  BY DEF At
<1>5. /\ ddram' = [ddram EXCEPT ![y][x] = c]
      /\ address' = IF address.x + 1 < WIDTH
                    THEN [address EXCEPT !.x = @ + 1]
                    ELSE [x |-> 0, y |-> (address.y + 1) % ROWS]
  BY <1>1, <1>2, <1>4 DEF Take
<1>6. rest \in [Threads -> Seq(LcdByte)] BY DEF BusOK
<1>7. CASE x + 1 # COLS
  <2>1. x + 1 < WIDTH BY <1>7, Sizes
  <2>2. address' = [address EXCEPT !.x = @ + 1] BY <1>4, <1>5, <2>1
  <2>3. address' = [x |-> x + 1, y |-> y] BY <1>4, <2>2
  <2>4. xy' = [xy EXCEPT !.x = @ + 1] /\ Sent(t) BY <1>3, <1>4, <1>7 DEF Advance
  <2>5. xy' = [x |-> x + 1, y |-> y] BY <1>4, <2>4
  <2>6. rest'[t] = Tail(rest[t]) BY <1>6, <2>4 DEF Sent
  <2> QED BY <1>5, <1>7, <2>3, <2>5, <2>6 DEF At
<1>8. CASE x + 1 = COLS
  <2>1. (y + 1) % ROWS = z BY RowsAre
  <2>2. rest' = [rest EXCEPT ![t] = lcd_i2c_gotoxy(0, z) \o Tail(@)]
    BY <1>3, <1>4, <1>8, <2>1 DEF Advance
  <2>3. rest'[t] = lcd_i2c_gotoxy(0, z) \o Tail(rest[t]) BY <1>6, <2>2
  <2> QED BY <1>5, <1>8, <2>3
<1> QED BY <1>7, <1>8

\* A character more of the first line, or of the second, is on the display.
LEMMA DrawnMore ==
  ASSUME LcdOK, NEW m \in Texts
  PROVE  /\ \A i \in 0..(COLS - 1) :
              /\ ddram' = [ddram EXCEPT ![0][i] = m[1].text]
              /\ Drawn(m, i, 0)
              => Drawn(m, i + 1, 0)'
         /\ \A i \in 0..COLS : \A j \in 0..(COLS - 1) :
              /\ ddram' = [ddram EXCEPT ![1][j] = m[2].text]
              /\ Drawn(m, i, j)
              => Drawn(m, i, j + 1)'
<1>1. /\ ddram \in [{0, 1} -> [0..(WIDTH - 1) -> Cells]]
      /\ \A x \in 0..(COLS - 1) : x \in 0..(WIDTH - 1)
  BY RowsAre, Sizes DEF LcdOK
<1>2. ASSUME NEW i \in 0..(COLS - 1), ddram' = [ddram EXCEPT ![0][i] = m[1].text],
             Drawn(m, i, 0)
      PROVE  Drawn(m, i + 1, 0)'
  <2>1. ddram'[1] = ddram[1] /\ ddram'[0] = [ddram[0] EXCEPT ![i] = m[1].text] BY <1>1, <1>2
  <2>2. ASSUME NEW x \in 0..(COLS - 1)
        PROVE  /\ ddram'[0][x] = (IF x < i + 1 THEN m[1].text ELSE Blank)
               /\ ddram'[1][x] = (IF x < 0 THEN m[2].text ELSE Blank)
    <3>1. /\ ddram[0][x] = (IF x < i THEN m[1].text ELSE Blank)
          /\ ddram[1][x] = (IF x < 0 THEN m[2].text ELSE Blank)
      BY <1>2 DEF Drawn
    <3>2. ddram'[0][x] = (IF x = i THEN m[1].text ELSE ddram[0][x]) BY <1>1, <2>1
    <3>3. x \in Int /\ i \in Int BY Sizes
    <3> QED BY <2>1, <3>1, <3>2, <3>3
  <2> QED BY <2>2 DEF Drawn
<1>3. ASSUME NEW i \in 0..COLS, NEW j \in 0..(COLS - 1),
             ddram' = [ddram EXCEPT ![1][j] = m[2].text], Drawn(m, i, j)
      PROVE  Drawn(m, i, j + 1)'
  <2>1. ddram'[0] = ddram[0] /\ ddram'[1] = [ddram[1] EXCEPT ![j] = m[2].text] BY <1>1, <1>3
  <2>2. ASSUME NEW x \in 0..(COLS - 1)
        PROVE  /\ ddram'[0][x] = (IF x < i THEN m[1].text ELSE Blank)
               /\ ddram'[1][x] = (IF x < j + 1 THEN m[2].text ELSE Blank)
    <3>1. /\ ddram[0][x] = (IF x < i THEN m[1].text ELSE Blank)
          /\ ddram[1][x] = (IF x < j THEN m[2].text ELSE Blank)
      BY <1>3 DEF Drawn
    <3>2. ddram'[1][x] = (IF x = j THEN m[2].text ELSE ddram[1][x]) BY <1>1, <2>1
    <3>3. x \in Int /\ j \in Int BY Sizes
    <3> QED BY <2>1, <3>1, <3>2, <3>3
  <2> QED BY <2>2 DEF Drawn
<1> QED BY <1>2, <1>3

\* A display that is cleared shows nothing of any text.
LEMMA DarkDrawnNext ==
  ASSUME NEW m, ddram' = Dark
  PROVE  Drawn(m, 0, 0)'
<1>1. 0 \in Rows /\ 1 \in Rows /\ \A x \in 0..(COLS - 1) : x \in 0..(WIDTH - 1) /\ ~(x < 0)
  BY RowsAre, Sizes
<1>2. \A x \in 0..(COLS - 1) : ddram'[0][x] = Blank /\ ddram'[1][x] = Blank BY <1>1 DEF Dark
<1> QED BY <1>1, <1>2 DEF Drawn

\* The end of a byte of a text that no other met takes the text one byte further.
LEMMA ProgressStep ==
  ASSUME LcdOK, BusOK, NEW t \in Threads, NEW m \in Texts, EndByte(t), fd, ~torn',
         Progress(rest[t], m)
  PROVE  Progress(rest[t], m)'
<1>1. /\ m[1].text \in Cells /\ m[2].text \in Cells
      /\ m[1].len \in 0..COLS /\ m[2].len \in 0..COLS
  BY Lines
<1>2. /\ Second(m) \in Seq(TextByte)
      /\ lcd_i2c_puts(m[1]) = Left(m[1], m[1].len) /\ lcd_i2c_puts(m[2]) = Left(m[2], m[2].len)
      /\ lcd_i2c_puts(m[1]) \in Seq(TextByte) /\ lcd_i2c_puts(m[2]) \in Seq(TextByte)
      /\ lcd_i2c_puts(m[1]) \o Second(m) \in Seq(TextByte)
      /\ lcd_i2c_gotoxy(0, 0) \o (lcd_i2c_puts(m[1]) \o Second(m)) \in Seq(TextByte)
      /\ Text(m) = <<Byte("clear", 0)>> \o
                   (lcd_i2c_gotoxy(0, 0) \o (lcd_i2c_puts(m[1]) \o Second(m)))
  BY TextParts
<1>3. 0 \in Rows /\ 1 \in Rows BY RowsAre
<1>4. rest[t] # <<>> /\ rest \in [Threads -> Seq(LcdByte)] BY Rests DEF Busy, BusOK
<1>5. CASE Begun(rest[t], m)
  <2> DEFINE b == Byte("clear", 0)
             u == lcd_i2c_gotoxy(0, 0) \o (lcd_i2c_puts(m[1]) \o Second(m))
  <2>1. b \in TextByte /\ u \in Seq(TextByte) /\ rest[t] = <<b>> \o u
    BY <1>2, <1>5, ByteTypes DEF Begun
  <2>2. b.op = "clear" BY DEF Byte
  <2> HIDE DEF b, u
  <2>3. Head(rest[t]) = b /\ Tail(rest[t]) = u BY <2>1, OneThen
  <2>4. Take(b) BY <2>3 DEF EndByte
  <2>5. ddram' = Dark BY <2>2, <2>4 DEF Take
  <2>6. Sent(t) BY <2>2, <2>3 DEF EndByte
  <2>7. rest'[t] = u BY <1>4, <2>3, <2>6 DEF Sent
  <2>8. Drawn(m, 0, 0)' BY <2>5, DarkDrawnNext
  <2>9. Cleared(rest[t], m)' BY <2>7, <2>8 DEF Cleared, u
  <2> QED BY <2>9 DEF Progress
<1>6. CASE Cleared(rest[t], m)
  <2> DEFINE u == lcd_i2c_puts(m[1]) \o Second(m)
  <2>1. rest[t] = lcd_i2c_gotoxy(0, 0) \o u /\ u \in Seq(TextByte) /\ Drawn(m, 0, 0)
    BY <1>2, <1>6 DEF Cleared
  <2> HIDE DEF u
  <2>2. Head(rest[t]) = Byte("address", [x |-> 0, y |-> 0]) /\ Tail(rest[t]) = u
    BY <1>3, <2>1, Moves
  <2>3. rest'[t] = u /\ ddram' = ddram /\ At(0, 0)' BY <1>3, <2>2, Moved
  <2>4. Drawn(m, 0, 0)' BY <2>1, <2>3 DEF Drawn
  <2>5. m[1].len \in 0..m[1].len /\ m[1].len - m[1].len = 0 BY <1>1
  <2>6. rest'[t] = Left(m[1], m[1].len) \o Second(m) BY <1>2, <2>3 DEF u
  <2>7. InFirst(rest[t], m)' BY <2>3, <2>4, <2>5, <2>6 DEF InFirst
  <2> QED BY <2>7 DEF Progress
<1>7. CASE InFirst(rest[t], m)
  <2>1. PICK k \in 0..m[1].len :
          /\ Drawn(m, m[1].len - k, 0) /\ rest[t] = Left(m[1], k) \o Second(m)
          /\ k > 0 => At(m[1].len - k, 0)
    BY <1>7 DEF InFirst
  <2>2. CASE k > 0
    <3> DEFINE x == m[1].len - k
    <3>1. k \in Nat \ {0} /\ x \in 0..(COLS - 1) /\ k - 1 \in 0..m[1].len
          /\ x + 1 = m[1].len - (k - 1)
      BY <1>1, <2>2, Sizes
    <3>2. /\ Head(rest[t]) = Byte("data", m[1].text)
          /\ Tail(rest[t]) = Left(m[1], k - 1) \o Second(m)
      <4> DEFINE line == m[1]
                 u == Second(m)
      <4>1. line.text \in Cells /\ u \in Seq(TextByte) /\ k \in Nat \ {0} BY <1>1, <1>2, <3>1
      <4>2. rest[t] = Left(line, k) \o u BY <2>1
      <4> HIDE DEF line, u
      <4>3. /\ Head(Left(line, k) \o u) = Byte("data", line.text)
            /\ Tail(Left(line, k) \o u) = Left(line, k - 1) \o u
        BY <4>1, LeftThen
      <4> QED BY <4>2, <4>3 DEF line, u
    <3>3. At(x, 0) /\ Drawn(m, x, 0) BY <2>1, <2>2
    <3> HIDE DEF x
    <3>4. /\ ddram' = [ddram EXCEPT ![0][x] = m[1].text]
          /\ x + 1 # COLS => At(x + 1, 0)' /\ rest'[t] = Tail(rest[t])
          /\ x + 1 = COLS => rest'[t] = lcd_i2c_gotoxy(0, 1) \o Tail(rest[t])
      <4> DEFINE c == m[1].text
      <4>1. /\ c \in Cells /\ x \in 0..(COLS - 1) /\ 0 \in Rows /\ 1 \in Rows \ {0}
            /\ Head(rest[t]) = Byte("data", c) /\ At(x, 0)
        BY <1>1, <1>3, <3>1, <3>2, <3>3
      <4> HIDE DEF c
      <4>2. /\ ddram' = [ddram EXCEPT ![0][x] = c]
            /\ x + 1 # COLS => At(x + 1, 0)' /\ rest'[t] = Tail(rest[t])
            /\ x + 1 = COLS => rest'[t] = lcd_i2c_gotoxy(0, 1) \o Tail(rest[t])
        BY <4>1, Written
      <4> QED BY <4>2 DEF c
    <3>5. Drawn(m, x + 1, 0)' BY <3>1, <3>3, <3>4, DrawnMore
    <3>6. CASE x + 1 # COLS
      <4>1. /\ Drawn(m, m[1].len - (k - 1), 0)' /\ At(m[1].len - (k - 1), 0)'
            /\ rest'[t] = Left(m[1], k - 1) \o Second(m)
        BY <3>1, <3>2, <3>4, <3>5, <3>6
      <4>2. InFirst(rest[t], m)' BY <3>1, <4>1 DEF InFirst
      <4> QED BY <4>2 DEF Progress
    <3>7. CASE x + 1 = COLS
      <4>1. m[1].len = COLS /\ k - 1 = 0 BY <1>1, <3>1, <3>7, Sizes
      <4>2. Tail(rest[t]) = Second(m) BY <1>2, <3>2, <4>1, LeftNothing
      <4>3. rest'[t] = lcd_i2c_gotoxy(0, 1) \o Second(m) BY <3>4, <3>7, <4>2
      <4>4. FirstFull(rest[t], m)' BY <3>5, <3>7, <4>1, <4>3 DEF FirstFull
      <4> QED BY <4>4 DEF Progress
    <3> QED BY <3>6, <3>7
  <2>3. CASE k = 0
    <3> DEFINE u == lcd_i2c_puts(m[2])
    <3>1. rest[t] = lcd_i2c_gotoxy(0, 1) \o u /\ u \in Seq(TextByte) /\ Drawn(m, m[1].len, 0)
      <4>1. rest[t] = Second(m) BY <1>2, <2>1, <2>3, LeftNothing
      <4>2. m[1].len - k = m[1].len BY <1>1, <2>3
      <4> QED BY <1>2, <2>1, <4>1, <4>2 DEF Second
    <3> HIDE DEF u
    <3>2. Head(rest[t]) = Byte("address", [x |-> 0, y |-> 1]) /\ Tail(rest[t]) = u
      BY <1>3, <3>1, Moves
    <3>3. rest'[t] = u /\ ddram' = ddram /\ At(0, 1)' BY <1>3, <3>2, Moved
    <3>4. Drawn(m, m[1].len, 0)' BY <3>1, <3>3 DEF Drawn
    <3>5. m[2].len \in 0..m[2].len /\ m[2].len - m[2].len = 0 BY <1>1
    <3>6. rest'[t] = Left(m[2], m[2].len) BY <1>2, <3>3 DEF u
    <3>7. InSecond(rest[t], m)' BY <3>3, <3>4, <3>5, <3>6 DEF InSecond
    <3> QED BY <3>7 DEF Progress
  <2> QED BY <1>1, <2>2, <2>3
<1>8. CASE FirstFull(rest[t], m)
  <2>1. m[1].len = COLS /\ Drawn(m, COLS, 0) /\ rest[t] = lcd_i2c_gotoxy(0, 1) \o Second(m)
    BY <1>8 DEF FirstFull
  <2>2. Head(rest[t]) = Byte("address", [x |-> 0, y |-> 1]) /\ Tail(rest[t]) = Second(m)
    BY <1>2, <1>3, <2>1, Moves
  <2>3. rest'[t] = Second(m) /\ ddram' = ddram BY <1>3, <2>2, Moved
  <2>4. Drawn(m, m[1].len, 0)' BY <2>1, <2>3 DEF Drawn
  <2>5. 0 \in 0..m[1].len /\ m[1].len - 0 = m[1].len /\ ~(0 > 0) BY <1>1
  <2>6. rest'[t] = Left(m[1], 0) \o Second(m)
    <3>1. Second(m) \in Seq(TextByte) BY <1>2
    <3>2. Left(m[1], 0) \o Second(m) = Second(m) BY <3>1, LeftNothing
    <3> QED BY <2>3, <3>2
  <2>7. InFirst(rest[t], m)' BY <2>4, <2>5, <2>6 DEF InFirst
  <2> QED BY <2>7 DEF Progress
<1>9. CASE InSecond(rest[t], m)
  <2>1. PICK k \in 0..m[2].len :
          /\ Drawn(m, m[1].len, m[2].len - k) /\ rest[t] = Left(m[2], k)
          /\ k > 0 => At(m[2].len - k, 1)
    BY <1>9 DEF InSecond
  <2>2. k > 0
    <3>1. k = 0 => rest[t] = <<>> BY <2>1 DEF Left
    <3> QED BY <1>1, <1>4, <3>1
  <2> DEFINE x == m[2].len - k
  <2>3. k \in Nat \ {0} /\ x \in 0..(COLS - 1) /\ k - 1 \in 0..m[2].len
        /\ x + 1 = m[2].len - (k - 1)
    BY <1>1, <2>2, Sizes
  <2>4. Head(rest[t]) = Byte("data", m[2].text) /\ Tail(rest[t]) = Left(m[2], k - 1)
    <3> DEFINE line == m[2]
               none == <<>>
               j == k - 1
    <3>1. line.text \in Cells /\ k \in Nat \ {0} /\ j \in Nat /\ rest[t] = Left(line, k)
          /\ none \in Seq(TextByte)
      BY <1>1, <2>1, <2>3
    <3> HIDE DEF line
    <3>2. /\ Head(Left(line, k) \o none) = Byte("data", line.text)
          /\ Tail(Left(line, k) \o none) = Left(line, k - 1) \o none
      <4> HIDE DEF none
      <4> QED BY <3>1, LeftThen
    <3> HIDE DEF j
    <3>3. Left(line, k) \in Seq(TextByte) /\ Left(line, j) \in Seq(TextByte)
      BY <3>1, LeftTypes
    <3>4. Left(line, k) \o none = Left(line, k) /\ Left(line, j) \o none = Left(line, j)
      BY <3>3, ConcatEmptySeq
    <3>5. Head(rest[t]) = Byte("data", line.text) /\ Tail(rest[t]) = Left(line, j)
      <4> HIDE DEF none
      <4> QED BY <3>1, <3>2, <3>4 DEF j
    <3> QED BY <3>5 DEF line, j
  <2>5. At(x, 1) /\ Drawn(m, m[1].len, x) BY <2>1, <2>2
  <2> HIDE DEF x
  <2>6. /\ ddram' = [ddram EXCEPT ![1][x] = m[2].text]
        /\ x + 1 # COLS => At(x + 1, 1)' /\ rest'[t] = Tail(rest[t])
        /\ x + 1 = COLS => rest'[t] = lcd_i2c_gotoxy(0, 0) \o Tail(rest[t])
    <3> DEFINE c == m[2].text
    <3>1. /\ c \in Cells /\ x \in 0..(COLS - 1) /\ 1 \in Rows /\ 0 \in Rows \ {1}
          /\ Head(rest[t]) = Byte("data", c) /\ At(x, 1)
      BY <1>1, <1>3, <2>3, <2>4, <2>5
    <3> HIDE DEF c
    <3>2. /\ ddram' = [ddram EXCEPT ![1][x] = c]
          /\ x + 1 # COLS => At(x + 1, 1)' /\ rest'[t] = Tail(rest[t])
          /\ x + 1 = COLS => rest'[t] = lcd_i2c_gotoxy(0, 0) \o Tail(rest[t])
      BY <3>1, Written
    <3> QED BY <3>2 DEF c
  <2>7. Drawn(m, m[1].len, x + 1)' BY <1>1, <2>3, <2>5, <2>6, DrawnMore
  <2>8. CASE x + 1 # COLS
    <3>1. /\ Drawn(m, m[1].len, m[2].len - (k - 1))' /\ At(m[2].len - (k - 1), 1)'
          /\ rest'[t] = Left(m[2], k - 1)
      BY <2>3, <2>4, <2>6, <2>7, <2>8
    <3>2. InSecond(rest[t], m)' BY <2>3, <3>1 DEF InSecond
    <3> QED BY <3>2 DEF Progress
  <2>9. CASE x + 1 = COLS
    <3>1. m[2].len = COLS /\ k - 1 = 0 BY <1>1, <2>3, <2>9, Sizes
    <3>2. Tail(rest[t]) = <<>> BY <2>4, <3>1 DEF Left
    <3>3. lcd_i2c_gotoxy(0, 0) \in Seq(TextByte) BY <1>2, <1>3, Moves
    <3>4. rest'[t] = lcd_i2c_gotoxy(0, 0) \o <<>> BY <2>6, <2>9, <3>2
    <3>5. rest'[t] = lcd_i2c_gotoxy(0, 0) BY <3>3, <3>4, ConcatEmptySeq
    <3>6. SecondFull(rest[t], m)' BY <2>7, <2>9, <3>1, <3>5 DEF SecondFull
    <3> QED BY <3>6 DEF Progress
  <2> QED BY <2>8, <2>9
<1>10. CASE SecondFull(rest[t], m)
  <2>1. m[2].len = COLS /\ Drawn(m, m[1].len, COLS) /\ rest[t] = lcd_i2c_gotoxy(0, 0)
    BY <1>10 DEF SecondFull
  <2>2. Head(rest[t]) = Byte("address", [x |-> 0, y |-> 0]) /\ Tail(rest[t]) = <<>>
    BY <1>3, <2>1, LastMove
  <2>3. rest'[t] = <<>> /\ ddram' = ddram BY <1>3, <2>2, Moved
  <2>4. Drawn(m, m[1].len, m[2].len)' BY <2>1, <2>3 DEF Drawn
  <2>5. 0 \in 0..m[2].len /\ m[2].len - 0 = m[2].len /\ ~(0 > 0) BY <1>1
  <2>6. rest'[t] = Left(m[2], 0) BY <2>3 DEF Left
  <2>7. InSecond(rest[t], m)' BY <2>4, <2>5, <2>6 DEF InSecond
  <2> QED BY <2>7 DEF Progress
<1> QED BY <1>5, <1>6, <1>7, <1>8, <1>9, <1>10 DEF Progress

\* When nothing of a text is left, all of it is drawn.
LEMMA ProgressEnds ==
  ASSUME NEW m \in Texts, Progress(<<>>, m)'
  PROVE  Drawn(m, m[1].len, m[2].len)'
<1>1. /\ m[1].text \in Cells /\ m[2].text \in Cells
      /\ m[1].len \in 0..COLS /\ m[2].len \in 0..COLS
  BY Lines
<1>2. /\ Second(m) \in Seq(TextByte) /\ lcd_i2c_puts(m[2]) \in Seq(TextByte)
      /\ lcd_i2c_puts(m[1]) \o Second(m) \in Seq(TextByte) /\ Text(m) # <<>>
  BY TextParts
<1>3. 0 \in Rows /\ 1 \in Rows BY RowsAre
<1>4. ~Begun(<<>>, m)' BY <1>2 DEF Begun
<1>5. ~Cleared(<<>>, m)'
  <2>1. lcd_i2c_gotoxy(0, 0) \o (lcd_i2c_puts(m[1]) \o Second(m)) # <<>> BY <1>2, <1>3, Moves
  <2> QED BY <2>1 DEF Cleared
<1>6. ~InFirst(<<>>, m)'
  <2>1. Second(m) # <<>> BY <1>2, <1>3, Moves DEF Second
  <2>2. \A k \in 0..m[1].len : Left(m[1], k) \o Second(m) # <<>>
    <3> TAKE k \in 0..m[1].len
    <3>1. CASE k = 0 BY <1>2, <2>1, <3>1, LeftNothing
    <3>2. CASE k \in Nat \ {0} BY <1>1, <1>2, <3>2, LeftThen
    <3> QED BY <1>1, <3>1, <3>2
  <2> QED BY <2>2 DEF InFirst
<1>7. ~FirstFull(<<>>, m)'
  <2>1. lcd_i2c_gotoxy(0, 1) \o Second(m) # <<>> BY <1>2, <1>3, Moves
  <2> QED BY <2>1 DEF FirstFull
<1>8. ~SecondFull(<<>>, m)' BY <1>3, LastMove DEF SecondFull
<1>9. InSecond(<<>>, m)' BY <1>4, <1>5, <1>6, <1>7, <1>8 DEF Progress
<1>10. PICK k \in 0..m[2].len : Drawn(m, m[1].len, m[2].len - k)' /\ <<>> = Left(m[2], k)
  BY <1>9 DEF InSecond
<1>11. Len(Left(m[2], k)) = k
  <2> DEFINE line == m[2]
  <2>1. line.text \in Cells /\ k \in Nat BY <1>1
  <2> HIDE DEF line
  <2>2. Len(Left(line, k)) = k BY <2>1, LeftTypes
  <2> QED BY <2>2 DEF line
<1>12. k = 0 BY <1>10, <1>11
<1>13. m[2].len - k = m[2].len BY <1>1, <1>12
<1> QED BY <1>10, <1>13

\* What is drawn of a text is its picture.
LEMMA DrawnPicture ==
  ASSUME NEW m \in Texts, Drawn(m, m[1].len, m[2].len)'
  PROVE  Screen' = Picture(m)
<1>1. Rows = {0, 1} BY RowsAre
<1>2. ASSUME NEW y \in Rows, NEW x \in 0..(COLS - 1)
      PROVE  ddram'[y][x] = IF x < m[y + 1].len THEN m[y + 1].text ELSE Blank
  <2>1. CASE y = 0
    <3>1. y + 1 = 1 BY <2>1
    <3> QED BY <2>1, <3>1 DEF Drawn
  <2>2. CASE y = 1
    <3>1. y + 1 = 2 BY <2>2
    <3> QED BY <2>2, <3>1 DEF Drawn
  <2> QED BY <1>1, <2>1, <2>2
<1> QED BY <1>2 DEF Screen, Picture

(***************************************************************************)
(* Who writes at a time.                                                   *)
(***************************************************************************)
\* Of a thread that begins to write and one that writes, one does without the mutex:
\* who needs it gets it only when no other scan thread has it.
LEMMA OneHasNoMutex ==
  ASSUME Callers, NEW t \in Threads, t \in Bare \/ sLCDMutex \in {Free, Destroyed},
         NEW u \in Busies
  PROVE  t \in Unlocked \/ u \in Unlocked
<1>1. Bare \subseteq Unlocked BY DEF Unlocked, Bare
<1>2. u \in Threads /\ Busy(u) BY DEF Busies
<1>3. CASE t \in Bare BY <1>1, <1>3
<1>4. CASE sLCDMutex = Destroyed BY <1>4 DEF Unlocked
<1>5. CASE sLCDMutex = Free
  <2>1. u \notin Scanners BY <1>2, <1>5, DisplayAssumption DEF Callers
  <2> QED BY <1>1, <1>2, <2>1, Kinds
<1> QED BY <1>3, <1>4, <1>5

\* A thread that begins to write while others do is remembered with them.
LEMMA WriteMeets ==
  ASSUME BusOK, GhostOK, Callers, Meetings, NEW t \in Threads,
         t \in Bare \/ sLCDMutex \in {Free, Destroyed},
         NEW bytes \in Seq(LcdByte), bytes # <<>>, NEW m \in Texts, Write(t, bytes, m)
  PROVE  /\ met => met'
         /\ \A u, v \in Busies' : u # v => met' /\ u \in overlapped' /\ v \in overlapped'
<1> DEFINE others == Busies \ {t}
           bare == (others \cup {t}) \cap Unlocked # {} /\ others # {}
<1>1. Busies' = Busies \cup {t} BY WriteOK
<1>2. /\ met' = (met \/ bare)
      /\ overlapped' = IF bare THEN Busies \cup {t} ELSE overlapped
  BY DEF Write
<1>3. others # {} => bare
  <2> SUFFICES ASSUME NEW u \in others PROVE bare OBVIOUS
  <2>1. t \in Unlocked \/ u \in Unlocked BY OneHasNoMutex
  <2> QED BY <2>1
<1>4. CASE bare
  <2>1. met' /\ overlapped' = Busies \cup {t} BY <1>2, <1>4
  <2> QED BY <1>1, <2>1
<1>5. CASE ~bare
  <2>1. Busies' \subseteq {t} BY <1>1, <1>3, <1>5
  <2> QED BY <1>2, <2>1
<1> QED BY <1>4, <1>5

\* Meetings, also after a step.
LEMMA MeetingsNext ==
  ASSUME TypeOK, Callers, MainBytes, SetUp, Meetings, [Next]_vars
  PROVE  Meetings'
<1>0. LcdOK /\ BusOK /\ GhostOK /\ RestOK BY Parts
<1> DEFINE Remembered ==
             \A u, v \in Busies : u # v => met /\ u \in overlapped /\ v \in overlapped
<1>a. Meetings <=> Remembered /\ (torn => met) BY DEF Meetings
<1>b. Meetings' <=> Remembered' /\ (torn' => met') BY DEF Meetings
<1>1. ASSUME NEW t \in Threads, StartByte(t) PROVE Meetings'
  <2>1. /\ rest' = rest /\ met' = met /\ overlapped' = overlapped
        /\ torn' = (torn \/ (fd /\ mid # {})) /\ t \notin mid /\ t \in Busies
    BY <1>1 DEF StartByte, ghostVars, Busies
  <2>2. Remembered' BY <1>a, <2>1 DEF Busies, Busy
  <2>3. fd /\ mid # {} => met
    <3> SUFFICES ASSUME fd, mid # {} PROVE met OBVIOUS
    <3>1. PICK u \in mid : TRUE OBVIOUS
    <3>2. u \in Busies /\ u # t BY <1>0, <2>1, <3>1 DEF BusOK
    <3> QED BY <2>1, <3>2 DEF Meetings
  <2>4. torn' => met' BY <1>a, <2>1, <2>3
  <2> QED BY <1>b, <2>2, <2>4
<1>2. ASSUME NEW t \in Threads, EndByte(t) PROVE Meetings'
  <2> DEFINE b == Head(rest[t])
             again == b.op = "reset" /\ t \notin clash
  <2>1. t \in Busies /\ Busies' \subseteq Busies BY <1>0, <1>2, EndBusies
  <2>2. /\ met' = (met /\ ~(again /\ Busies = {t}))
        /\ torn' = (torn /\ ~(fd /\ again))
        /\ overlapped' = overlapped \/ (~Busy(t)' /\ overlapped' = overlapped \ {t})
    BY <1>2 DEF EndByte
  <2>3. ASSUME NEW u \in Busies', NEW v \in Busies', u # v
        PROVE  met' /\ u \in overlapped' /\ v \in overlapped'
    <3>1. u \in Busies /\ v \in Busies BY <2>1
    <3>2. met /\ u \in overlapped /\ v \in overlapped BY <2>3, <3>1 DEF Meetings
    <3>3. Busies # {t} BY <2>3, <3>1
    <3>4. ~Busy(t)' => u # t /\ v # t BY DEF Busies
    <3> QED BY <2>2, <3>2, <3>3, <3>4
  <2>4. again => fd
    <3>1. Busy(t) BY <2>1 DEF Busies
    <3> QED BY <3>1, ResetsWhenSetUp
  <2>5. torn' => met' BY <1>a, <2>2, <2>4
  <2> HIDE DEF again
  <2> QED BY <1>b, <2>3, <2>5
<1>3. ASSUME NEW t \in Threads, NEW p \in Seq(LcdByte), p # <<>>, NEW m \in Texts,
             Write(t, p, m), torn' = torn, t \in Bare \/ sLCDMutex \in {Free, Destroyed}
      PROVE  Meetings'
  <2>1. (met => met') /\ Remembered' BY <1>0, <1>3, WriteMeets
  <2>2. torn' => met' BY <1>3, <1>a, <2>1
  <2> QED BY <1>b, <2>1, <2>2
<1>4. ASSUME NEW s \in Scanners, NEW m \in Messages, ShowLCDMessage(s, m) PROVE Meetings'
  <2>1. Write(s, Text(m), m) /\ torn' = torn /\ m \in Texts /\ s \in Threads
        /\ sLCDMutex \in {Free, Destroyed}
    BY <1>4 DEF ShowLCDMessage, lcdVars, Texts, Threads
  <2>2. Text(m) \in Seq(LcdByte) /\ Text(m) # <<>> BY <2>1, Programs
  <2> QED BY <1>3, <2>1, <2>2
<1>5. ASSUME NEW t \in Timers, Wake(t) PROVE Meetings'
  <2>1. Write(t, Text(Defaults), Defaults) /\ torn' = torn /\ Defaults \in Texts
        /\ t \in Threads /\ t \in Bare
    BY <1>5, Kinds DEF Wake, lcdVars, Texts
  <2>2. Text(Defaults) \in Seq(LcdByte) /\ Text(Defaults) # <<>> BY <2>1, Programs
  <2> QED BY <1>3, <2>1, <2>2
<1>6. ASSUME UNCHANGED <<rest, torn, met, overlapped>> PROVE Meetings'
  BY <1>6 DEF Meetings, Busies, Busy
<1>7. ASSUME NEW s \in Scanners, Unlock(s) PROVE Meetings'
  BY <1>6, <1>7 DEF Unlock, busVars, lcdVars, ghostVars
<1>8. CASE StopScanners \/ DestroyMutex \/ StartScanners \/ UNCHANGED vars
  BY <1>6, <1>8 DEF StopScanners, DestroyMutex, StartScanners, vars, busVars, lcdVars, ghostVars
<1>9. Main \in Threads /\ Main \in Bare /\ Nothing \in Texts /\ Defaults \in Texts
  BY Kinds DEF Threads, Texts
<1>10. CASE DeleteScanner
  <2>1. CASE gUseLCD /\ sLCDInit
    <3> DEFINE p == <<Byte("clear", 0), Byte("light", FALSE)>>
    <3>1. p \in Seq(LcdByte) /\ p # <<>> /\ Write(Main, p, Nothing) /\ torn' = torn
      BY <1>10, <2>1, Programs DEF DeleteScanner, lcdVars
    <3> HIDE DEF p
    <3> QED BY <1>3, <1>9, <3>1
  <2>2. CASE ~(gUseLCD /\ sLCDInit)
    BY <1>6, <1>10, <2>2 DEF DeleteScanner, lcdVars, ghostVars
  <2> QED BY <2>1, <2>2
<1>11. CASE CreateScanner
  <2>1. ~Busy(Main) BY <1>11 DEF CreateScanner
  <2>2. CASE ~gUseLCD' \/ sLCDInit
    BY <1>6, <1>11, <2>2 DEF CreateScanner, busVars, lcdVars, ghostVars
  <2>3. CASE ~(~gUseLCD' \/ sLCDInit)
    <3> DEFINE p ==
          <<Byte("reset", 0), Byte("clear", 0), Byte("home", Origin), Byte("light", TRUE)>>
    <3>1. p \in Seq(LcdByte) /\ p # <<>> BY Programs
    <3>2. /\ torn' = (torn \/ mid # {})
          /\ \/ Write(Main, p, Nothing)
             \/ met' = (met \/ mid # {}) /\ UNCHANGED <<rest, overlapped>>
      BY <1>11, <2>3, Programs, DisplayAssumption DEF CreateScanner
    <3> HIDE DEF p
    <3>3. CASE met' = (met \/ mid # {}) /\ UNCHANGED <<rest, overlapped>>
      <4>1. Remembered' BY <1>a, <3>3 DEF Busies, Busy
      <4>2. torn' => met' BY <1>a, <3>2, <3>3
      <4> QED BY <1>b, <4>1, <4>2
    <3>4. CASE Write(Main, p, Nothing)
      <4>1. (met => met') /\ Remembered' BY <1>0, <1>9, <3>1, <3>4, WriteMeets
      <4>2. Main \in Busies' /\ Busies \subseteq Busies'
        BY <1>0, <1>9, <3>1, <3>4, WriteOK
      <4>3. mid # {} => met'
        <5> SUFFICES ASSUME mid # {} PROVE met' OBVIOUS
        <5>1. PICK u \in mid : TRUE OBVIOUS
        <5>2. u \in Busies BY <1>0, <5>1 DEF BusOK
        <5>3. u # Main BY <2>1, <5>2 DEF Busies
        <5> QED BY <1>9, <4>1, <4>2, <5>2, <5>3
      <4>4. torn' => met' BY <1>a, <3>2, <4>1, <4>3
      <4> QED BY <1>b, <4>1, <4>4
    <3> QED BY <3>2, <3>3, <3>4
  <2> QED BY <2>2, <2>3
<1>12. CASE SetCommonStrings
  <2>1. Write(Main, Text(Defaults), Defaults) /\ torn' = torn
    BY <1>12 DEF SetCommonStrings, lcdVars
  <2>2. Text(Defaults) \in Seq(LcdByte) /\ Text(Defaults) # <<>> BY <1>9, Programs
  <2> QED BY <1>3, <1>9, <2>1, <2>2
<1> QED BY <1>1, <1>2, <1>4, <1>5, <1>7, <1>8, <1>10, <1>11, <1>12, Steps

(***************************************************************************)
(* The text on the display.                                                *)
(***************************************************************************)
\* The last two bytes of a restart are neither a reset nor a clear.
LEMMA LastBytes ==
  ASSUME NEW r \in OffBytes \cup OnBytes, r # <<>>
  PROVE  /\ Head(r).op \in {"clear", "reset", "home", "light"}
         /\ Head(r).op \in {"home", "light"} => Len(r) <= 2
<1> DEFINE rr == Byte("reset", 0)
           c == Byte("clear", 0)
           h == Byte("home", Origin)
           d == Byte("light", FALSE)
           l == Byte("light", TRUE)
<1>1. rr.op = "reset" /\ c.op = "clear" /\ h.op = "home" /\ d.op = "light" /\ l.op = "light"
  BY DEF Byte
<1>2. /\ OffBytes = {<<c, d>>, <<d>>, <<>>}
      /\ OnBytes = {<<rr, c, h, l>>, <<c, h, l>>, <<h, l>>, <<l>>}
  BY DEF OffBytes, OnBytes
<1> HIDE DEF rr, c, h, d, l
<1>3. /\ Head(<<c, d>>) = c /\ Head(<<d>>) = d
      /\ Head(<<rr, c, h, l>>) = rr /\ Head(<<c, h, l>>) = c
      /\ Head(<<h, l>>) = h /\ Head(<<l>>) = l
  OBVIOUS
<1>4. Len(<<d>>) = 1 /\ Len(<<h, l>>) = 2 /\ Len(<<l>>) = 1 OBVIOUS
<1>5. CASE r = <<c, d>> BY <1>1, <1>3, <1>5
<1>6. CASE r = <<d>> BY <1>1, <1>3, <1>4, <1>6
<1>7. CASE r = <<rr, c, h, l>> BY <1>1, <1>3, <1>7
<1>8. CASE r = <<c, h, l>> BY <1>1, <1>3, <1>8
<1>9. CASE r = <<h, l>> BY <1>1, <1>3, <1>4, <1>9
<1>10. CASE r = <<l>> BY <1>1, <1>3, <1>4, <1>10
<1> QED BY <1>2, <1>5, <1>6, <1>7, <1>8, <1>9, <1>10

\* After a byte of a restart the display is empty.
LEMMA ClearingStep ==
  ASSUME TypeOK, MainBytes, mpc \in {"destroy", "create"}, EndByte(Main), fd, ~torn',
         torn \/ Clearing(rest[Main])
  PROVE  Drawn(Nothing, 0, 0)'
<1>0. LcdOK /\ BusOK /\ GhostOK /\ RestOK BY Parts
<1> DEFINE b == Head(rest[Main])
<1>1. Main \in Threads BY DEF Threads
<1>2. Busy(Main) BY <1>0, <1>1, Rests
<1>3. rest[Main] \in OffBytes \cup OnBytes /\ rest[Main] # <<>> BY <1>2 DEF MainBytes, Busy
<1>4. /\ b.op \in {"clear", "reset", "home", "light"}
      /\ b.op \in {"home", "light"} => Len(rest[Main]) <= 2
  BY <1>3, LastBytes
<1>5. Take(b) BY DEF EndByte
<1>6. CASE b.op \in {"clear", "reset"}
  <2>1. ddram' = Dark BY <1>5, <1>6 DEF Take
  <2> QED BY <2>1, DarkDrawnNext
<1>7. CASE b.op \in {"home", "light"}
  <2>1. ddram' = ddram BY <1>5, <1>7 DEF Take
  <2>2. ~torn BY <1>7 DEF EndByte
  <2>3. Drawn(Nothing, 0, 0) BY <1>4, <1>7, <2>2 DEF Clearing
  <2> QED BY <2>1, <2>3 DEF Drawn
<1> QED BY <1>4, <1>6, <1>7

\* A text that no other overlaps is a byte further, or whole.
LEMMA EndAlone ==
  ASSUME TypeOK, MainBytes, SetUp, Texting, NEW t \in Threads, EndByte(t), fd, ~torn',
         t \notin overlapped
  PROVE  /\ OnItsWay(t)'
         /\ rest'[t] = <<>> => Drawn(writes[t], writes[t][1].len, writes[t][2].len)'
<1>0. LcdOK /\ BusOK /\ GhostOK /\ RestOK BY Parts
<1>1. mpc' = mpc /\ writes' = writes BY DEF EndByte, objectVars
<1>2. Busy(t) /\ writes[t] \in Texts BY <1>0, Rests DEF BusOK
<1>3. torn => t = Main /\ mpc = "create"
  <2>1. torn => Head(rest[t]).op = "reset" BY DEF EndByte
  <2> QED BY <1>2, <2>1, ResetsWhenSetUp
<1>4. ~torn => OnItsWay(t) BY <1>2 DEF Texting, Alone
<1>5. CASE t = Main /\ mpc \in {"destroy", "create"}
  <2>1. torn \/ Clearing(rest[Main]) BY <1>4, <1>5 DEF OnItsWay
  <2>2. Drawn(Nothing, 0, 0)' BY <1>5, <2>1, ClearingStep
  <2>3. writes[t] = Nothing BY <1>2, <1>5 DEF MainBytes
  <2>4. Nothing[1].len = 0 /\ Nothing[2].len = 0 BY DEF Nothing, NoLine
  <2>5. Drawn(writes[t], writes[t][1].len, writes[t][2].len)' BY <1>1, <2>2, <2>3, <2>4
  <2>6. Clearing(rest[Main])' BY <2>2 DEF Clearing
  <2> QED BY <1>1, <1>5, <2>5, <2>6 DEF OnItsWay
<1>6. CASE ~(t = Main /\ mpc \in {"destroy", "create"})
  <2> DEFINE m == writes[t]
  <2>1. ~torn /\ Progress(rest[t], m) BY <1>3, <1>4, <1>6 DEF OnItsWay
  <2>2. m \in Texts /\ m' = m BY <1>1, <1>2
  <2> HIDE DEF m
  <2>3. Progress(rest[t], m)'
    <3> PICK l \in Texts : l = m BY <2>2
    <3>1. Progress(rest[t], l) BY <2>1
    <3>2. Progress(rest[t], l)' BY <1>0, <3>1, ProgressStep
    <3> QED BY <2>2, <3>2
  <2>4. OnItsWay(t)' BY <1>1, <1>6, <2>3 DEF OnItsWay, m
  <2>5. ASSUME rest'[t] = <<>>
        PROVE  Drawn(writes[t], writes[t][1].len, writes[t][2].len)'
    <3> PICK l \in Texts : l = m BY <2>2
    <3>1. Progress(<<>>, l)' BY <2>2, <2>3, <2>5
    <3>2. Drawn(l, l[1].len, l[2].len)' BY <3>1, ProgressEnds
    <3> QED BY <1>1, <2>2, <3>2 DEF m
  <2> QED BY <2>4, <2>5
<1> QED BY <1>5, <1>6

\* A text that is begun...
LEMMA BegunText ==
  ASSUME NEW t \in Threads, NEW m \in Texts, rest'[t] = Text(m), writes'[t] = m,
         t # Main \/ mpc' \notin {"destroy", "create"}
  PROVE  OnItsWay(t)'
<1>1. Begun(rest[t], writes[t])' BY DEF Begun
<1> QED BY <1>1 DEF OnItsWay, Progress

\* ... and one that is as it was.
LEMMA SameText ==
  ASSUME NEW t \in Threads, OnItsWay(t), UNCHANGED <<ddram, address, xy>>,
         rest'[t] = rest[t], writes'[t] = writes[t],
         t # Main \/ mpc' = mpc
  PROVE  OnItsWay(t)'
<1>1. ASSUME NEW i, NEW j, NEW m PROVE Drawn(m, i, j)' <=> Drawn(m, i, j) BY DEF Drawn
<1>2. ASSUME NEW i, NEW j PROVE At(i, j)' <=> At(i, j) BY DEF At
<1>3. CASE t = Main /\ mpc \in {"destroy", "create"}
  <2>1. Clearing(rest[t]) BY <1>3 DEF OnItsWay
  <2>2. Drawn(Nothing, 0, 0)' <=> Drawn(Nothing, 0, 0) BY <1>1
  <2>3. Clearing(rest[t])' BY <2>1, <2>2 DEF Clearing
  <2> QED BY <1>3, <2>3 DEF OnItsWay
<1>4. CASE ~(t = Main /\ mpc \in {"destroy", "create"})
  <2> DEFINE r == rest[t]
             m == writes[t]
  <2>1. Progress(r, m) BY <1>4 DEF OnItsWay
  <2>2. r' = r /\ m' = m OBVIOUS
  <2>3. Progress(r, m)'
    BY <2>1, <2>2 DEF Progress, Begun, Cleared, InFirst, FirstFull, InSecond, SecondFull,
                      Drawn, At
  <2> QED BY <1>4, <2>3 DEF OnItsWay
<1> QED BY <1>3, <1>4

\* A thread begins a text: no other is alone then.
LEMMA WriteAlone ==
  ASSUME TypeOK, Callers, Meetings, NEW t \in Threads, NEW bytes \in Seq(LcdByte),
         bytes # <<>>, NEW m \in Texts, Write(t, bytes, m),
         t \in Bare \/ sLCDMutex \in {Free, Destroyed},
         NEW u \in Threads, Alone(u)'
  PROVE  u = t
<1>0. BusOK /\ GhostOK BY Parts
<1>1. u \in Busies' /\ u \notin overlapped' BY DEF Alone, Busies
<1>2. t \in Busies' BY <1>0, WriteOK
<1> QED BY <1>0, <1>1, <1>2, WriteMeets

\* The text of whoever is alone is on its way, also after a step.
LEMMA TextingNext ==
  ASSUME TypeOK, Callers, MainBytes, SetUp, Meetings, Texting, [Next]_vars
  PROVE  Texting'
<1>0. LcdOK /\ BusOK /\ GhostOK /\ RestOK BY Parts
<1>1. SUFFICES ASSUME NEW t \in Threads, Alone(t)' PROVE OnItsWay(t)' BY DEF Texting
<1>2. Busy(t)' /\ t \notin overlapped' /\ fd' /\ ~torn' BY <1>1 DEF Alone
<1>3. ASSUME UNCHANGED <<ddram, address, xy, rest, overlapped, fd, torn>>,
             Busy(t) => writes'[t] = writes[t], t = Main => mpc' = mpc \/ ~Busy(Main)
      PROVE  OnItsWay(t)'
  <2>1. Busy(t) /\ Alone(t) BY <1>2, <1>3 DEF Alone, Busy
  <2>2. OnItsWay(t) BY <2>1 DEF Texting
  <2>3. rest'[t] = rest[t] /\ writes'[t] = writes[t] /\ (t # Main \/ mpc' = mpc)
    BY <1>3, <2>1
  <2> QED BY <1>3, <2>2, <2>3, SameText
<1>4. ASSUME NEW u \in Threads, StartByte(u) PROVE OnItsWay(t)'
  <2>1. torn' = (torn \/ (fd /\ mid # {})) BY <1>4 DEF StartByte
  <2>2. torn' = torn BY <1>0, <1>2, <2>1 DEF LcdOK
  <2>3. UNCHANGED <<ddram, address, xy, rest, overlapped, fd, writes, mpc>>
    BY <1>2, <1>4 DEF StartByte, objectVars, ghostVars
  <2> QED BY <1>3, <2>2, <2>3
<1>5. ASSUME NEW u \in Threads, EndByte(u) PROVE OnItsWay(t)'
  <2>1. /\ u \in Busies /\ Busies' \subseteq Busies
        /\ \A v \in Threads \ {u} : rest'[v] = rest[v]
    BY <1>0, <1>5, EndBusies
  <2>2. t \in Busies BY <1>2, <2>1 DEF Busies
  <2>3. fd /\ torn' = (torn /\ ~(Head(rest[u]).op = "reset" /\ u \notin clash))
    BY <1>2, <1>5 DEF EndByte, objectVars
  <2>4. overlapped' = overlapped \/ (~Busy(u)' /\ overlapped' = overlapped \ {u})
    BY <1>5 DEF EndByte
  <2>5. t \notin overlapped BY <1>2, <2>4
  <2>6. u = t
    <3> SUFFICES ASSUME u # t PROVE FALSE OBVIOUS
    <3> QED BY <2>1, <2>2, <2>5 DEF Meetings
  <2> QED BY <1>2, <1>5, <2>3, <2>5, <2>6, EndAlone
<1>6. ASSUME NEW s \in Scanners, NEW m \in Messages, ShowLCDMessage(s, m) PROVE OnItsWay(t)'
  <2>1. /\ Write(s, Text(m), m) /\ m \in Texts /\ s \in Threads /\ s # Main
        /\ sLCDMutex \in {Free, Destroyed}
    BY <1>6, Kinds DEF ShowLCDMessage, Texts
  <2>2. Text(m) \in Seq(LcdByte) /\ Text(m) # <<>> BY <2>1, Programs
  <2>3. t = s BY <1>1, <2>1, <2>2, WriteAlone
  <2>4. rest'[s] = Text(m) /\ writes'[s] = m BY <1>0, <2>1, <2>2, WriteOK
  <2> QED BY <2>1, <2>3, <2>4, BegunText
<1>7. ASSUME NEW u \in Timers, Wake(u) PROVE OnItsWay(t)'
  <2>1. /\ Write(u, Text(Defaults), Defaults) /\ Defaults \in Texts
        /\ u \in Threads /\ u \in Bare /\ u # Main
    BY <1>7, Kinds DEF Wake, Texts
  <2>2. Text(Defaults) \in Seq(LcdByte) /\ Text(Defaults) # <<>> BY <2>1, Programs
  <2>3. t = u BY <1>1, <2>1, <2>2, WriteAlone
  <2>4. rest'[u] = Text(Defaults) /\ writes'[u] = Defaults BY <1>0, <2>1, <2>2, WriteOK
  <2> QED BY <2>1, <2>3, <2>4, BegunText
<1>8. ASSUME NEW s \in Scanners, Unlock(s) PROVE OnItsWay(t)'
  <2>1. /\ UNCHANGED <<ddram, address, xy, rest, overlapped, fd, torn, mpc>> /\ ~Busy(s)
        /\ writes' = [writes EXCEPT ![s] = Nothing]
    BY <1>8 DEF Unlock, busVars, lcdVars, objectVars, ghostVars
  <2>2. Busy(t) => writes'[t] = writes[t] BY <1>0, <2>1 DEF BusOK
  <2> QED BY <1>3, <2>1, <2>2
<1>9. CASE StopScanners \/ DestroyMutex \/ StartScanners \/ UNCHANGED vars
  <2>1. UNCHANGED <<ddram, address, xy, rest, overlapped, fd, torn, writes>>
    BY <1>9 DEF StopScanners, DestroyMutex, StartScanners, vars, busVars, lcdVars, objectVars,
                ghostVars
  <2>2. mpc' = mpc \/ ~Busy(Main)
    <3>1. mpc = "run" => ~Busy(Main) BY DEF MainBytes, Busy
    <3> QED BY <1>9, <3>1 DEF StopScanners, DestroyMutex, StartScanners, vars, objectVars
  <2> QED BY <1>3, <2>1, <2>2
<1>10. Main \in Threads /\ Main \in Bare /\ Nothing \in Texts /\ Defaults \in Texts
  BY Kinds DEF Threads, Texts
<1>11. ASSUME NEW p \in Seq(LcdByte), p # <<>>, Write(Main, p, Nothing),
              mpc' \in {"destroy", "create"}, Len(p) > 2 \/ Head(p).op = "clear"
       PROVE  OnItsWay(t)'
  <2>1. t = Main BY <1>1, <1>10, <1>11, WriteAlone
  <2>2. rest'[Main] = p BY <1>0, <1>10, <1>11, WriteOK
  <2>3. Clearing(rest[t])' BY <1>11, <2>1, <2>2 DEF Clearing
  <2> QED BY <1>11, <2>1, <2>3 DEF OnItsWay
<1>12. CASE DeleteScanner
  <2>1. CASE gUseLCD /\ sLCDInit
    <3> DEFINE p == <<Byte("clear", 0), Byte("light", FALSE)>>
    <3>1. p \in Seq(LcdByte) /\ p # <<>> /\ Write(Main, p, Nothing) /\ mpc' = "destroy"
      BY <1>12, <2>1, Programs DEF DeleteScanner
    <3>2. Head(p) = Byte("clear", 0) OBVIOUS
    <3>3. Head(p).op = "clear" BY <3>2 DEF Byte
    <3> HIDE DEF p
    <3> QED BY <1>11, <3>1, <3>3
  <2>2. CASE ~(gUseLCD /\ sLCDInit)
    BY <1>3, <1>12, <2>2 DEF DeleteScanner, lcdVars, ghostVars
  <2> QED BY <2>1, <2>2
<1>13. CASE CreateScanner
  <2>1. ~Busy(Main) /\ mpc' = "create" BY <1>13 DEF CreateScanner
  <2>2. CASE ~gUseLCD' \/ sLCDInit
    BY <1>3, <1>13, <2>1, <2>2 DEF CreateScanner, busVars, lcdVars, ghostVars
  <2>3. CASE ~(~gUseLCD' \/ sLCDInit)
    <3> DEFINE p ==
          <<Byte("reset", 0), Byte("clear", 0), Byte("home", Origin), Byte("light", TRUE)>>
    <3>1. p \in Seq(LcdByte) /\ p # <<>> BY Programs
    <3>2. Len(p) > 2 OBVIOUS
    <3>3. Write(Main, p, Nothing)
      BY <1>2, <1>13, <2>3, Programs, DisplayAssumption DEF CreateScanner
    <3> HIDE DEF p
    <3> QED BY <1>11, <2>1, <3>1, <3>2, <3>3
  <2> QED BY <2>2, <2>3
<1>14. CASE SetCommonStrings
  <2>1. Write(Main, Text(Defaults), Defaults) /\ mpc' = "default"
    BY <1>14 DEF SetCommonStrings
  <2>2. Text(Defaults) \in Seq(LcdByte) /\ Text(Defaults) # <<>> BY <1>10, Programs
  <2>3. t = Main BY <1>1, <1>10, <2>1, <2>2, WriteAlone
  <2>4. rest'[Main] = Text(Defaults) /\ writes'[Main] = Defaults
    BY <1>0, <1>10, <2>1, <2>2, WriteOK
  <2> QED BY <1>10, <2>1, <2>3, <2>4, BegunText
<1> QED BY <1>4, <1>5, <1>6, <1>7, <1>8, <1>9, <1>12, <1>13, <1>14, Steps

\* When nobody writes, the text written last is whole, also after a step.
LEMMA ShownNext ==
  ASSUME TypeOK, MainBytes, SetUp, Texting, Shown, [Next]_vars
  PROVE  Shown'
<1>0. LcdOK /\ BusOK /\ GhostOK /\ RestOK BY Parts
<1>1. SUFFICES ASSUME Busies' = {}, fd', ~torn', last'.alone
               PROVE  Screen' = Picture(last'.text)
  BY DEF Shown, Picture
<1>2. ASSUME UNCHANGED <<ddram, rest, fd, torn, last>> PROVE Screen' = Picture(last'.text)
  <2>1. Busies = {} /\ fd /\ ~torn /\ last.alone BY <1>1, <1>2 DEF Busies, Busy
  <2>2. Screen = Picture(last.text) BY <2>1 DEF Shown
  <2>3. Screen' = Screen BY <1>2 DEF Screen
  <2> QED BY <1>2, <2>2, <2>3
<1>3. ASSUME NEW t \in Threads, NEW p \in Seq(LcdByte), p # <<>>, NEW m \in Texts, Write(t, p, m)
      PROVE  FALSE
  <2>1. t \in Busies' BY <1>0, <1>3, WriteOK
  <2> QED BY <1>1, <2>1
<1>4. ASSUME NEW t \in Threads, StartByte(t) PROVE FALSE
  <2>1. t \in Busies /\ rest' = rest BY <1>4 DEF StartByte, Busies
  <2> QED BY <1>1, <2>1 DEF Busies, Busy
<1>5. ASSUME NEW t \in Threads, EndByte(t) PROVE Screen' = Picture(last'.text)
  <2> DEFINE alone == t \notin overlapped
  <2>1. ~Busy(t)' /\ rest'[t] = <<>> BY <1>1 DEF Busies, Busy
  <2>2. last' = [text |-> writes[t], alone |-> alone] BY <1>5, <2>1 DEF EndByte
  <2>3. last'.text = writes[t] /\ last'.alone = alone
    <3> HIDE DEF alone
    <3> QED BY <2>2
  <2>4. t \notin overlapped BY <1>1, <2>3
  <2>5. fd BY <1>1, <1>5 DEF EndByte, objectVars
  <2> DEFINE m == writes[t]
  <2>6. m' = m /\ m \in Texts BY <1>0, <1>5 DEF EndByte, BusOK
  <2>7. Drawn(writes[t], writes[t][1].len, writes[t][2].len)'
    BY <1>1, <1>5, <2>1, <2>4, <2>5, EndAlone
  <2> HIDE DEF m
  <2> PICK l \in Texts : l = m BY <2>6
  <2>8. Drawn(l, l[1].len, l[2].len)' BY <2>6, <2>7 DEF m
  <2>9. Screen' = Picture(l) BY <2>8, DrawnPicture
  <2> QED BY <2>3, <2>9 DEF m
<1>6. Main \in Threads /\ Nothing \in Texts /\ Defaults \in Texts BY DEF Threads, Texts
<1>7. ASSUME NEW s \in Scanners, NEW m \in Messages, ShowLCDMessage(s, m) PROVE FALSE
  <2>1. Write(s, Text(m), m) /\ m \in Texts /\ s \in Threads
    BY <1>7 DEF ShowLCDMessage, Texts, Threads
  <2> QED BY <1>3, <2>1, Programs
<1>8. ASSUME NEW u \in Timers, Wake(u) PROVE FALSE
  <2>1. Write(u, Text(Defaults), Defaults) /\ u \in Threads BY <1>8 DEF Wake, Threads
  <2> QED BY <1>3, <1>6, <2>1, Programs
<1>9. ASSUME NEW s \in Scanners, Unlock(s) PROVE Screen' = Picture(last'.text)
  BY <1>2, <1>9 DEF Unlock, busVars, lcdVars, objectVars, ghostVars
<1>10. CASE StopScanners \/ DestroyMutex \/ StartScanners \/ UNCHANGED vars
  BY <1>2, <1>10 DEF StopScanners, DestroyMutex, StartScanners, vars, busVars, lcdVars,
                     objectVars, ghostVars
<1>11. CASE DeleteScanner
  <2>1. CASE gUseLCD /\ sLCDInit
    <3> DEFINE p == <<Byte("clear", 0), Byte("light", FALSE)>>
    <3>1. p \in Seq(LcdByte) /\ p # <<>> /\ Write(Main, p, Nothing)
      BY <1>11, <2>1, Programs DEF DeleteScanner
    <3> HIDE DEF p
    <3> QED BY <1>3, <1>6, <3>1
  <2>2. CASE ~(gUseLCD /\ sLCDInit)
    BY <1>2, <1>11, <2>2 DEF DeleteScanner, lcdVars, ghostVars
  <2> QED BY <2>1, <2>2
<1>12. CASE CreateScanner
  <2>1. CASE ~gUseLCD' \/ sLCDInit
    BY <1>2, <1>12, <2>1 DEF CreateScanner, busVars, lcdVars, ghostVars
  <2>2. CASE ~(~gUseLCD' \/ sLCDInit)
    <3> DEFINE p ==
          <<Byte("reset", 0), Byte("clear", 0), Byte("home", Origin), Byte("light", TRUE)>>
    <3>1. p \in Seq(LcdByte) /\ p # <<>> BY Programs
    <3>2. Write(Main, p, Nothing)
      BY <1>1, <1>12, <2>2, Programs, DisplayAssumption DEF CreateScanner
    <3> HIDE DEF p
    <3> QED BY <1>3, <1>6, <3>1, <3>2
  <2> QED BY <2>1, <2>2
<1>13. CASE SetCommonStrings
  <2>1. Write(Main, Text(Defaults), Defaults) BY <1>13 DEF SetCommonStrings
  <2> QED BY <1>3, <1>6, <2>1, Programs
<1> QED BY <1>4, <1>5, <1>7, <1>8, <1>9, <1>10, <1>11, <1>12, <1>13, Steps

\* What the end of a byte leaves of the promise.
LEMMA EndTakesBack ==
  ASSUME TypeOK, Callers, MainBytes, TakesBack, NEW t \in Threads, EndByte(t)
  PROVE  TakesBack'
<1>0. BusOK /\ GhostOK /\ LcdOK BY Parts
<1>1. /\ Busy(t) /\ rest' \in [Threads -> Seq(LcdByte)]
      /\ \A u \in Threads \ {t} : rest'[u] = rest[u]
  BY <1>0, Rests
<1>2. writes' = writes /\ mpc' = mpc /\ asleep' = asleep BY DEF EndByte, objectVars
<1>3. \A u \in Threads : Busy(u)' => Busy(u) BY <1>1 DEF Busy
<1>4. Scanners \subseteq Threads /\ Timers \subseteq Threads /\ Main \in Threads BY DEF Threads
<1>5. /\ \A u \in Timers : Busy(u)' => writes'[u] = Defaults
      /\ mpc' = "default" /\ Busy(Main)' => writes'[Main] = Defaults
  BY <1>2, <1>3, <1>4 DEF TakesBack
<1>6. ASSUME mpc' \in {"run", "default"}, ~Busy(Main)'
      PROVE  last'.text = Defaults \/ Pending'
  <2>1. CASE Busy(t)'
    <3>1. last' = last BY <2>1 DEF EndByte
    <3>2. t # Main BY <1>6, <2>1
    <3>3. ~Busy(Main) BY <1>1, <1>4, <1>6, <3>2 DEF Busy
    <3>4. last.text = Defaults \/ Pending BY <1>2, <1>6, <3>3 DEF TakesBack
    <3>5. Pending => Pending'
      <4>1. \A u \in Timers : Busy(u) => Busy(u)' BY <1>1, <1>4, <2>1 DEF Busy
      <4> QED BY <1>2, <4>1 DEF Pending
    <3> QED BY <3>1, <3>4, <3>5
  <2>2. CASE ~Busy(t)'
    <3>1. last'.text = writes[t] BY <2>2 DEF EndByte
    <3>2. CASE t \in Scanners
      <4>1. writes[t] # Nothing BY <1>1, <3>2 DEF Callers
      <4> QED BY <1>2, <3>2, <4>1 DEF Pending
    <3>3. CASE t \in Timers BY <1>1, <3>1, <3>3 DEF TakesBack
    <3>4. CASE t = Main
      <4>1. mpc = "default" BY <1>1, <1>2, <1>6, <3>4 DEF MainBytes, Busy
      <4> QED BY <1>1, <3>1, <3>4, <4>1 DEF TakesBack
    <3> QED BY <3>2, <3>3, <3>4 DEF Threads
  <2> QED BY <2>1, <2>2
<1> QED BY <1>5, <1>6 DEF TakesBack

\* What the beginning of a text adds to it.
LEMMA WriteTakesBack ==
  ASSUME TypeOK, TakesBack, NEW t \in Threads, NEW p \in Seq(LcdByte), p # <<>>,
         NEW m \in Texts, Write(t, p, m)
  PROVE  /\ t \notin Timers \/ m = Defaults => \A u \in Timers : Busy(u)' => writes'[u] = Defaults
         /\ t \in Scanners /\ m # Nothing => Pending'
         /\ t \in Timers => Pending'
         /\ t = Main => Busy(Main)' /\ writes'[Main] = m
         /\ t # Main => (Busy(Main)' <=> Busy(Main)) /\ writes'[Main] = writes[Main]
<1>0. BusOK /\ GhostOK BY Parts
<1>1. /\ rest'[t] = p /\ writes'[t] = m
      /\ \A u \in Threads \ {t} : rest'[u] = rest[u] /\ writes'[u] = writes[u]
  BY <1>0, WriteOK
<1>2. Scanners \subseteq Threads /\ Timers \subseteq Threads /\ Main \in Threads BY DEF Threads
<1>3. Busy(t)' /\ \A u \in Threads \ {t} : Busy(u)' <=> Busy(u) BY <1>1 DEF Busy
<1>4. \A u \in Timers : Busy(u) => writes[u] = Defaults BY DEF TakesBack
<1> QED BY <1>1, <1>2, <1>3, <1>4 DEF Pending

\* The promise is kept by every step.
LEMMA TakesBackNext ==
  ASSUME TypeOK, Callers, MainBytes, TakesBack, [Next]_vars
  PROVE  TakesBack'
<1>0. BusOK /\ GhostOK BY Parts
<1>1. /\ Main \in Threads /\ Main \notin Scanners \cup Timers
      /\ Nothing \in Texts /\ Defaults \in Texts
  BY Kinds DEF Threads, Texts
<1>2. ASSUME UNCHANGED <<rest, writes, last, asleep>>, mpc' = mpc \/ mpc' \notin {"run", "default"}
      PROVE  TakesBack'
  BY <1>2 DEF TakesBack, Pending, Busy
<1>3. ASSUME NEW t \in Threads, StartByte(t) PROVE TakesBack'
  BY <1>2, <1>3 DEF StartByte, objectVars, ghostVars
<1>4. ASSUME NEW t \in Threads, EndByte(t) PROVE TakesBack' BY <1>4, EndTakesBack
<1>5. ASSUME NEW s \in Scanners, NEW m \in Messages, ShowLCDMessage(s, m) PROVE TakesBack'
  <2>1. Write(s, Text(m), m) /\ m \in Texts /\ s \in Threads /\ s # Main /\ s \notin Timers
    BY <1>5, Kinds DEF ShowLCDMessage, Texts, Threads, Bare
  <2>2. m # Nothing BY DisplayAssumption
  <2>3. mpc' = mpc BY <1>5 DEF ShowLCDMessage, objectVars
  <2> QED BY <1>5, <2>1, <2>2, <2>3, Programs, WriteTakesBack DEF TakesBack
<1>6. ASSUME NEW u \in Timers, Wake(u) PROVE TakesBack'
  <2>1. Write(u, Text(Defaults), Defaults) /\ u \in Threads /\ u # Main /\ mpc' = mpc
    BY <1>1, <1>6 DEF Wake, Threads, objectVars
  <2> QED BY <1>1, <1>6, <2>1, Programs, WriteTakesBack DEF TakesBack
<1>7. ASSUME NEW s \in Scanners, Unlock(s) PROVE TakesBack'
  <2>1. /\ rest' = rest /\ mpc' = mpc /\ asleep' # {}
        /\ \A t \in Threads \ {s} : writes'[t] = writes[t]
    <3>1. writes' = [writes EXCEPT ![s] = Nothing] BY <1>7 DEF Unlock
    <3>2. writes \in [Threads -> Texts] BY <1>0 DEF BusOK
    <3>3. \A t \in Threads \ {s} : writes'[t] = writes[t] BY <3>1, <3>2
    <3> QED BY <1>7, <3>3 DEF Unlock, busVars, objectVars
  <2>2. Timers \cup {Main} \subseteq Threads \ {s} BY <1>1, Kinds DEF Bare, Threads
  <2>3. \A t \in Timers \cup {Main} : writes'[t] = writes[t] /\ (Busy(t)' <=> Busy(t))
    BY <2>1, <2>2 DEF Busy
  <2>4. Pending' BY <2>1 DEF Pending
  <2> QED BY <2>1, <2>3, <2>4 DEF TakesBack
<1>8. CASE StopScanners \/ DestroyMutex \/ UNCHANGED vars
  BY <1>2, <1>8 DEF StopScanners, DestroyMutex, vars, busVars, objectVars, ghostVars
<1>9. CASE StartScanners
  <2>1. mpc = "default" /\ ~Busy(Main) /\ UNCHANGED <<rest, writes, last, asleep>>
    BY <1>9 DEF StartScanners, busVars, ghostVars
  <2>2. last.text = Defaults \/ Pending BY <2>1 DEF TakesBack
  <2> QED BY <2>1, <2>2, <1>9 DEF StartScanners, TakesBack, Pending, Busy
<1>10. ASSUME NEW p \in Seq(LcdByte), p # <<>>, Write(Main, p, Nothing),
              mpc' \notin {"run", "default"}
       PROVE  TakesBack'
  BY <1>1, <1>10, WriteTakesBack DEF TakesBack
<1>11. CASE DeleteScanner
  <2>1. CASE gUseLCD /\ sLCDInit
    <3> DEFINE p == <<Byte("clear", 0), Byte("light", FALSE)>>
    <3>1. p \in Seq(LcdByte) /\ p # <<>> /\ Write(Main, p, Nothing) /\ mpc' = "destroy"
      BY <1>11, <2>1, Programs DEF DeleteScanner
    <3> HIDE DEF p
    <3> QED BY <1>10, <3>1
  <2>2. CASE ~(gUseLCD /\ sLCDInit)
    BY <1>2, <1>11, <2>2 DEF DeleteScanner, lcdVars, ghostVars
  <2> QED BY <2>1, <2>2
<1>12. CASE CreateScanner
  <2>1. mpc' = "create" BY <1>12 DEF CreateScanner
  <2>2. CASE ~gUseLCD' \/ sLCDInit
    BY <1>2, <1>12, <2>1, <2>2 DEF CreateScanner, busVars, lcdVars, ghostVars
  <2>3. CASE ~(~gUseLCD' \/ sLCDInit)
    <3>1. PICK ok \in BOOLEAN :
            /\ ok => Write(Main, lcd_i2c_init \o lcd_i2c_backlight(TRUE), Nothing)
            /\ ~ok => UNCHANGED <<xy, rest, mid, clash, writes, overlapped, last>>
      BY <1>12, <2>3, DisplayAssumption DEF CreateScanner
    <3>2. asleep' = asleep BY <1>12 DEF CreateScanner
    <3>3. CASE ok
      <4> DEFINE p ==
            <<Byte("reset", 0), Byte("clear", 0), Byte("home", Origin), Byte("light", TRUE)>>
      <4>1. p \in Seq(LcdByte) /\ p # <<>> BY Programs
      <4>2. Write(Main, p, Nothing) BY <3>1, <3>3, Programs
      <4> HIDE DEF p
      <4> QED BY <1>10, <2>1, <4>1, <4>2
    <3>4. CASE ~ok
      <4>1. rest' = rest /\ writes' = writes /\ last' = last BY <3>1, <3>4
      <4> QED BY <1>2, <2>1, <3>2, <4>1
    <3> QED BY <3>3, <3>4
  <2> QED BY <2>2, <2>3
<1>13. CASE SetCommonStrings
  <2>1. Write(Main, Text(Defaults), Defaults) BY <1>13 DEF SetCommonStrings
  <2>2. Text(Defaults) \in Seq(LcdByte) /\ Text(Defaults) # <<>> BY <1>1, Programs
  <2> DEFINE p == Text(Defaults)
  <2>3. p \in Seq(LcdByte) /\ p # <<>> /\ Write(Main, p, Defaults) BY <2>1, <2>2
  <2> HIDE DEF p
  <2>4. /\ \A u \in Timers : Busy(u)' => writes'[u] = Defaults
        /\ Busy(Main)' /\ writes'[Main] = Defaults
    BY <1>1, <2>3, WriteTakesBack
  <2> QED BY <2>4 DEF TakesBack
<1> QED BY <1>3, <1>4, <1>5, <1>6, <1>7, <1>8, <1>9, <1>11, <1>12, <1>13, Steps

\* The daemon starts with its default lines on a display that is used, and nobody writes.
LEMMA Start ==
  Init => Callers /\ MainBytes /\ SetUp /\ Meetings /\ Texting /\ Shown /\ TakesBack
<1> SUFFICES ASSUME Init
             PROVE  Callers /\ MainBytes /\ SetUp /\ Meetings /\ Texting /\ Shown /\ TakesBack
  OBVIOUS
<1>1. \A t \in Threads : rest[t] = <<>> /\ writes[t] = Nothing /\ ~Busy(t) BY DEF Init, Busy
<1>2. Busies = {} BY <1>1 DEF Busies
<1>3. Scanners \subseteq Threads /\ Timers \subseteq Threads /\ Main \in Threads BY DEF Threads
<1>4. Callers BY <1>1, <1>3 DEF Init, Callers
<1>5. MainBytes
  <2>1. <<>> \in Seq(TextByte) OBVIOUS
  <2> QED BY <1>1, <1>3, <2>1 DEF Init, MainBytes
<1>6. SetUp
  <2>1. fd => gUseLCD BY DEF Init
  <2> QED BY <2>1, DisplayAssumption DEF Init, SetUp
<1>7. Meetings BY <1>2 DEF Init, Meetings
<1>8. Texting BY <1>1 DEF Texting, Alone
<1>9. Shown
  <2>1. last.text = Defaults BY DEF Init
  <2>2. \A x \in 0..(COLS - 1) : x \in 0..(WIDTH - 1) BY Sizes
  <2>3. fd => Screen = Picture(Defaults) BY <2>2 DEF Init, Screen, Picture
  <2> QED BY <2>1, <2>3 DEF Shown
<1>10. TakesBack BY <1>1, <1>3 DEF Init, TakesBack
<1> QED BY <1>4, <1>5, <1>6, <1>7, <1>8, <1>9, <1>10

\* The invariant holds in every state.
LEMMA Invariant == Spec => []IInv
<1>1. Init => IInv BY TypeInit, Start DEF IInv
<1>2. IInv /\ [Next]_vars => IInv'
  BY TypeNext, CallersNext, MainNext, SetUpNext, MeetingsNext, TextingNext, ShownNext,
     TakesBackNext DEF IInv
<1> QED BY <1>1, <1>2, PTL DEF Spec

\* sLCDMutex keeps the verdicts of any number of scanners apart, whatever the
\* timers and the restarts do and whatever each start reads of USE_LCD: a text that
\* no thread without the mutex has overlapped is whole when nobody writes, bytes meet
\* on the bus only where there was such a thread, a display that is to be used and
\* that lcd_i2c_setup found is lit and has its mutex when the scanners run, and no
\* verdict stays.
THEOREM DisplayIsWhole == Spec => []DisplayInv
<1>1. IInv => DisplayInv
  <2> SUFFICES ASSUME IInv PROVE DisplayInv OBVIOUS
  <2>1. WholeUnlessOverlapped BY DEF IInv, Meetings, Shown, WholeUnlessOverlapped
  <2>2. ReadyWhileRunning BY DEF IInv, SetUp, ReadyWhileRunning
  <2>3. VerdictsTakenBack
    <3> SUFFICES ASSUME mpc = "run", Busies = {}, asleep = {},
                        \A s \in Scanners : writes[s] = Nothing
                 PROVE  last.text = Defaults
      BY DEF VerdictsTakenBack
    <3>1. \A t \in Threads : ~Busy(t) BY DEF Busies
    <3>2. ~Busy(Main) /\ \A t \in Timers : ~Busy(t) BY <3>1 DEF Threads
    <3>3. ~Pending BY <3>2 DEF Pending
    <3> QED BY <3>2, <3>3 DEF IInv, TakesBack
  <2> QED BY <2>1, <2>2, <2>3 DEF IInv, DisplayInv
<1> QED BY <1>1, Invariant, PTL
=============================================================================
