------------------------------- MODULE Template -------------------------------
(***************************************************************************)
(* The way of a template through the daemon: from the exit scanner in a    *)
(* data packet (GetData), to the entry scanner in another (SendData), into *)
(* the database as base64 text with a checksum (db_insert_fingerprint), and*)
(* at a reload out of it (db_get_fingerprint) and to the scanner again.  Of*)
(* every packet on the serial line a byte may change, and a character of   *)
(* the row in the file.                                                    *)
(*                                                                         *)
(* A text is the sequence of the values of its characters; Pad is '='.     *)
(* Where the templates are, and under which number, is in Registry, whose  *)
(* proofs see the two modules together: hence the names.                   *)
(***************************************************************************)
EXTENDS Integers, Sequences

CONSTANTS
  Templates,   \* what a scan may yield, all of TEMPLATE_DATA_LEN bytes or not
  Noise,       \* what a byte on the line, or of memory not set, may be
  Scratches,   \* what a character of the file may turn into
  Pad,
  NULL

Bytes == 0..255
Sextets == 0..63
Word == 65536   \* values of a uint16_t

ASSUME TemplateAssumption ==
  /\ Templates \subseteq Seq(Bytes) \ {<<>>}
  /\ Noise \subseteq Bytes /\ Noise # {}
  /\ Scratches \subseteq Sextets \cup {Pad} /\ Pad \notin Sextets
  /\ NULL \notin Seq(Bytes) /\ NULL \notin [data : Seq(Sextets \cup {Pad}), checksum : Nat]

VARIABLES
  enrolled,   \* the template on the exit scanner
  held,       \* the template of that number on the entry scanner, or NULL
  row,        \* the row of table Fingerprint, or NULL
  fgp,        \* the buffer of enroll() or of the reload loop
  line,       \* the data packet on the serial line
  step,       \* the step enroll() or the reload loop is in
  scratched   \* has a character of the row been changed?

templateVars == <<enrolled, held, row, fgp, line, step, scratched>>

\* The sum of the numbers in s.
Sum(s) ==
  LET sum[n \in 0..Len(s)] == IF n = 0 THEN 0 ELSE sum[n - 1] + s[n]
  IN sum[Len(s)]

TEMPLATE_DATA_LEN == Len(enrolled)

(***************************************************************************)
(* base64.h                                                                *)
(***************************************************************************)
\* Mutant: an operator precedence, a & 3 << 4.
QuadUnshifted(a, b, c) ==
  <<a \div 4, (a % 4) + b \div 16, (b % 16) * 4 + c \div 64, c % 64>>

\* The values of the four characters for three bytes.
Quad(a, b, c) == <<a \div 4, (a % 4) * 16 + b \div 16, (b % 16) * 4 + c \div 64, c % 64>>

\* The last group of bytes is filled up with zeros, that of characters with '='.
ByteOf(bin, i) == IF i <= Len(bin) THEN bin[i] ELSE 0

base64(bin) ==
  LET pad == (3 - (Len(bin) % 3)) % 3
      flen == (4 * (Len(bin) + pad)) \div 3
      Char(j) == LET g == 3 * (j \div 4)
                 IN Quad(ByteOf(bin, g + 1), ByteOf(bin, g + 2), ByteOf(bin, g + 3))[(j % 4) + 1]
  IN [j \in 1..flen |-> IF j > flen - pad THEN Pad ELSE Char(j - 1)]

\* unb64: a character that is no digit counts as 0.
Digit(c) == IF c = Pad THEN 0 ELSE c

\* The three bytes of four characters, an unsigned char each.
Triple(a, b, c, d) ==
  <<a * 4 + b \div 16, (b * 16 + c \div 4) % 256, (c * 64 + d) % 256>>

IsPad(c) == IF c = Pad THEN 1 ELSE 0

unbase64(text) ==
  LET len == Len(text)
      pad == IsPad(text[len]) + IsPad(text[len - 1])
      Byte(k) == LET D(j) == Digit(text[4 * (k \div 3) + j])
                 IN Triple(D(1), D(2), D(3), D(4))[(k % 3) + 1]
  IN IF len < 2 THEN <<>> ELSE [k \in 1..((3 * len) \div 4 - pad) |-> Byte(k - 1)]

(***************************************************************************)
(* Data packets.                                                           *)
(***************************************************************************)
Header == <<90, 165>>      \* DATA_START_CODE_1 and 2
Device == <<1, 0>>         \* DATA_DEVICE_ID_1 and 2
LowHigh(w) == <<w % 256, w \div 256>>
WordAt(p, i) == p[i] + 256 * p[i + 1]

\* SendData, and a scanner's packets.
DataPacket(data) ==
  Header \o Device \o data \o LowHigh(Sum(Header \o Device \o data) % Word)

DataOf(p) == SubSeq(p, 5, Len(p) - 2)

\* GetData: the data, or NULL for a bad header or checksum.
GetData(p) ==
  LET checksum == (Sum(SubSeq(p, 1, 2)) + WordAt(p, 3) + Sum(DataOf(p))) % Word
  IN IF SubSeq(p, 1, 2) = Header /\ checksum = WordAt(p, Len(p) - 1)
     THEN DataOf(p) ELSE NULL

(***************************************************************************)
(* The table.                                                              *)
(***************************************************************************)
RowOf(t) == [data |-> base64(t), checksum |-> Sum(t)]

\* Mutant: the sum is not compared.
db_get_fingerprint_unchecked(r) == unbase64(r.data)

\* NULL for a row whose text does not have the sum.
db_get_fingerprint(r) ==
  LET t == unbase64(r.data) IN IF Sum(t) = r.checksum THEN t ELSE NULL

(***************************************************************************)
(* enroll() and the reload loop, for one template number.                  *)
(***************************************************************************)
TemplateInit ==
  /\ enrolled \in Templates
  /\ held = NULL /\ row = NULL /\ fgp = NULL /\ line = <<>>
  /\ step = "enrolled" /\ scratched = FALSE

\* A packet goes over the line, where a byte of it may change.
Sends(p) ==
  \/ line' = p
  \/ \E i \in DOMAIN p, b \in Noise : line' = [p EXCEPT ![i] = b]

ScannerSends ==
  /\ step = "enrolled" /\ step' = "download"
  /\ Sends(DataPacket(enrolled))
  /\ UNCHANGED <<enrolled, held, row, fgp, scratched>>

\* A bad packet undoes the enrollment.
GetTemplate ==
  /\ step = "download"
  /\ fgp' = GetData(line)
  /\ step' = IF fgp' = NULL THEN "undone" ELSE "upload"
  /\ line' = <<>>
  /\ UNCHANGED <<enrolled, held, row, scratched>>

\* TEMPLATE_DATA_LEN bytes from the buffer on: behind its end is other memory.
Buffers ==
  {[i \in 1..TEMPLATE_DATA_LEN |-> IF i <= Len(fgp) THEN fgp[i] ELSE b] : b \in Noise}

\* SetTemplate
SendTemplate ==
  /\ step \in {"upload", "reload"}
  /\ \E data \in Buffers : Sends(DataPacket(data))
  /\ step' = IF step = "upload" THEN "sent" ELSE "resent"
  /\ UNCHANGED <<enrolled, held, row, fgp, scratched>>

\* The scanner takes a packet that is in order.  enroll() undoes what it has
\* done otherwise, the reload loop goes on.
ScannerTakes ==
  /\ step \in {"sent", "resent"}
  /\ LET data == GetData(line) IN
       /\ IF data = NULL THEN UNCHANGED held ELSE held' = data
       /\ step' = IF step = "resent" THEN "stored"
                  ELSE IF data = NULL THEN "undone" ELSE "insert"
  /\ line' = <<>>
  /\ UNCHANGED <<enrolled, row, fgp, scratched>>

InsertFingerprint ==
  /\ step = "insert" /\ step' = "stored"
  /\ row' = RowOf(fgp)
  /\ fgp' = NULL
  /\ UNCHANGED <<enrolled, held, line, scratched>>

Scratch ==
  /\ step = "stored" /\ ~scratched /\ scratched' = TRUE
  /\ \E i \in DOMAIN row.data, c \in Scratches : row' = [row EXCEPT !.data[i] = c]
  /\ UNCHANGED <<enrolled, held, fgp, line, step>>

\* DeleteAll, and the row is read; without a template its number is passed over.
ReloadRow ==
  /\ step = "stored"
  /\ held' = NULL
  /\ fgp' = db_get_fingerprint(row)
  /\ step' = IF fgp' = NULL THEN "stored" ELSE "reload"
  /\ UNCHANGED <<enrolled, row, line, scratched>>

\* Another try, with what the scanner has made of the finger this time.
EnrollAgain ==
  /\ step = "undone" /\ step' = "enrolled"
  /\ enrolled' \in Templates
  /\ held' = NULL /\ fgp' = NULL
  /\ UNCHANGED <<row, line, scratched>>

TemplateNext ==
  \/ ScannerSends \/ GetTemplate \/ SendTemplate \/ ScannerTakes
  \/ InsertFingerprint \/ Scratch \/ ReloadRow \/ EnrollAgain

TemplateSpec == TemplateInit /\ [][TemplateNext]_templateVars
-----------------------------------------------------------------------------
TemplateTypeOK ==
  /\ enrolled \in Templates
  /\ {held, fgp} \subseteq Seq(Bytes) \cup {NULL}
  /\ row # NULL => row.data \in Seq(Sextets \cup {Pad}) /\ row.checksum \in Nat
  /\ line \in Seq(Bytes)
  /\ step \in {"enrolled", "download", "upload", "sent", "insert", "stored",
               "reload", "resent", "undone"}
  /\ scratched \in BOOLEAN

\* Base64 as RFC 4648 has it: the 24 bits of three bytes are those of four
\* digits, with zeros for the bytes behind the end and '=' for the digits.
IsBase64(text, s) ==
  /\ Len(text) % 4 = 0 /\ 3 * Len(text) - 4 * Len(s) \in 0..8
  /\ \A j \in DOMAIN text : text[j] = Pad <=> 6 * (j - 1) >= 8 * Len(s)
  /\ \A g \in 0..(Len(text) \div 4 - 1) :
       LET V(i) == IF text[4 * g + i] = Pad THEN 0 ELSE text[4 * g + i]
           B(i) == IF 3 * g + i <= Len(s) THEN s[3 * g + i] ELSE 0
       IN 64 * (64 * (64 * V(1) + V(2)) + V(3)) + V(4) = 256 * (256 * B(1) + B(2)) + B(3)

\* What is in the database is what was enrolled, in base64, with its sum, though
\* a byte of every packet may change: none of those gets that far.
StoredIsEnrolled ==
  row # NULL /\ ~scratched =>
    IsBase64(row.data, enrolled) /\ row.checksum = Sum(enrolled)

\* With the types.
TemplateInv == TemplateTypeOK /\ StoredIsEnrolled

\* What the entry scanner holds, after a reload too, is what was enrolled, though
\* a character of the file may change.  What no sum tells apart from '=' is a
\* zero at the end of a template, which is then read behind the buffer's end.
HeldIsEnrolled ==
  held # NULL =>
    /\ Len(held) = Len(enrolled)
    /\ \A i \in DOMAIN held :
         \/ held[i] = enrolled[i]
         \/ scratched /\ i = Len(held) /\ enrolled[i] = 0
=============================================================================
