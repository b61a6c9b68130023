------------------------------ MODULE NandProofs ------------------------------
EXTENDS RecursionProofs

-----------------------------------------------------------------------------
(* The CAFE controller.  How many calls an operation has left says what its  *)
(* buffer and the saved half of its command hold; what is polled for comes   *)
(* exactly when the command is over; and once the program or the erase is,   *)
(* the cells are what the operation returns with, or it failed and says so.  *)

CallNames == {"SEQIN", "PAGEPROG", "ERASE1", "ERASE2", "READ0", "READOOB", "STATUS", "write_buf",
              "read_buf", "ecc"}

\* The calls of an operation, by how many are left
Full(kind) ==
  IF kind = "write_page" THEN 6 ELSE IF kind = "write_raw" THEN 5 ELSE IF kind = "write_oob" THEN 4
  ELSE IF kind = "read_oob" THEN 2 ELSE 3

CallAt(kind, n) ==
  IF kind = "read_page" THEN IF n = 3 THEN "READ0" ELSE "read_buf"
  ELSE IF kind = "read_oob" THEN IF n = 2 THEN "READOOB" ELSE "read_buf"
  ELSE IF n = 1 THEN "STATUS"
  ELSE IF n = 2 THEN IF kind = "erase" THEN "ERASE2" ELSE "PAGEPROG"
  ELSE IF n = Full(kind) THEN IF kind = "erase" THEN "ERASE1" ELSE "SEQIN"
  ELSE IF n = 3 /\ kind = "write_page" THEN "ecc" ELSE "write_buf"

Writes   == {"write_page", "write_raw", "write_oob"}
Pairs    == Writes \cup {"erase"}
Left     == Len(calls)
ColumnOf(kind) == IF kind \in {"write_oob", "read_oob"} THEN 1 ELSE 0
Polled(kind)   == 2 - ColumnOf(kind)

Cells == [1 .. 2 -> 0 .. MaxOps + 1]
Cell  == [cells : Cells, ecc : BOOLEAN]
Half  == [command : CallNames \cup {"none"}, page : Pages \cup {0}, column : 0 .. 1, len : 0 .. 2, chip : {0, 1},
          ecc : BOOLEAN]

CafeTypes ==
  /\ op \in [kind : Cafe!Kinds \cup {"none"}, page : Cafe!Where \cup {<<0, 0>>}]
  /\ step \in {"idle", "call", "start", "poll", "polled"} /\ calls \in Seq(CallNames)
  /\ saved \in Half /\ ctrl1 \in Half /\ ctrl1.column + ctrl1.len <= 2
  /\ phase # "idle" => ctrl1.page \in Pages
  /\ flash \in [Cafe!Where -> Cell] /\ written \in [Cafe!Where -> Cell]
  /\ got \in Seq(0 .. MaxOps + 1) /\ ops \in 0 .. MaxOps /\ slow \in Nat
  /\ Cafe!TypeOK

\* Cafe!Where an operation is
Place ==
  /\ step # "idle" =>
       /\ op.kind \in Cafe!Kinds /\ op.page \in Cafe!Where /\ chip = op.page[1]
       /\ Left <= Full(op.kind)
       /\ \A j \in 1 .. Left : calls[j] = CallAt(op.kind, Left - j + 1)
  /\ step \in {"start", "poll", "polled"} =>
       Left > 0 /\ CallAt(op.kind, Left) \in Cafe!Reads \cup {"PAGEPROG", "ERASE2"}

\* Between the halves of a command
Halfway == step # "idle" /\ op.kind \in Pairs /\ Left >= 2 /\ Left < Full(op.kind)

SavedHalf ==
  Halfway => saved.page = op.page[2] /\ saved.chip = op.page[1] /\ saved.column = ColumnOf(op.kind)

\* The position in the buffer, before each call and when a command starts
Advanced ==
  /\ step = "call" /\ Halfway =>
       datalen = IF op.kind = "erase" THEN 0 ELSE IF op.kind = "write_oob" THEN 3 - Left
                 ELSE IF op.kind = "write_raw" THEN 4 - Left
                 ELSE IF Left = 2 THEN 2 ELSE 5 - Left
  /\ step = "start" =>
       datalen = IF op.kind = "erase" /\ Left = 2 THEN 0
                 ELSE IF op.kind \in Pairs /\ Left = 1 THEN 1 ELSE Polled(op.kind)
  /\ step \in {"poll", "polled"} => datalen = 0
  /\ step = "call" /\ op.kind = "read_page" /\ Left < 3 => datalen = 2 - Left
  /\ step = "call" /\ op.kind = "read_oob" /\ Left < 2 => datalen = 1 - Left
  /\ step = "call" /\ op.kind \in Pairs /\ Left < 2 => datalen = 0

EccOnce ==
  /\ ctl2 <=> step = "call" /\ op.kind = "write_page" /\ Left = 2
  /\ step = "start" /\ Left = 2 /\ op.kind \in Pairs => (ctrl2 <=> op.kind = "write_page")

\* What the controller was told
Told ==
  step = "poll" =>
    /\ ctrl1.command = CallAt(op.kind, Left)
    /\ ctrl1.chip = op.page[1] /\ ctrl1.page = op.page[2]
    /\ Left = 2 \/ op.kind \notin Pairs =>
         /\ ctrl1.column = ColumnOf(op.kind)
         /\ op.kind # "erase" => ctrl1.len = Polled(op.kind)
         /\ op.kind \in Pairs => (ctrl1.ecc <=> op.kind = "write_page")

\* The bit that is polled for is set when the command is over
BitComes ==
  /\ step = "poll" =>
       /\ phase = "idle" => Cafe!Doneint(CallAt(op.kind, Left)) \in cafe_irq
       /\ phase = "transfer" => ctrl1.command \in Cafe!Reads
  /\ ~lost

\* and, as long as none was given up, not before.
Quiet ==
  slow = 0 =>
    /\ step # "poll" => phase = "idle"
    /\ step = "start" => {"done", "dma"} \cap cafe_irq = {}
    /\ step = "poll" /\ phase = "running" => {"done", "dma"} \cap cafe_irq = {}
    /\ step = "poll" /\ phase = "transfer" => "dma" \notin cafe_irq

\* The command that an operation polls for is over.
Over(left) == Left < left \/ (Left = left /\ (step = "polled" \/ (step = "poll" /\ phase = "idle")))

FlashIs ==
  slow = 0 => IF step # "idle" /\ op.kind \in Pairs /\ Over(2)
                THEN flash = Cafe!Wanted \/ (failed /\ flash = written) ELSE flash = written

BufferIs ==
  slow = 0 =>
    /\ Halfway /\ op.kind \in Writes /\ step \in {"call", "start"} =>
         \A i \in 1 .. datalen : dmabuf[i] = ops
    /\ Halfway /\ op.kind \in Writes /\ step = "poll" => \A i \in 1 .. ctrl1.len : dmabuf[i] = ops
    /\ step # "idle" /\ op.kind \in Pairs /\ Over(1) => dmabuf[1] = IF failed THEN Cafe!FAIL ELSE 0
    /\ step # "idle" /\ op.kind = "read_page" /\ Over(3) => dmabuf = flash[op.page].cells
    /\ step # "idle" /\ op.kind = "read_oob" /\ Over(2) => dmabuf[1] = flash[op.page].cells[2]

GotIs ==
  /\ step # "idle" =>
       /\ Len(got) = IF op.kind = "read_page" /\ Left < 3 THEN 2 - Left
                     ELSE IF op.kind = "read_oob" /\ Left < 2 THEN 1 - Left ELSE 0
       /\ slow = 0 => \A i \in 1 .. Len(got) : got[i] = dmabuf[i]
  /\ slow = 0 /\ step = "idle" =>
       /\ op.kind = "read_page" => got = flash[op.page].cells
       /\ op.kind = "read_oob" => got = <<flash[op.page].cells[2]>>
       /\ op.kind \in Pairs => (got = <<Cafe!FAIL>> <=> failed)

CafeConstants == MaxOps \in Nat

CafeInv ==
  /\ CafeTypes /\ Place /\ SavedHalf /\ Advanced /\ EccOnce /\ Told /\ BitComes /\ Quiet
  /\ FlashIs /\ BufferIs /\ GotIs

-----------------------------------------------------------------------------

\* A page of two cells, as a function.
LEMMA Pair == \A x, y : <<x, y>> = [c \in 1 .. 2 |-> IF c = 1 THEN x ELSE y]
OBVIOUS

\* What Calls() says.
LEMMA CallsAre ==
  \A kind \in Cafe!Kinds :
    /\ Cafe!Calls(kind) \in Seq(CallNames) /\ Len(Cafe!Calls(kind)) = Full(kind)
    /\ \A j \in 1 .. Full(kind) : Cafe!Calls(kind)[j] = CallAt(kind, Full(kind) - j + 1)
<1> SUFFICES ASSUME NEW kind \in Cafe!Kinds
             PROVE  /\ Cafe!Calls(kind) \in Seq(CallNames) /\ Len(Cafe!Calls(kind)) = Full(kind)
                    /\ \A j \in 1 .. Full(kind) : Cafe!Calls(kind)[j] = CallAt(kind, Full(kind) - j + 1)
  OBVIOUS
<1>1. CASE kind = "write_page"
  <2>1. Cafe!Calls(kind) = <<"SEQIN", "write_buf", "write_buf", "ecc", "PAGEPROG", "STATUS">> /\ Full(kind) = 6
    BY <1>1 DEF Cafe!Calls, Full
  <2>2. \A j \in 1 .. 6 : j \in {1, 2, 3, 4, 5, 6}
    OBVIOUS
  <2>3. Cafe!Calls(kind) \in Seq(CallNames) /\ Len(Cafe!Calls(kind)) = Full(kind)
    BY <2>1 DEF CallNames
  <2>4. \A j \in 1 .. 6 : Cafe!Calls(kind)[j] = CallAt(kind, 6 - j + 1)
    BY <1>1, <2>1, <2>2 DEF CallAt, Full
  <2> QED  BY <2>1, <2>3, <2>4
<1>2. CASE kind = "write_raw"
  <2>1. Cafe!Calls(kind) = <<"SEQIN", "write_buf", "write_buf", "PAGEPROG", "STATUS">> /\ Full(kind) = 5
    BY <1>2 DEF Cafe!Calls, Full
  <2>2. \A j \in 1 .. 5 : j \in {1, 2, 3, 4, 5}
    OBVIOUS
  <2>3. Cafe!Calls(kind) \in Seq(CallNames) /\ Len(Cafe!Calls(kind)) = Full(kind)
    BY <2>1 DEF CallNames
  <2>4. \A j \in 1 .. 5 : Cafe!Calls(kind)[j] = CallAt(kind, 5 - j + 1)
    BY <1>2, <2>1, <2>2 DEF CallAt, Full
  <2> QED  BY <2>1, <2>3, <2>4
<1>3. CASE kind = "write_oob"
  <2>1. Cafe!Calls(kind) = <<"SEQIN", "write_buf", "PAGEPROG", "STATUS">> /\ Full(kind) = 4
    BY <1>3 DEF Cafe!Calls, Full
  <2>2. \A j \in 1 .. 4 : j \in {1, 2, 3, 4}
    OBVIOUS
  <2>3. Cafe!Calls(kind) \in Seq(CallNames) /\ Len(Cafe!Calls(kind)) = Full(kind)
    BY <2>1 DEF CallNames
  <2>4. \A j \in 1 .. 4 : Cafe!Calls(kind)[j] = CallAt(kind, 4 - j + 1)
    BY <1>3, <2>1, <2>2 DEF CallAt, Full
  <2> QED  BY <2>1, <2>3, <2>4
<1>4. CASE kind = "read_page"
  <2>1. Cafe!Calls(kind) = <<"READ0", "read_buf", "read_buf">> /\ Full(kind) = 3
    BY <1>4 DEF Cafe!Calls, Full
  <2>2. \A j \in 1 .. 3 : j \in {1, 2, 3}
    OBVIOUS
  <2>3. Cafe!Calls(kind) \in Seq(CallNames) /\ Len(Cafe!Calls(kind)) = Full(kind)
    BY <2>1 DEF CallNames
  <2>4. \A j \in 1 .. 3 : Cafe!Calls(kind)[j] = CallAt(kind, 3 - j + 1)
    BY <1>4, <2>1, <2>2 DEF CallAt, Full
  <2> QED  BY <2>1, <2>3, <2>4
<1>5. CASE kind = "read_oob"
  <2>1. Cafe!Calls(kind) = <<"READOOB", "read_buf">> /\ Full(kind) = 2
    BY <1>5 DEF Cafe!Calls, Full
  <2>2. \A j \in 1 .. 2 : j \in {1, 2}
    OBVIOUS
  <2>3. Cafe!Calls(kind) \in Seq(CallNames) /\ Len(Cafe!Calls(kind)) = Full(kind)
    BY <2>1 DEF CallNames
  <2>4. \A j \in 1 .. 2 : Cafe!Calls(kind)[j] = CallAt(kind, 2 - j + 1)
    BY <1>5, <2>1, <2>2 DEF CallAt, Full
  <2> QED  BY <2>1, <2>3, <2>4
<1>6. CASE kind = "erase"
  <2>1. Cafe!Calls(kind) = <<"ERASE1", "ERASE2", "STATUS">> /\ Full(kind) = 3
    BY <1>6 DEF Cafe!Calls, Full
  <2>2. \A j \in 1 .. 3 : j \in {1, 2, 3}
    OBVIOUS
  <2>3. Cafe!Calls(kind) \in Seq(CallNames) /\ Len(Cafe!Calls(kind)) = Full(kind)
    BY <2>1 DEF CallNames
  <2>4. \A j \in 1 .. 3 : Cafe!Calls(kind)[j] = CallAt(kind, 3 - j + 1)
    BY <1>6, <2>1, <2>2 DEF CallAt, Full
  <2> QED  BY <2>1, <2>3, <2>4
<1> QED  BY <1>1, <1>2, <1>3, <1>4, <1>5, <1>6 DEF Cafe!Kinds

CallIs(kind, n) ==
  /\ CallAt(kind, n) = "write_buf" <=>
       \/ kind = "write_page" /\ n \in {4, 5}
       \/ kind = "write_raw" /\ n \in {3, 4}
       \/ kind = "write_oob" /\ n = 3
  /\ CallAt(kind, n) = "read_buf" <=> (kind = "read_page" /\ n \in {1, 2}) \/ (kind = "read_oob" /\ n = 1)
  /\ CallAt(kind, n) = "ecc" <=> kind = "write_page" /\ n = 3
  /\ CallAt(kind, n) = "SEQIN" <=> kind \in Writes /\ n = Full(kind)
  /\ CallAt(kind, n) = "ERASE1" <=> kind = "erase" /\ n = 3
  /\ CallAt(kind, n) = "PAGEPROG" <=> kind \in Writes /\ n = 2
  /\ CallAt(kind, n) = "ERASE2" <=> kind = "erase" /\ n = 2
  /\ CallAt(kind, n) = "STATUS" <=> kind \in Pairs /\ n = 1
  /\ CallAt(kind, n) = "READ0" <=> kind = "read_page" /\ n = 3
  /\ CallAt(kind, n) = "READOOB" <=> kind = "read_oob" /\ n = 2

\* Which call comes where.
LEMMA CallTable ==
  ASSUME NEW kind \in Cafe!Kinds, NEW n \in 1 .. Full(kind)
  PROVE  CallIs(kind, n)
<1> USE DEF CallIs, CallAt, Full, Writes, Pairs
<1>1. CASE kind = "write_page"
  <2>1. n \in {1, 2, 3, 4, 5, 6}  BY <1>1
  <2> QED  BY <1>1, <2>1
<1>2. CASE kind = "write_raw"
  <2>1. n \in {1, 2, 3, 4, 5}  BY <1>2
  <2> QED  BY <1>2, <2>1
<1>3. CASE kind = "write_oob"
  <2>1. n \in {1, 2, 3, 4}  BY <1>3
  <2> QED  BY <1>3, <2>1
<1>4. CASE kind = "read_page"
  <2>1. n \in {1, 2, 3}  BY <1>4
  <2> QED  BY <1>4, <2>1
<1>5. CASE kind = "read_oob"
  <2>1. n \in {1, 2}  BY <1>5
  <2> QED  BY <1>5, <2>1
<1>6. CASE kind = "erase"
  <2>1. n \in {1, 2, 3}  BY <1>6
  <2> QED  BY <1>6, <2>1
<1> QED  BY <1>1, <1>2, <1>3, <1>4, <1>5, <1>6 DEF Cafe!Kinds

\* The next call, and the calls after it
LEMMA Now ==
  ASSUME CafeTypes, Place, step # "idle", calls # <<>>
  PROVE  /\ op.kind \in Cafe!Kinds /\ Left \in 1 .. Full(op.kind)
         /\ Head(calls) = CallAt(op.kind, Left) /\ CallIs(op.kind, Left)
         /\ Tail(calls) \in Seq(CallNames) /\ Len(Tail(calls)) = Left - 1
         /\ \A j \in 1 .. Left - 1 : Tail(calls)[j] = CallAt(op.kind, (Left - 1) - j + 1)
<1>1. calls \in Seq(CallNames) /\ Left \in Nat \ {0} /\ op.kind \in Cafe!Kinds /\ Full(op.kind) \in Nat
  BY DEF CafeTypes, Place, Left, Full
<1>2. Left \in 1 .. Full(op.kind)
  BY <1>1 DEF Place
<1>3. Head(calls) = calls[1] /\ calls[1] = CallAt(op.kind, Left - 1 + 1)
  BY <1>1, <1>2 DEF Place, Left
<1>4. CallIs(op.kind, Left)
  BY <1>1, <1>2, CallTable
<1>5. Tail(calls) \in Seq(CallNames) /\ Len(Tail(calls)) = Left - 1
  BY <1>1 DEF Left
<1>6. ASSUME NEW j \in 1 .. Left - 1 PROVE Tail(calls)[j] = CallAt(op.kind, (Left - 1) - j + 1)
  <2>1. Tail(calls)[j] = calls[j + 1]
    BY <1>1, <1>5 DEF Left
  <2>2. calls[j + 1] = CallAt(op.kind, Left - (j + 1) + 1)
    BY <1>1 DEF Place
  <2>3. Left - (j + 1) + 1 = (Left - 1) - j + 1
    BY <1>1
  <2> QED  BY <2>1, <2>2, <2>3
<1> QED  BY <1>1, <1>2, <1>3, <1>4, <1>5, <1>6


\* A call is over: the next one is to come.
LEMMA Returned ==
  ASSUME CafeTypes, Place, step # "idle", calls # <<>>, calls' = Tail(calls), step' = "call",
         UNCHANGED <<op, chip>>
  PROVE  Place' /\ Left' = Left - 1 /\ calls' \in Seq(CallNames) /\ Left' \in Nat
<1>1. Left' = Left - 1 /\ calls' \in Seq(CallNames) /\ Left \in 1 .. Full(op.kind)
  BY Now DEF Left
<1>2. \A j \in 1 .. Left' : calls'[j] = CallAt(op.kind, Left' - j + 1)
  BY Now, <1>1
<1>3. Full(op.kind) \in Nat
  BY DEF Full
<1>4. Left' \in Nat /\ Left' <= Full(op.kind)
  BY <1>1, <1>3
<1>5. op.kind \in Cafe!Kinds /\ op.page \in Cafe!Where /\ chip = op.page[1]
  BY DEF Place
<1>6. Place'
  BY <1>2, <1>4, <1>5 DEF Place
<1> QED  BY <1>1, <1>4, <1>6

\* The same, with what the call is.
LEMMA Calling ==
  ASSUME CafeTypes, Place, step = "call", calls # <<>>, Cafe!Return("call"), UNCHANGED <<op, chip>>
  PROVE  /\ Place' /\ Left' = Left - 1 /\ calls' \in Seq(CallNames) /\ step' = "call" /\ Left' \in Nat
         /\ op.kind \in Cafe!Kinds /\ op.page \in Cafe!Where /\ Left \in 1 .. Full(op.kind)
         /\ Head(calls) = CallAt(op.kind, Left) /\ CallIs(op.kind, Left)
<1>1. step' = "call" /\ calls' = Tail(calls) /\ step # "idle"
  BY DEF Cafe!Return
<1>2. op.kind \in Cafe!Kinds /\ op.page \in Cafe!Where
  BY <1>1 DEF Place
<1> QED  BY <1>1, <1>2, Now, Returned

\* cafe_write_buf(): the next cell of the buffer is what the layer writes.
LEMMA CafeWriteBuf == ASSUME CafeConstants, CafeInv, Cafe!WriteBuf PROVE CafeInv'
<1>1. /\ UNCHANGED <<op, chip, ops, saved, ctl2, ctrl2, written, slow, lost, cafe_irq, ctrl1, phase,
                     failed, flash, probe, held, got>>
      /\ step = "call" /\ calls # <<>> /\ Head(calls) = "write_buf" /\ Cafe!Return("call")
      /\ dmabuf' = [dmabuf EXCEPT ![datalen + 1] = ops] /\ datalen' = datalen + 1
  BY DEF Cafe!WriteBuf, Cafe!layerVars, Cafe!cmdVars, Cafe!ghostVars, Cafe!devVars, Cafe!probeVars
<1>2. /\ Place' /\ Left' = Left - 1 /\ calls' \in Seq(CallNames) /\ step' = "call" /\ Left' \in Nat
      /\ op.kind \in Cafe!Kinds /\ Left \in 1 .. Full(op.kind) /\ CallIs(op.kind, Left)
      /\ CallAt(op.kind, Left) = "write_buf"
  BY <1>1, Calling DEF CafeInv
<1>3. \/ op.kind = "write_page" /\ Left = 5 /\ datalen = 0
      \/ op.kind = "write_page" /\ Left = 4 /\ datalen = 1
      \/ op.kind = "write_raw" /\ Left = 4 /\ datalen = 0
      \/ op.kind = "write_raw" /\ Left = 3 /\ datalen = 1
      \/ op.kind = "write_oob" /\ Left = 3 /\ datalen = 0
  <2>1. \/ op.kind = "write_page" /\ Left \in {4, 5}
        \/ op.kind = "write_raw" /\ Left \in {3, 4}
        \/ op.kind = "write_oob" /\ Left = 3
    BY <1>2 DEF CallIs
  <2> QED  BY <1>1, <2>1 DEF CafeInv, Advanced, Halfway, Pairs, Writes, Full
<1>4. op.kind \in Writes /\ op.kind \in Pairs /\ Left - 1 >= 2 /\ Left < Full(op.kind) /\ Halfway
  BY <1>1, <1>3 DEF Writes, Pairs, Full, Halfway
<1>5. ops \in 0 .. MaxOps /\ dmabuf \in Cells /\ dmabuf' \in Cells /\ datalen' \in 1 .. 2
  <2>1. ops \in 0 .. MaxOps /\ ops \in 0 .. MaxOps + 1 /\ dmabuf \in Cells
    BY DEF CafeInv, CafeTypes, Cafe!TypeOK, Cells, CafeConstants
  <2> QED  BY <1>1, <1>3, <2>1 DEF Cells
<1>6. slow = 0 => \A i \in 1 .. datalen' : dmabuf'[i] = ops
  BY <1>1, <1>3, <1>4, <1>5 DEF CafeInv, BufferIs, Cells
<1>11. CafeTypes'
  BY <1>1, <1>2, <1>5 DEF CafeInv, CafeTypes, Cafe!TypeOK, Cells
<1>12. SavedHalf'
  BY <1>1, <1>2, <1>4 DEF CafeInv, SavedHalf, Halfway
<1>13. Advanced'
  BY <1>1, <1>2, <1>3 DEF Advanced
<1>14. EccOnce'
  BY <1>1, <1>2, <1>3 DEF CafeInv, EccOnce
<1>15. Told' /\ BitComes' /\ Quiet'
  BY <1>1, <1>2 DEF CafeInv, Told, BitComes, Quiet
<1>16. FlashIs'
  BY <1>1, <1>2, <1>4 DEF CafeInv, FlashIs, Over
<1>17. BufferIs'
  <2>1. ~Over(1)'
    BY <1>2, <1>4 DEF Over
  <2> QED  BY <1>1, <1>2, <1>4, <1>6, <2>1 DEF BufferIs, Writes
<1>18. GotIs'
  BY <1>1, <1>2, <1>4 DEF CafeInv, GotIs, Writes
<1> QED  BY <1>2, <1>11, <1>12, <1>13, <1>14, <1>15, <1>16, <1>17, <1>18 DEF CafeInv

\* cafe_read_buf(): what is read is the buffer, which is the page.
LEMMA CafeReadBuf == ASSUME CafeConstants, CafeInv, Cafe!ReadBuf PROVE CafeInv'
<1>1. /\ UNCHANGED <<op, chip, ops, saved, ctl2, ctrl2, written, slow, lost, cafe_irq, ctrl1, phase,
                     failed, flash, probe, held, dmabuf>>
      /\ step = "call" /\ calls # <<>> /\ Head(calls) = "read_buf" /\ Cafe!Return("call")
      /\ got' = Append(got, dmabuf[datalen + 1]) /\ datalen' = datalen + 1
  BY DEF Cafe!ReadBuf, Cafe!layerVars, Cafe!cmdVars, Cafe!ghostVars, Cafe!devVars, Cafe!probeVars
<1>2. /\ Place' /\ Left' = Left - 1 /\ calls' \in Seq(CallNames) /\ step' = "call" /\ Left' \in Nat
      /\ op.kind \in Cafe!Kinds /\ Left \in 1 .. Full(op.kind) /\ CallIs(op.kind, Left)
      /\ CallAt(op.kind, Left) = "read_buf"
  BY <1>1, Calling DEF CafeInv
<1>3. \/ op.kind = "read_page" /\ Left = 2 /\ datalen = 0 /\ Len(got) = 0
      \/ op.kind = "read_page" /\ Left = 1 /\ datalen = 1 /\ Len(got) = 1
      \/ op.kind = "read_oob" /\ Left = 1 /\ datalen = 0 /\ Len(got) = 0
  <2>1. (op.kind = "read_page" /\ Left \in {1, 2}) \/ (op.kind = "read_oob" /\ Left = 1)
    BY <1>2 DEF CallIs
  <2>2. datalen = IF op.kind = "read_page" THEN 2 - Left ELSE 1 - Left
    BY <1>1, <2>1 DEF CafeInv, Advanced
  <2>3. Len(got) = IF op.kind = "read_page" THEN 2 - Left ELSE 1 - Left
    BY <1>1, <2>1 DEF CafeInv, GotIs
  <2> QED  BY <2>1, <2>2, <2>3
<1>4. op.kind \notin Pairs /\ ~Halfway' /\ op.kind # "write_page"
  BY <1>1, <1>3 DEF Pairs, Writes, Halfway
<1>5. /\ dmabuf \in Cells /\ datalen + 1 \in 1 .. 2 /\ dmabuf[datalen + 1] \in 0 .. MaxOps + 1
      /\ got \in Seq(0 .. MaxOps + 1)
  BY <1>3 DEF CafeInv, CafeTypes, Cafe!TypeOK, Cells
<1>6. /\ got' \in Seq(0 .. MaxOps + 1) /\ Len(got') = Len(got) + 1
      /\ got'[Len(got) + 1] = dmabuf[datalen + 1] /\ \A i \in 1 .. Len(got) : got'[i] = got[i]
  BY <1>1, <1>5
<1>11. CafeTypes'
  <2>1. datalen' \in 0 .. 2 /\ Len(got') <= 2 /\ got' \in Seq(0 .. MaxOps + 1)
    BY <1>1, <1>3, <1>6
  <2> QED  BY <1>1, <1>2, <2>1 DEF CafeInv, CafeTypes, Cafe!TypeOK
<1>12. SavedHalf'
  BY <1>4 DEF SavedHalf
<1>13. Advanced'
  BY <1>1, <1>2, <1>3, <1>4 DEF Advanced
<1>14. EccOnce'
  BY <1>1, <1>2, <1>4 DEF CafeInv, EccOnce
<1>15. Told' /\ BitComes' /\ Quiet'
  BY <1>1, <1>2 DEF CafeInv, Told, BitComes, Quiet
<1>16. FlashIs'
  BY <1>1, <1>2, <1>4 DEF CafeInv, FlashIs
<1>17. BufferIs'
  BY <1>1, <1>2, <1>3, <1>4 DEF CafeInv, BufferIs, Over, Writes
<1>18. GotIs'
  <2>1. slow = 0 => \A i \in 1 .. Len(got) : got[i] = dmabuf[i]
    BY <1>1 DEF CafeInv, GotIs
  <2>2. datalen = Len(got) /\ Len(got) \in Nat
    <3>1. (datalen = 0 /\ Len(got) = 0) \/ (datalen = 1 /\ Len(got) = 1)
      BY <1>3, Zenon
    <3>2. datalen = Len(got)
      BY <3>1, Zenon
    <3> QED  BY <1>5, <3>2
  <2>3. slow = 0 => \A i \in 1 .. Len(got') : got'[i] = dmabuf[i]
    <3> SUFFICES ASSUME slow = 0, NEW i \in 1 .. Len(got') PROVE got'[i] = dmabuf[i]
      OBVIOUS
    <3>1. CASE i = Len(got) + 1
      BY <1>6, <2>2, <3>1
    <3>2. CASE i \in 1 .. Len(got)
      BY <1>6, <2>1, <3>2
    <3> QED  BY <1>6, <2>2, <3>1, <3>2
  <2>4. Len(got') = IF op.kind = "read_page" /\ Left' < 3 THEN 2 - Left'
                     ELSE IF op.kind = "read_oob" /\ Left' < 2 THEN 1 - Left' ELSE 0
    <3> DEFINE l == Left'
    <3> DEFINE n == Len(got')
    <3> DEFINE k == Left
    <3> DEFINE g == Len(got)
    <3>1. /\ l = k - 1 /\ n = g + 1
          /\ \/ op.kind = "read_page" /\ k = 2 /\ g = 0
             \/ op.kind = "read_page" /\ k = 1 /\ g = 1
             \/ op.kind = "read_oob" /\ k = 1 /\ g = 0
      BY <1>2, <1>3, <1>6, Zenon
    <3> HIDE DEF l, n, k, g
    <3>2. \/ op.kind = "read_page" /\ l = 1 /\ n = 1
          \/ op.kind = "read_page" /\ l = 0 /\ n = 2
          \/ op.kind = "read_oob" /\ l = 0 /\ n = 1
      BY <3>1
    <3>3. n = IF op.kind = "read_page" /\ l < 3 THEN 2 - l
               ELSE IF op.kind = "read_oob" /\ l < 2 THEN 1 - l ELSE 0
      BY <3>2
    <3> QED  BY <3>3 DEF l, n
  <2> QED  BY <1>1, <1>2, <2>3, <2>4 DEF GotIs
<1> QED  BY <1>2, <1>11, <1>12, <1>13, <1>14, <1>15, <1>16, <1>17, <1>18 DEF CafeInv

\* Bit 30 is set last before PAGEPROG.
LEMMA CafeSetEcc == ASSUME CafeConstants, CafeInv, Cafe!SetEcc PROVE CafeInv'
<1>1. /\ UNCHANGED <<op, chip, ops, saved, ctrl2, written, slow, lost, cafe_irq, ctrl1, phase,
                     failed, flash, probe, held, dmabuf, datalen, got>>
      /\ step = "call" /\ calls # <<>> /\ Head(calls) = "ecc" /\ Cafe!Return("call")
      /\ ctl2' = TRUE
  BY DEF Cafe!SetEcc, Cafe!layerVars, Cafe!bufVars, Cafe!ghostVars, Cafe!devVars, Cafe!probeVars
<1>2. /\ Place' /\ Left' = Left - 1 /\ calls' \in Seq(CallNames) /\ step' = "call" /\ Left' \in Nat
      /\ op.kind \in Cafe!Kinds /\ Left \in 1 .. Full(op.kind) /\ CallIs(op.kind, Left)
      /\ CallAt(op.kind, Left) = "ecc"
  BY <1>1, Calling DEF CafeInv
<1>3. op.kind = "write_page" /\ Left = 3 /\ Left' = 2
  BY <1>2 DEF CallIs
<1>4. Halfway /\ datalen = 2 /\ op.kind \in Pairs /\ op.kind \in Writes
  BY <1>1, <1>3 DEF CafeInv, Advanced, Halfway, Pairs, Writes, Full
<1>11. CafeTypes'
  BY <1>1, <1>2 DEF CafeInv, CafeTypes, Cafe!TypeOK, Cells
<1>12. SavedHalf'
  BY <1>1, <1>2, <1>4 DEF CafeInv, SavedHalf, Halfway
<1>13. Advanced'
  BY <1>1, <1>2, <1>3, <1>4 DEF Advanced
<1>14. EccOnce'
  BY <1>1, <1>2, <1>3 DEF EccOnce
<1>15. Told' /\ BitComes' /\ Quiet'
  BY <1>1, <1>2 DEF CafeInv, Told, BitComes, Quiet
<1>16. FlashIs'
  BY <1>1, <1>2, <1>3 DEF CafeInv, FlashIs, Over
<1>17. BufferIs'
  <2>1. ~Over(1)'
    BY <1>3 DEF Over
  <2> QED  BY <1>1, <1>2, <1>3, <1>4, <2>1 DEF CafeInv, BufferIs
<1>18. GotIs'
  BY <1>1, <1>2, <1>3 DEF CafeInv, GotIs
<1> QED  BY <1>2, <1>11, <1>12, <1>13, <1>14, <1>15, <1>16, <1>17, <1>18 DEF CafeInv

\* SEQIN and ERASE1: what the second half will take is kept.
LEMMA CafeFirstHalf == ASSUME CafeConstants, CafeInv, Cafe!FirstHalf PROVE CafeInv'
<1>1. /\ UNCHANGED <<op, chip, ops, ctl2, written, slow, lost, cafe_irq, ctrl1, phase,
                     failed, flash, probe, held, dmabuf, got>>
      /\ step = "call" /\ calls # <<>> /\ Head(calls) \in {"SEQIN", "ERASE1"} /\ Cafe!Return("call")
      /\ saved' = [Cafe!NoCmd EXCEPT !.command = Head(calls), !.page = op.page[2], !.chip = chip,
                                     !.column = Cafe!Columned(Head(calls))]
      /\ ctrl2' = FALSE /\ datalen' = 0
  BY DEF Cafe!FirstHalf, Cafe!layerVars, Cafe!ghostVars, Cafe!devVars, Cafe!probeVars
<1>2. /\ Place' /\ Left' = Left - 1 /\ calls' \in Seq(CallNames) /\ step' = "call" /\ Left' \in Nat
      /\ op.kind \in Cafe!Kinds /\ Left \in 1 .. Full(op.kind) /\ CallIs(op.kind, Left)
      /\ Head(calls) = CallAt(op.kind, Left) /\ op.page \in Cafe!Where /\ chip = op.page[1]
  BY <1>1, Calling DEF CafeInv, Place
<1>3. op.kind \in Pairs /\ Left = Full(op.kind)
  BY <1>1, <1>2 DEF CallIs, Pairs, Full
<1>4. Cafe!Columned(Head(calls)) = ColumnOf(op.kind) /\ ColumnOf(op.kind) \in 0 .. 1
  BY <1>1, <1>2, <1>3 DEF Cafe!Columned, ColumnOf, CallIs, Pairs, Writes
<1>5. /\ saved'.page = op.page[2] /\ saved'.chip = op.page[1] /\ saved'.column = ColumnOf(op.kind)
      /\ saved' \in Half
  <2>1. op.page[1] \in {0, 1} /\ op.page[2] \in Pages /\ Head(calls) \in CallNames
    BY <1>1, <1>2 DEF Cafe!Where, CallNames
  <2>2. saved' = [command |-> Head(calls), page |-> op.page[2], column |-> ColumnOf(op.kind), len |-> 0,
                  chip |-> op.page[1], ecc |-> FALSE]
    BY <1>1, <1>2, <1>4 DEF Cafe!NoCmd
  <2> QED  BY <1>4, <2>1, <2>2 DEF Half
<1>11. CafeTypes'
  <2>0. ctrl2' \in BOOLEAN
    BY <1>1, Zenon
  <2>1. datalen' \in 0 .. 2
    BY <1>1
  <2>2. UNCHANGED <<op, chip, ops, ctl2, written, slow, lost, cafe_irq, ctrl1, phase, failed, flash, held,
                    dmabuf, got>>
    BY <1>1
  <2> QED  BY <1>2, <1>5, <2>0, <2>1, <2>2 DEF CafeInv, CafeTypes, Cafe!TypeOK
<1>12. SavedHalf'
  BY <1>1, <1>5 DEF SavedHalf
<1>13. Advanced'
  BY <1>1, <1>2, <1>3 DEF Advanced, Full, Pairs, Writes, Halfway
<1>14. EccOnce'
  BY <1>1, <1>2, <1>3 DEF CafeInv, EccOnce, Full
<1>15. Told' /\ BitComes' /\ Quiet'
  BY <1>1, <1>2 DEF CafeInv, Told, BitComes, Quiet
<1>16. FlashIs'
  BY <1>1, <1>2, <1>3 DEF CafeInv, FlashIs, Over, Full, Pairs, Writes
<1>17. BufferIs'
  <2>1. ~Over(1)'
    BY <1>2, <1>3 DEF Over, Full, Pairs, Writes
  <2> QED  BY <1>1, <1>2, <1>3, <2>1 DEF BufferIs, Pairs, Writes
<1>18. GotIs'
  BY <1>1, <1>2, <1>3 DEF CafeInv, GotIs, Pairs, Writes
<1> QED  BY <1>2, <1>11, <1>12, <1>13, <1>14, <1>15, <1>16, <1>17, <1>18 DEF CafeInv

\* A command starts: the bits that will be polled for are clear.
LEMMA CafeArm == ASSUME CafeConstants, CafeInv, Cafe!Arm PROVE CafeInv'
<1> DEFINE second == Head(calls) \in {"PAGEPROG", "ERASE2"}
<1>1. /\ UNCHANGED <<op, chip, ops, calls, saved, written, slow, lost, ctrl1, phase, failed, flash, probe, held,
                     dmabuf, got>>
      /\ step = "call" /\ calls # <<>> /\ Head(calls) \in Cafe!Reads \cup {"PAGEPROG", "ERASE2"}
      /\ ctl2' = (IF second THEN FALSE ELSE ctl2)
      /\ ctrl2' = IF second THEN ctl2 ELSE IF Head(calls) \in {"READ0", "READOOB"} THEN ctl2 ELSE FALSE
      /\ datalen' = IF second THEN datalen ELSE IF Head(calls) = "STATUS" THEN 1
                    ELSE 2 - Cafe!Columned(Head(calls))
      /\ cafe_irq' = cafe_irq \ {"done", "dma"} /\ step' = "start"
  BY DEF Cafe!Arm, Cafe!EccAfter, Cafe!layerVars, Cafe!ghostVars, Cafe!probeVars
<1>2. /\ op.kind \in Cafe!Kinds /\ Left \in 1 .. Full(op.kind) /\ CallIs(op.kind, Left)
      /\ Head(calls) = CallAt(op.kind, Left) /\ Left' = Left
  BY <1>1, Now DEF CafeInv, Left
<1>3. Place'
  BY <1>1, <1>2 DEF CafeInv, Place
<1>4. /\ second <=> Left = 2 /\ op.kind \in Pairs
      /\ Head(calls) = "STATUS" <=> Left = 1 /\ op.kind \in Pairs
      /\ ~second /\ Head(calls) # "STATUS" =>
           (op.kind = "read_page" /\ Left = 3) \/ (op.kind = "read_oob" /\ Left = 2)
      /\ second => Halfway
  BY <1>1, <1>2 DEF CallIs, Pairs, Writes, Cafe!Reads, Full, Halfway
<1>5. /\ ctl2 \in BOOLEAN /\ (ctl2 <=> op.kind = "write_page" /\ Left = 2)
      /\ op.kind = "write_page" /\ Left = 2 => second
  BY <1>1, <1>4 DEF CafeInv, EccOnce, CafeTypes, Cafe!TypeOK, Pairs, Writes
<1>6. ~ctl2' /\ ctl2' \in BOOLEAN /\ ctrl2' \in BOOLEAN /\ (second => (ctrl2' <=> op.kind = "write_page"))
  <2>1. CASE second
    BY <1>1, <1>4, <1>5, <2>1, Zenon
  <2>2. CASE ~second
    BY <1>1, <1>5, <2>2, Zenon
  <2> QED  BY <2>1, <2>2
<1>7. datalen' = IF op.kind = "erase" /\ Left = 2 THEN 0
                 ELSE IF op.kind \in Pairs /\ Left = 1 THEN 1 ELSE Polled(op.kind)
  <2>1. CASE second
    <3>1. datalen' = datalen /\ Left = 2 /\ op.kind \in Pairs
      BY <1>1, <1>4, <2>1
    <3>2. datalen = IF op.kind = "erase" THEN 0 ELSE IF op.kind = "write_oob" THEN 1 ELSE 2
      BY <1>1, <1>4, <2>1 DEF CafeInv, Advanced
    <3> QED  BY <3>1, <3>2 DEF Polled, ColumnOf, Pairs, Writes
  <2>2. CASE Head(calls) = "STATUS"
    BY <1>1, <1>4, <2>2 DEF Pairs, Writes
  <2>3. CASE ~second /\ Head(calls) # "STATUS"
    <3>1. (op.kind = "read_page" /\ Left = 3) \/ (op.kind = "read_oob" /\ Left = 2)
      BY <1>4, <2>3
    <3>2. Cafe!Columned(Head(calls)) = ColumnOf(op.kind)
      BY <1>2, <3>1 DEF Cafe!Columned, ColumnOf, CallIs
    <3>3. datalen' = 2 - Cafe!Columned(Head(calls))
      BY <1>1, <2>3
    <3> QED  BY <3>1, <3>2, <3>3 DEF Polled, Pairs, Writes
  <2> QED  BY <2>1, <2>2, <2>3
<1>8. UNCHANGED <<op, chip, ops, calls, saved, written, slow, lost, ctrl1, phase, failed, flash, probe, held,
                  dmabuf, got>> /\ step = "call" /\ step' = "start" /\ cafe_irq' = cafe_irq \ {"done", "dma"}
  BY <1>1
<1>11. CafeTypes'
  <2>1. datalen' \in 0 .. 2
    BY <1>7 DEF Polled, ColumnOf
  <2> QED  BY <1>6, <1>8, <2>1 DEF CafeInv, CafeTypes, Cafe!TypeOK
<1>12. SavedHalf'
  BY <1>2, <1>8 DEF CafeInv, SavedHalf, Halfway
<1>13. Advanced'
  BY <1>2, <1>7, <1>8 DEF Advanced
<1>14. EccOnce'
  BY <1>2, <1>4, <1>6, <1>8 DEF EccOnce
<1>15. Told' /\ BitComes' /\ Quiet'
  BY <1>2, <1>8 DEF CafeInv, Told, BitComes, Quiet
<1>16. FlashIs'
  BY <1>2, <1>8 DEF CafeInv, FlashIs, Over, Cafe!Wanted
<1>17. BufferIs'
  <2>1. Halfway' /\ op'.kind \in Writes /\ step' \in {"call", "start"} => Halfway /\ op.kind \in Writes /\ Left = 2
    BY <1>1, <1>2, <1>3, <1>8 DEF Halfway, Place, CallIs, Cafe!Reads, Writes, Pairs
  <2>2. Left = 2 /\ op.kind \in Writes => datalen' = datalen
    BY <1>1, <1>4 DEF Pairs
  <2>3. op.kind = "read_page" \/ op.kind = "read_oob" => ~Over(3)' \/ op.kind = "read_oob"
    BY <1>1, <1>2, <1>8 DEF Over, CallIs, Cafe!Reads, Pairs, Writes
  <2>4. op.kind = "read_oob" => ~Over(2)'
    BY <1>1, <1>2, <1>8 DEF Over, CallIs, Cafe!Reads, Pairs, Writes
  <2>5. ~Over(1)'
    BY <1>2, <1>8 DEF Over
  <2> QED  BY <1>2, <1>8, <2>1, <2>2, <2>3, <2>4, <2>5 DEF CafeInv, BufferIs
<1>18. GotIs'
  BY <1>2, <1>8 DEF CafeInv, GotIs
<1> QED  BY <1>3, <1>11, <1>12, <1>13, <1>14, <1>15, <1>16, <1>17, <1>18 DEF CafeInv

\* NAND_CTRL1: the controller gets the command, with the saved half of a pair.
LEMMA CafeStart == ASSUME CafeConstants, CafeInv, Cafe!Start PROVE CafeInv'
<1> DEFINE command == Head(calls)
           second  == command \in {"PAGEPROG", "ERASE2"}
<1>1. /\ UNCHANGED <<op, chip, ops, calls, saved, ctl2, ctrl2, written, slow, lost, cafe_irq, failed, flash, probe,
                     held, dmabuf, got>>
      /\ step = "start" /\ step' = "poll" /\ phase' = "running" /\ datalen' = 0
      /\ ctrl1' = [command |-> command, len |-> datalen, ecc |-> ctrl2,
               page   |-> IF second THEN saved.page ELSE op.page[2],
               column |-> IF second THEN saved.column ELSE Cafe!Columned(command),
               chip   |-> IF second THEN saved.chip ELSE chip]
  BY DEF Cafe!Start, Cafe!layerVars, Cafe!cmdVars, Cafe!ghostVars, Cafe!probeVars
<1>2. calls # <<>> /\ Left > 0
  BY <1>1 DEF CafeInv, Place, Left
<1>3. /\ op.kind \in Cafe!Kinds /\ Left \in 1 .. Full(op.kind) /\ CallIs(op.kind, Left)
      /\ command = CallAt(op.kind, Left) /\ Left' = Left
  BY <1>1, <1>2, Now DEF CafeInv, Left
<1>4. Place'
  BY <1>1, <1>3 DEF CafeInv, Place
<1>5. /\ second <=> Left = 2 /\ op.kind \in Pairs
      /\ command = "STATUS" <=> Left = 1 /\ op.kind \in Pairs
      /\ ~second /\ command # "STATUS" =>
           (op.kind = "read_page" /\ Left = 3) \/ (op.kind = "read_oob" /\ Left = 2)
      /\ second => Halfway
  <2>1. command \in Cafe!Reads \cup {"PAGEPROG", "ERASE2"}
    BY <1>1, <1>3 DEF CafeInv, Place
  <2> QED  BY <1>1, <1>3, <2>1 DEF CallIs, Pairs, Writes, Cafe!Reads, Full, Halfway
<1>6. op.page \in Cafe!Where /\ chip = op.page[1] /\ op.page[1] \in {0, 1} /\ op.page[2] \in Pages
  BY <1>1 DEF CafeInv, Place, Cafe!Where
<1>7. /\ datalen = IF op.kind = "erase" /\ Left = 2 THEN 0
                   ELSE IF op.kind \in Pairs /\ Left = 1 THEN 1 ELSE Polled(op.kind)
      /\ Left = 2 /\ op.kind \in Pairs => (ctrl2 <=> op.kind = "write_page")
      /\ ctrl2 \in BOOLEAN
  BY <1>1 DEF CafeInv, Advanced, EccOnce, CafeTypes, Cafe!TypeOK
<1>8. /\ ctrl1'.command = command /\ ctrl1'.page = op.page[2] /\ ctrl1'.chip = op.page[1]
      /\ ctrl1'.len = datalen /\ (ctrl1'.ecc <=> ctrl2)
      /\ ctrl1'.column = IF op.kind \in Pairs /\ Left = 1 THEN 0 ELSE ColumnOf(op.kind)
      /\ ctrl1' \in Half /\ ctrl1'.column + ctrl1'.len <= 2
  <2>1. command \in CallNames \cup {"none"}
    BY <1>1, <1>3 DEF CafeInv, Place, CallNames, Cafe!Reads
  <2>2. second => saved.page = op.page[2] /\ saved.chip = op.page[1] /\ saved.column = ColumnOf(op.kind)
    BY <1>5 DEF CafeInv, SavedHalf
  <2>3. ~second => Cafe!Columned(command) = IF op.kind \in Pairs /\ Left = 1 THEN 0 ELSE ColumnOf(op.kind)
    BY <1>3, <1>5 DEF Cafe!Columned, ColumnOf, CallIs
  <2>4. ctrl1' = [command |-> command, len |-> datalen, ecc |-> ctrl2, page |-> op.page[2],
                  column |-> IF op.kind \in Pairs /\ Left = 1 THEN 0 ELSE ColumnOf(op.kind), chip |-> op.page[1]]
    BY <1>1, <1>5, <1>6, <2>2, <2>3
  <2>5. /\ ctrl1'.command = command /\ ctrl1'.page = op.page[2] /\ ctrl1'.chip = op.page[1]
        /\ ctrl1'.len = datalen /\ ctrl1'.ecc = ctrl2
        /\ ctrl1'.column = IF op.kind \in Pairs /\ Left = 1 THEN 0 ELSE ColumnOf(op.kind)
    BY <2>4
  <2>6. datalen \in 0 .. 2 /\ ctrl1'.column \in 0 .. 1 /\ ctrl1'.column + datalen <= 2
    BY <1>7, <2>5 DEF Polled, ColumnOf
  <2>7. ctrl1' \in Half
    BY <1>6, <1>7, <2>1, <2>4, <2>5, <2>6 DEF Half
  <2> QED  BY <2>5, <2>6, <2>7
<1>9. UNCHANGED <<op, chip, ops, calls, saved, ctl2, ctrl2, written, slow, lost, cafe_irq, failed, flash, probe,
                  held, dmabuf, got>> /\ step = "start" /\ step' = "poll" /\ phase' = "running" /\ datalen' = 0
  BY <1>1
<1>11. CafeTypes'
  BY <1>6, <1>8, <1>9 DEF CafeInv, CafeTypes, Cafe!TypeOK
<1>12. SavedHalf'
  BY <1>3, <1>9 DEF CafeInv, SavedHalf, Halfway
<1>13. Advanced'
  BY <1>3, <1>9 DEF Advanced
<1>14. EccOnce'
  BY <1>3, <1>9 DEF CafeInv, EccOnce
<1>15. Told'
  BY <1>3, <1>5, <1>7, <1>8, <1>9 DEF Told, Pairs, Writes
<1>16. BitComes' /\ Quiet'
  BY <1>9 DEF CafeInv, BitComes, Quiet
<1>17. FlashIs'
  BY <1>3, <1>9 DEF CafeInv, FlashIs, Over, Cafe!Wanted
<1>18. BufferIs'
  <2>1. Halfway' /\ op'.kind \in Writes => Halfway /\ op.kind \in Writes
    BY <1>3, <1>9 DEF Halfway
  <2>2. op.kind = "read_page" => ~Over(3)'
    BY <1>3, <1>5, <1>9 DEF Over, Pairs, Writes, CallIs
  <2>3. op.kind = "read_oob" => ~Over(2)'
    BY <1>3, <1>5, <1>9 DEF Over, Pairs, Writes, CallIs
  <2>4. ~Over(1)'
    BY <1>3, <1>9 DEF Over
  <2> QED  BY <1>3, <1>8, <1>9, <2>1, <2>2, <2>3, <2>4 DEF CafeInv, BufferIs
<1>19. GotIs'
  BY <1>3, <1>9 DEF CafeInv, GotIs
<1> QED  BY <1>4, <1>11, <1>12, <1>13, <1>14, <1>15, <1>16, <1>17, <1>18, <1>19 DEF CafeInv

\* The polling ends with its bit, or is given up.
LEMMA CafePoll == ASSUME CafeConstants, CafeInv, Cafe!Poll PROVE CafeInv'
<1> DEFINE bit == Cafe!Doneint(Head(calls))
<1>1. /\ UNCHANGED <<op, chip, ops, calls, saved, ctl2, ctrl2, written, ctrl1, phase, failed, flash, probe, held,
                     dmabuf, datalen, got>>
      /\ step = "poll" /\ step' = "polled" /\ cafe_irq' = cafe_irq \ {bit}
      /\ \/ bit \in cafe_irq /\ UNCHANGED <<slow, lost>>
         \/ bit \notin cafe_irq /\ phase = "idle"
         \/ phase # "idle" /\ slow' = slow + 1 /\ lost' = lost
  BY DEF Cafe!Poll, Cafe!layerVars, Cafe!cmdVars, Cafe!bufVars, Cafe!probeVars
<1>2. calls # <<>> /\ Left > 0
  BY <1>1 DEF CafeInv, Place, Left
<1>3. /\ op.kind \in Cafe!Kinds /\ Left \in 1 .. Full(op.kind) /\ CallIs(op.kind, Left)
      /\ Head(calls) = CallAt(op.kind, Left) /\ Left' = Left
  BY <1>1, <1>2, Now DEF CafeInv, Left
<1>4. bit \notin cafe_irq => phase # "idle"
  BY <1>1, <1>3 DEF CafeInv, BitComes
<1>5. \/ bit \in cafe_irq /\ UNCHANGED <<slow, lost>>
      \/ slow' = slow + 1 /\ lost' = lost
  BY <1>1, <1>4
<1>6. slow \in Nat /\ slow' \in Nat /\ ~lost'
  BY <1>5 DEF CafeInv, CafeTypes, BitComes
<1>7. slow' = 0 => slow = 0 /\ phase = "idle"
  <2> SUFFICES ASSUME slow' = 0 PROVE slow = 0 /\ phase = "idle"
    OBVIOUS
  <2>1. slow = 0 /\ bit \in cafe_irq
    BY <1>5, <1>6
  <2>2. bit \in {"done", "dma"}
    BY DEF Cafe!Doneint
  <2>3. phase # "running"
    BY <1>1, <2>1, <2>2 DEF CafeInv, Quiet
  <2>4. phase # "transfer"
    <3> SUFFICES ASSUME phase = "transfer" PROVE FALSE
      OBVIOUS
    <3>1. "dma" \notin cafe_irq /\ ctrl1.command \in Cafe!Reads /\ ctrl1.command = Head(calls)
      BY <1>1, <1>3, <2>1 DEF CafeInv, Quiet, BitComes, Told
    <3> QED  BY <2>1, <3>1 DEF Cafe!Doneint
  <2>5. phase \in {"idle", "running", "transfer"}
    BY DEF CafeInv, CafeTypes, Cafe!TypeOK
  <2> QED  BY <2>1, <2>3, <2>4, <2>5
<1>8. UNCHANGED <<op, chip, ops, calls, saved, ctl2, ctrl2, written, ctrl1, phase, failed, flash, probe, held,
                  dmabuf, datalen, got>> /\ step = "poll" /\ step' = "polled" /\ cafe_irq' \subseteq cafe_irq
  BY <1>1
<1>11. CafeTypes'
  BY <1>6, <1>8 DEF CafeInv, CafeTypes, Cafe!TypeOK
<1>12. Place'
  BY <1>3, <1>8 DEF CafeInv, Place
<1>13. SavedHalf'
  BY <1>3, <1>8 DEF CafeInv, SavedHalf, Halfway
<1>14. Advanced' /\ EccOnce'
  BY <1>3, <1>8 DEF CafeInv, Advanced, EccOnce
<1>15. Told' /\ BitComes' /\ Quiet'
  BY <1>6, <1>7, <1>8 DEF Told, BitComes, Quiet
<1>16. FlashIs'
  BY <1>3, <1>7, <1>8 DEF CafeInv, FlashIs, Over, Cafe!Wanted
<1>17. BufferIs'
  BY <1>3, <1>7, <1>8 DEF CafeInv, BufferIs, Over
<1>18. GotIs'
  BY <1>3, <1>7, <1>8 DEF CafeInv, GotIs
<1> QED  BY <1>11, <1>12, <1>13, <1>14, <1>15, <1>16, <1>17, <1>18 DEF CafeInv

\* The last of cafe_nand_cmdfunc(): bit 30 is clear again.
LEMMA CafeFinish == ASSUME CafeConstants, CafeInv, Cafe!Finish PROVE CafeInv'
<1>1. /\ UNCHANGED <<op, chip, ops, saved, ctl2, written, slow, lost, ctrl1, phase, failed, flash, probe, held,
                     dmabuf, datalen, got>>
      /\ step = "polled" /\ Cafe!Return("call") /\ ctrl2' = ctl2 /\ cafe_irq' \subseteq cafe_irq
  BY DEF Cafe!Finish, Cafe!layerVars, Cafe!bufVars, Cafe!ghostVars, Cafe!probeVars
<1>2. calls # <<>> /\ Left > 0 /\ step' = "call" /\ calls' = Tail(calls)
  BY <1>1 DEF CafeInv, Place, Left, Cafe!Return
<1>3. /\ op.kind \in Cafe!Kinds /\ Left \in 1 .. Full(op.kind) /\ CallIs(op.kind, Left)
  BY <1>1, <1>2, Now DEF CafeInv
<1>4. Place' /\ Left' = Left - 1 /\ calls' \in Seq(CallNames) /\ Left' \in Nat
  BY <1>1, <1>2, Returned DEF CafeInv
<1>5. \/ op.kind \in Pairs /\ Left \in {1, 2}
      \/ op.kind = "read_page" /\ Left = 3
      \/ op.kind = "read_oob" /\ Left = 2
  <2>1. CallAt(op.kind, Left) \in Cafe!Reads \cup {"PAGEPROG", "ERASE2"}
    BY <1>1 DEF CafeInv, Place
  <2> QED  BY <1>3, <2>1 DEF CallIs, Cafe!Reads, Pairs, Writes
<1>6. ~Halfway' /\ ~ctl2 /\ datalen = 0
  BY <1>1, <1>4, <1>5 DEF CafeInv, Halfway, EccOnce, Advanced, Pairs, Writes
<1>11. CafeTypes'
  BY <1>1, <1>2, <1>4 DEF CafeInv, CafeTypes, Cafe!TypeOK
<1>12. SavedHalf'
  BY <1>6 DEF SavedHalf
<1>13. Advanced'
  BY <1>1, <1>2, <1>4, <1>5, <1>6 DEF Advanced, Pairs, Writes
<1>14. EccOnce'
  BY <1>1, <1>2, <1>4, <1>5, <1>6 DEF EccOnce, Pairs, Writes
<1>15. Told' /\ BitComes' /\ Quiet'
  BY <1>1, <1>2 DEF CafeInv, Told, BitComes, Quiet
<1>16. FlashIs'
  <2>1. op.kind \in Pairs => (Over(2)' <=> Over(2))
    BY <1>1, <1>2, <1>4, <1>5 DEF Over, Pairs, Writes
  <2> QED  BY <1>1, <1>2, <2>1 DEF CafeInv, FlashIs, Cafe!Wanted
<1>17. BufferIs'
  <2>1. op.kind = "read_page" => Over(3)
    BY <1>1, <1>5 DEF Over, Pairs, Writes
  <2>2. op.kind = "read_oob" => Over(2)
    BY <1>1, <1>5 DEF Over, Pairs, Writes
  <2>3. op.kind \in Pairs => (Over(1)' <=> Over(1))
    BY <1>1, <1>2, <1>4, <1>5 DEF Over, Pairs, Writes
  <2> QED  BY <1>1, <1>2, <1>6, <2>1, <2>2, <2>3 DEF CafeInv, BufferIs
<1>18. GotIs'
  BY <1>1, <1>2, <1>4, <1>5 DEF CafeInv, GotIs, Pairs, Writes
<1> QED  BY <1>4, <1>11, <1>12, <1>13, <1>14, <1>15, <1>16, <1>17, <1>18 DEF CafeInv

\* The layer gets what the controller did.
LEMMA CafeOpReturns == ASSUME CafeConstants, CafeInv, Cafe!OpReturns PROVE CafeInv'
<1>1. /\ UNCHANGED <<op, chip, ops, calls, saved, ctl2, ctrl2, slow, lost, cafe_irq, ctrl1, phase, failed,
                     flash, probe, held, dmabuf>>
      /\ step = "call" /\ calls = <<>> /\ step' = "idle"
      /\ \/ op.kind \in {"read_page", "read_oob"} /\ UNCHANGED <<datalen, got, written>>
         \/ /\ op.kind \notin {"read_page", "read_oob"} /\ datalen' = datalen + 1
            /\ IF dmabuf[datalen + 1] = Cafe!FAIL
                 THEN got' = <<Cafe!FAIL>> /\ written' = [written EXCEPT ![op.page] = flash[op.page]]
                 ELSE got' = got /\ written' = Cafe!Wanted
  BY DEF Cafe!OpReturns, Cafe!layerVars, Cafe!cmdVars, Cafe!devVars, Cafe!probeVars
<1>2. Left = 0 /\ op.kind \in Cafe!Kinds /\ op.page \in Cafe!Where
  BY <1>1 DEF CafeInv, Place, Left
<1>3. /\ op.kind \in {"read_page", "read_oob"} <=> op.kind \notin Pairs
      /\ op.kind \notin Pairs => Cafe!Wanted = written
  BY <1>2 DEF Pairs, Writes, Cafe!Kinds, Cafe!Wanted
<1>4. /\ ops \in 0 .. MaxOps + 1 /\ flash \in [Cafe!Where -> Cell] /\ written \in [Cafe!Where -> Cell]
      /\ <<ops, ops>> \in Cells /\ Cafe!Blank \in Cell /\ Cafe!FAIL \in 0 .. MaxOps + 1 /\ Cafe!FAIL # 0
      /\ failed \in BOOLEAN
  <2>1. ops \in 0 .. MaxOps + 1 /\ 0 \in 0 .. MaxOps + 1
    BY DEF CafeInv, CafeTypes, CafeConstants
  <2>2. <<ops, ops>> \in Cells /\ <<0, 0>> \in Cells
    BY <2>1, Pair DEF Cells
  <2> QED  BY <2>1, <2>2 DEF CafeInv, CafeTypes, Cafe!TypeOK, Cafe!Blank, Cell, Cafe!FAIL, CafeConstants
<1>5. Cafe!Wanted \in [Cafe!Where -> Cell] /\ Cafe!Wanted = [written EXCEPT ![op.page] = Cafe!Wanted[op.page]]
  <2>1. [written EXCEPT ![op.page] = Cafe!Blank] \in [Cafe!Where -> Cell]
    BY <1>4
  <2>2. [written EXCEPT ![op.page] = [cells |-> <<ops, ops>>, ecc |-> TRUE]] \in [Cafe!Where -> Cell]
    BY <1>4 DEF Cell
  <2>3. [written EXCEPT ![op.page].cells = <<ops, ops>>] \in [Cafe!Where -> Cell]
    BY <1>2, <1>4 DEF Cell
  <2>4. [written EXCEPT ![op.page].cells[2] = ops] \in [Cafe!Where -> Cell]
    BY <1>2, <1>4 DEF Cell, Cells
  <2>5. Cafe!Wanted \in [Cafe!Where -> Cell]
    BY <1>4, <2>1, <2>2, <2>3, <2>4 DEF Cafe!Wanted
  <2>6. \A w \in Cafe!Where : w # op.page => Cafe!Wanted[w] = written[w]
    BY <1>2, <1>4 DEF Cafe!Wanted
  <2> DEFINE W == Cafe!Wanted
  <2>7. W \in [Cafe!Where -> Cell] /\ \A w \in Cafe!Where : w # op.page => W[w] = written[w]
    BY <2>5, <2>6
  <2> HIDE DEF W
  <2>8. W = [written EXCEPT ![op.page] = W[op.page]]
    BY <1>2, <1>4, <2>7
  <2> QED  BY <2>5, <2>8 DEF W
<1>6. op.kind \in Pairs => datalen = 0 /\ Len(got) = 0
  BY <1>1, <1>2 DEF CafeInv, Advanced, GotIs, Pairs, Writes
<1>7. slow = 0 /\ op.kind \in Pairs => (dmabuf[1] = Cafe!FAIL <=> failed)
  BY <1>1, <1>2, <1>4 DEF CafeInv, BufferIs, Over
<1>8. slow = 0 => IF op.kind \in Pairs THEN flash = Cafe!Wanted \/ (failed /\ flash = written) ELSE flash = written
  BY <1>1, <1>2 DEF CafeInv, FlashIs, Over
<1>9. /\ op.kind \notin Pairs => UNCHANGED <<datalen, got, written>>
      /\ op.kind \in Pairs =>
           /\ datalen' = 1
           /\ dmabuf[1] = Cafe!FAIL => got' = <<Cafe!FAIL>> /\ written' = [written EXCEPT ![op.page] = flash[op.page]]
           /\ dmabuf[1] # Cafe!FAIL => got' = got /\ written' = Cafe!Wanted
  BY <1>1, <1>3, <1>6
<1>10. UNCHANGED <<op, chip, ops, calls, saved, ctl2, ctrl2, slow, lost, cafe_irq, ctrl1, phase, failed,
                   flash, probe, held, dmabuf>> /\ step = "call" /\ calls = <<>> /\ step' = "idle"
  BY <1>1
<1>11. CafeTypes'
  <2>1. written' \in [Cafe!Where -> Cell]
    BY <1>2, <1>4, <1>5, <1>9
  <2>2. got' \in Seq(0 .. MaxOps + 1) /\ Len(got') <= 2
    <3>1. got \in Seq(0 .. MaxOps + 1) /\ Len(got) <= 2
      BY DEF CafeInv, CafeTypes, Cafe!TypeOK
    <3>2. <<Cafe!FAIL>> \in Seq(0 .. MaxOps + 1) /\ Len(<<Cafe!FAIL>>) = 1
      BY <1>4
    <3>3. got' = got \/ got' = <<Cafe!FAIL>>
      BY <1>9
    <3>4. CASE got' = got
      BY <3>1, <3>4
    <3>5. CASE got' = <<Cafe!FAIL>>
      BY <3>2, <3>5
    <3> QED  BY <3>3, <3>4, <3>5
  <2>3. datalen' \in 0 .. 2
    BY <1>9 DEF CafeInv, CafeTypes, Cafe!TypeOK
  <2> QED  BY <1>10, <2>1, <2>2, <2>3 DEF CafeInv, CafeTypes, Cafe!TypeOK
<1>12. Place' /\ SavedHalf' /\ Advanced' /\ Told' /\ BitComes'
  BY <1>10 DEF CafeInv, Place, SavedHalf, Halfway, Advanced, Told, BitComes
<1>13. EccOnce'
  BY <1>2, <1>10 DEF CafeInv, EccOnce
<1>14. Quiet'
  BY <1>10 DEF CafeInv, Quiet
<1>15. slow = 0 => flash = written'
  <2> SUFFICES ASSUME slow = 0 PROVE flash = written'
    OBVIOUS
  <2>1. CASE op.kind \notin Pairs
    BY <1>8, <1>9, <2>1
  <2>2. CASE op.kind \in Pairs /\ ~failed
    BY <1>7, <1>8, <1>9, <2>2
  <2>3. CASE op.kind \in Pairs /\ failed
    <3>1. written' = [written EXCEPT ![op.page] = flash[op.page]]
      BY <1>7, <1>9, <2>3
    <3>2. flash = Cafe!Wanted \/ flash = written
      BY <1>8, <2>3
    <3>3. CASE flash = written
      BY <1>4, <3>1, <3>3
    <3>4. CASE flash = Cafe!Wanted
      <4> DEFINE W == Cafe!Wanted
      <4>1. W = [written EXCEPT ![op.page] = W[op.page]] /\ flash = W
        BY <1>5, <3>4
      <4> HIDE DEF W
      <4> QED  BY <3>1, <4>1
    <3> QED  BY <3>2, <3>3, <3>4
  <2> QED  BY <1>4, <2>1, <2>2, <2>3
<1>16. FlashIs'
  BY <1>10, <1>15 DEF FlashIs
<1>17. BufferIs'
  BY <1>10 DEF BufferIs, Halfway
<1>18. GotIs'
  <2> SUFFICES ASSUME slow = 0
               PROVE  /\ op.kind = "read_page" => got' = flash[op.page].cells
                      /\ op.kind = "read_oob" => got' = <<flash[op.page].cells[2]>>
                      /\ op.kind \in Pairs => (got' = <<Cafe!FAIL>> <=> failed)
    BY <1>10 DEF GotIs
  <2>0. op.kind \in {"read_page", "read_oob"} => got' = got
    BY <1>3, <1>9
  <2>1. \A i \in 1 .. Len(got) : got[i] = dmabuf[i]
    BY <1>10 DEF CafeInv, GotIs
  <2>2. got \in Seq(0 .. MaxOps + 1) /\ flash[op.page].cells \in Cells /\ dmabuf \in Cells
    BY <1>2 DEF CafeInv, CafeTypes, Cell, Cells, Cafe!TypeOK
  <2>3. ASSUME op.kind = "read_page" PROVE got = flash[op.page].cells
    <3>1. Len(got) = 2 /\ dmabuf = flash[op.page].cells
      BY <1>10, <1>2, <2>3 DEF CafeInv, GotIs, BufferIs, Over
    <3>2. got[1] = dmabuf[1] /\ got[2] = dmabuf[2]
      BY <2>1, <3>1
    <3>3. got = <<dmabuf[1], dmabuf[2]>>
      BY <2>2, <3>1, <3>2
    <3>4. dmabuf = [c \in 1 .. 2 |-> IF c = 1 THEN dmabuf[1] ELSE dmabuf[2]]
      BY <2>2 DEF Cells
    <3> QED  BY <3>1, <3>3, <3>4, Pair
  <2>4. ASSUME op.kind = "read_oob" PROVE got = <<flash[op.page].cells[2]>>
    <3>1. Len(got) = 1 /\ dmabuf[1] = flash[op.page].cells[2]
      BY <1>10, <1>2, <2>4 DEF CafeInv, GotIs, BufferIs, Over
    <3>2. got[1] = flash[op.page].cells[2]
      BY <2>1, <3>1
    <3> QED  BY <2>2, <3>1, <3>2
  <2>5. ASSUME op.kind \in Pairs PROVE got' = <<Cafe!FAIL>> <=> failed
    <3>1. CASE failed
      BY <1>7, <1>9, <2>5, <3>1
    <3>2. CASE ~failed
      <4>1. got' = got /\ Len(got') = 0
        BY <1>6, <1>7, <1>9, <2>5, <3>2
      <4>2. Len(<<Cafe!FAIL>>) = 1
        OBVIOUS
      <4>3. got' # <<Cafe!FAIL>>
        BY <4>1, <4>2
      <4> QED  BY <3>2, <4>3
    <3> QED  BY <1>4, <3>1, <3>2
  <2> QED  BY <2>0, <2>3, <2>4, <2>5
<1> QED  BY <1>11, <1>12, <1>13, <1>14, <1>16, <1>17, <1>18 DEF CafeInv

\* The controller programs or erases the page of the operation.
LEMMA Programming ==
  ASSUME CafeConstants, CafeTypes, op.page \in Cafe!Where, ctrl1.chip = op.page[1], ctrl1.page = op.page[2],
         op.kind \in Writes, ctrl1.column = ColumnOf(op.kind), ctrl1.len = Polled(op.kind),
         ctrl1.ecc <=> op.kind = "write_page", flash = written,
         \A i \in 1 .. ctrl1.len : dmabuf[i] = ops
  PROVE  [flash EXCEPT ![Cafe!Target] = Cafe!Programmed] = Cafe!Wanted
<1>1. Cafe!Target = op.page
  BY DEF Cafe!Target, Cafe!Where
<1> DEFINE old == flash[op.page]
<1>2. old \in Cell /\ old.cells \in Cells /\ old = [cells |-> old.cells, ecc |-> old.ecc] /\ old.ecc \in BOOLEAN
  BY DEF CafeTypes, Cell
<1>3. CASE op.kind \in {"write_page", "write_raw"}
  <2>1. ctrl1.column = 0 /\ ctrl1.len = 2
    BY <1>3 DEF ColumnOf, Polled
  <2>2. dmabuf[1] = ops /\ dmabuf[2] = ops
    BY <2>1
  <2>3. \A c \in 1 .. 2 : c > ctrl1.column /\ c - ctrl1.column <= ctrl1.len /\ dmabuf[c - ctrl1.column] = ops
    BY <2>1, <2>2
  <2>4. <<ops, ops>> = [c \in 1 .. 2 |-> ops]
    BY Pair
  <2>5. Cafe!Programmed = [cells |-> <<ops, ops>>, ecc |-> old.ecc \/ ctrl1.ecc]
    BY <1>1, <2>3, <2>4 DEF Cafe!Programmed
  <2>6. CASE op.kind = "write_page"
    <3>1. (old.ecc \/ ctrl1.ecc) = TRUE
      BY <2>6
    <3>2. Cafe!Wanted = [written EXCEPT ![op.page] = [cells |-> <<ops, ops>>, ecc |-> TRUE]]
      BY <2>6 DEF Cafe!Wanted
    <3> QED  BY <1>1, <2>5, <3>1, <3>2
  <2>7. CASE op.kind = "write_raw"
    <3>1. (old.ecc \/ ctrl1.ecc) = old.ecc
      BY <1>2, <2>7, Zenon
    <3>2. Cafe!Wanted = [written EXCEPT ![op.page].cells = <<ops, ops>>]
      BY <2>7 DEF Cafe!Wanted
    <3>3. [old EXCEPT !.cells = <<ops, ops>>] = [cells |-> <<ops, ops>>, ecc |-> old.ecc]
      BY <1>2
    <3> QED  BY <1>1, <2>5, <3>1, <3>2, <3>3
  <2> QED  BY <1>3, <2>6, <2>7
<1>4. CASE op.kind = "write_oob"
  <2>1. ctrl1.column = 1 /\ ctrl1.len = 1
    BY <1>4 DEF ColumnOf, Polled
  <2>2. dmabuf[1] = ops
    BY <2>1
  <2>3. Cafe!Programmed = [cells |-> [c \in 1 .. 2 |-> IF c = 2 THEN ops ELSE old.cells[c]],
                           ecc |-> old.ecc \/ ctrl1.ecc]
    <3>1. \A c \in 1 .. 2 : (c > ctrl1.column /\ c - ctrl1.column <= ctrl1.len) <=> c = 2
      BY <2>1
    <3>2. \A c \in 1 .. 2 : c = 2 => dmabuf[c - ctrl1.column] = ops
      BY <2>1, <2>2
    <3> QED  BY <1>1, <3>1, <3>2 DEF Cafe!Programmed
  <2>4. (old.ecc \/ ctrl1.ecc) = old.ecc
    BY <1>2, <1>4, Zenon
  <2>5. [old.cells EXCEPT ![2] = ops] = [c \in 1 .. 2 |-> IF c = 2 THEN ops ELSE old.cells[c]]
    BY <1>2 DEF Cells
  <2>6. Cafe!Wanted = [written EXCEPT ![op.page].cells[2] = ops]
    BY <1>4 DEF Cafe!Wanted
  <2>7. [old EXCEPT !.cells[2] = ops] = [cells |-> [old.cells EXCEPT ![2] = ops], ecc |-> old.ecc]
    BY <1>2
  <2> QED  BY <1>1, <2>3, <2>4, <2>5, <2>6, <2>7
<1> QED  BY <1>3, <1>4 DEF Writes

\* Whatever it was told, it leaves cells.
LEMMA CellsStay ==
  ASSUME CafeConstants, CafeTypes, phase # "idle"
  PROVE  Cafe!Target \in Cafe!Where /\ Cafe!Programmed \in Cell /\ Cafe!Blank \in Cell
<1>1. Cafe!Target \in Cafe!Where /\ ctrl1.column \in 0 .. 1 /\ ctrl1.len \in 0 .. 2 /\ ctrl1.column + ctrl1.len <= 2
  BY DEF CafeTypes, Half, Cafe!Target, Cafe!Where
<1>2. flash[Cafe!Target].cells \in Cells /\ dmabuf \in Cells
  BY <1>1 DEF CafeTypes, Cell, Cells, Cafe!TypeOK
<1>3. \A c \in 1 .. 2 : c > ctrl1.column /\ c - ctrl1.column <= ctrl1.len => c - ctrl1.column \in 1 .. 2
  BY <1>1
<1> DEFINE cells == [c \in 1 .. 2 |-> IF c > ctrl1.column /\ c - ctrl1.column <= ctrl1.len
                                      THEN dmabuf[c - ctrl1.column] ELSE flash[Cafe!Target].cells[c]]
<1>4. cells \in Cells
  BY <1>2, <1>3 DEF Cells
<1>5. (flash[Cafe!Target].ecc \/ ctrl1.ecc) \in BOOLEAN
  BY Zenon
<1>6. Cafe!Programmed = [cells |-> cells, ecc |-> flash[Cafe!Target].ecc \/ ctrl1.ecc]
  BY DEF Cafe!Programmed
<1> HIDE DEF cells
<1>7. Cafe!Programmed \in Cell
  BY <1>4, <1>5, <1>6 DEF Cell
<1>8. Cafe!Blank \in Cell
  <2>1. <<0, 0>> \in Cells
    BY Pair DEF CafeConstants, Cells
  <2> QED  BY <2>1 DEF Cafe!Blank, Cell
<1> QED  BY <1>1, <1>7, <1>8

\* The controller has programmed, erased or read the page.
LEMMA CafeComplete == ASSUME CafeConstants, CafeInv, Cafe!Complete PROVE CafeInv'
<1>1. /\ UNCHANGED <<op, step, calls, chip, ops, saved, ctl2, ctrl2, datalen, dmabuf, ctrl1, got, written,
                     slow, lost, probe, held>>
      /\ phase = "running" /\ phase' = (IF ctrl1.command \in Cafe!Reads THEN "transfer" ELSE "idle")
      /\ cafe_irq' \in {cafe_irq \cup {"done"}, cafe_irq \cup {"done", "other"}}
      /\ ctrl1.command = "PAGEPROG" => Cafe!Change(Cafe!Programmed)
      /\ ctrl1.command = "ERASE2" => Cafe!Change(Cafe!Blank)
      /\ ctrl1.command \notin {"PAGEPROG", "ERASE2"} => UNCHANGED <<failed, flash>>
  BY DEF Cafe!Complete, Cafe!layerVars, Cafe!cmdVars, Cafe!bufVars, Cafe!ghostVars, Cafe!probeVars
<1>2. UNCHANGED <<op, step, calls, chip, ops, saved, ctl2, ctrl2, datalen, dmabuf, ctrl1, got, written,
                  slow, lost, probe, held>> /\ Left' = Left
  BY <1>1 DEF Left
<1>3. ASSUME step = "poll"
      PROVE  /\ op.kind \in Cafe!Kinds /\ op.page \in Cafe!Where /\ Left \in 1 .. Full(op.kind)
             /\ CallIs(op.kind, Left) /\ ctrl1.command = CallAt(op.kind, Left)
             /\ ctrl1.command = Head(calls)
             /\ \/ op.kind \in Pairs /\ Left = 1 /\ ctrl1.command = "STATUS"
                \/ op.kind \in Writes /\ Left = 2 /\ ctrl1.command = "PAGEPROG" /\ Halfway
                \/ op.kind = "erase" /\ Left = 2 /\ ctrl1.command = "ERASE2"
                \/ op.kind = "read_page" /\ Left = 3 /\ ctrl1.command = "READ0"
                \/ op.kind = "read_oob" /\ Left = 2 /\ ctrl1.command = "READOOB"
  <2>1. calls # <<>> /\ Left > 0 /\ CallAt(op.kind, Left) \in Cafe!Reads \cup {"PAGEPROG", "ERASE2"}
    BY <1>3 DEF CafeInv, Place, Left
  <2>2. /\ op.kind \in Cafe!Kinds /\ Left \in 1 .. Full(op.kind) /\ CallIs(op.kind, Left)
        /\ Head(calls) = CallAt(op.kind, Left) /\ op.page \in Cafe!Where
    BY <1>3, <2>1, Now DEF CafeInv, Place
  <2>3. ctrl1.command = CallAt(op.kind, Left)
    BY <1>3 DEF CafeInv, Told
  <2> QED  BY <1>3, <2>1, <2>2, <2>3 DEF CallIs, Cafe!Reads, Pairs, Writes, Halfway, Full
<1>4. slow = 0 => step = "poll" /\ {"done", "dma"} \cap cafe_irq = {}
  BY <1>1 DEF CafeInv, Quiet
<1>11. CafeTypes'
  <2>1. flash' \in [Cafe!Where -> Cell]
    <3>1. flash \in [Cafe!Where -> Cell] /\ Cafe!Target \in Cafe!Where /\ Cafe!Programmed \in Cell
          /\ Cafe!Blank \in Cell
      BY <1>1, CellsStay DEF CafeInv, CafeTypes
    <3>2. \/ flash' = flash
          \/ flash' = [flash EXCEPT ![Cafe!Target] = Cafe!Programmed]
          \/ flash' = [flash EXCEPT ![Cafe!Target] = Cafe!Blank]
      BY <1>1 DEF Cafe!Change
    <3> QED  BY <3>1, <3>2
  <2>4. failed' \in BOOLEAN
    <3>1. failed \in BOOLEAN
      BY DEF CafeInv, CafeTypes, Cafe!TypeOK
    <3> QED  BY <1>1, <3>1, Zenon DEF Cafe!Change
  <2>2. phase' \in {"idle", "running", "transfer"} /\ cafe_irq' \subseteq {"done", "dma", "other"}
    BY <1>1 DEF CafeInv, CafeTypes, Cafe!TypeOK
  <2>3. ctrl1.page \in Pages
    BY <1>1 DEF CafeInv, CafeTypes
  <2> QED  BY <1>2, <2>1, <2>2, <2>3, <2>4 DEF CafeInv, CafeTypes, Cafe!TypeOK
<1>12. Place' /\ SavedHalf' /\ Advanced' /\ EccOnce' /\ Told'
  BY <1>2 DEF CafeInv, Place, SavedHalf, Halfway, Advanced, EccOnce, Told
<1>13. BitComes'
  <2>1. step = "poll" /\ phase' = "idle" => Cafe!Doneint(CallAt(op.kind, Left)) \in cafe_irq'
    BY <1>1, <1>3 DEF Cafe!Doneint
  <2>2. phase' = "transfer" => ctrl1.command \in Cafe!Reads
    BY <1>1
  <2> QED  BY <1>2, <2>1, <2>2 DEF CafeInv, BitComes
<1>14. Quiet'
  <2>1. slow = 0 => "dma" \notin cafe_irq' /\ phase' # "running"
    BY <1>1, <1>4
  <2> QED  BY <1>2, <1>4, <2>1 DEF Quiet
<1>15. FlashIs'
  <2> SUFFICES ASSUME slow = 0
               PROVE  IF op.kind \in Pairs /\ Over(2)'
                        THEN flash' = Cafe!Wanted \/ (failed' /\ flash' = written) ELSE flash' = written
    BY <1>2, <1>4 DEF FlashIs, Cafe!Wanted
  <2>0. step = "poll"
    BY <1>4
  <2>1. /\ step = "poll"
        /\ IF op.kind \in Pairs /\ Over(2)
             THEN flash = Cafe!Wanted \/ (failed /\ flash = written) ELSE flash = written
    BY <2>0 DEF CafeInv, FlashIs
  <2>2. CASE ctrl1.command \notin {"PAGEPROG", "ERASE2"}
    <3>1. flash' = flash /\ failed' = failed
      BY <1>1, <2>2
    <3>2. op.kind \in Pairs => Left = 1
      BY <1>3, <2>1, <2>2 DEF Pairs, Writes
    <3>3. op.kind \in Pairs => Over(2) /\ Over(2)'
      BY <1>2, <3>2 DEF Over
    <3> QED  BY <2>1, <3>1, <3>3
  <2>3. CASE ctrl1.command \in {"PAGEPROG", "ERASE2"}
    <3>1. Left = 2 /\ op.kind \in Pairs /\ phase' = "idle"
      BY <1>1, <1>3, <2>1, <2>3 DEF Pairs, Cafe!Reads
    <3>2. ~Over(2) /\ Over(2)' /\ flash = written
      BY <1>1, <1>2, <2>1, <3>1 DEF Over
    <3>3. /\ ctrl1.chip = op.page[1] /\ ctrl1.page = op.page[2] /\ op.page \in Cafe!Where
          /\ ctrl1.column = ColumnOf(op.kind) /\ (op.kind # "erase" => ctrl1.len = Polled(op.kind))
          /\ ctrl1.ecc <=> op.kind = "write_page"
      BY <1>3, <2>1, <3>1 DEF CafeInv, Told
    <3>4. CASE ctrl1.command = "ERASE2"
      <4>1. op.kind = "erase" /\ Cafe!Target = op.page
        BY <1>3, <2>1, <3>3, <3>4 DEF Cafe!Target, Cafe!Where
      <4>2. flash' = [flash EXCEPT ![Cafe!Target] = Cafe!Blank] \/ (failed' /\ flash' = flash)
        BY <1>1, <3>4 DEF Cafe!Change
      <4> QED  BY <3>1, <3>2, <4>1, <4>2 DEF Cafe!Wanted
    <3>5. CASE ctrl1.command = "PAGEPROG"
      <4>1. op.kind \in Writes /\ Halfway /\ op.kind # "erase"
        BY <1>3, <2>1, <3>5 DEF Writes
      <4>2. \A i \in 1 .. ctrl1.len : dmabuf[i] = ops
        BY <2>1, <4>1 DEF CafeInv, BufferIs
      <4>3. [flash EXCEPT ![Cafe!Target] = Cafe!Programmed] = Cafe!Wanted
        BY <3>2, <3>3, <4>1, <4>2, Programming DEF CafeInv
      <4>4. flash' = [flash EXCEPT ![Cafe!Target] = Cafe!Programmed] \/ (failed' /\ flash' = flash)
        BY <1>1, <3>5 DEF Cafe!Change
      <4> QED  BY <3>1, <3>2, <4>3, <4>4
    <3> QED  BY <2>3, <3>4, <3>5
  <2> QED  BY <2>2, <2>3
<1>16. BufferIs'
  <2> SUFFICES ASSUME slow = 0 PROVE BufferIs'
    BY <1>2 DEF BufferIs
  <2>1. step = "poll"
    BY <1>4
  <2>2. op.kind = "read_page" => ~Over(3)'
    BY <1>1, <1>2, <1>3, <2>1 DEF Over, Pairs, Writes, Cafe!Reads
  <2>3. op.kind = "read_oob" => ~Over(2)'
    BY <1>1, <1>2, <1>3, <2>1 DEF Over, Pairs, Writes, Cafe!Reads
  <2>4. Halfway /\ op.kind \in Writes => \A i \in 1 .. ctrl1.len : dmabuf[i] = ops
    BY <2>1 DEF CafeInv, BufferIs
  <2>5. op.kind \in Pairs => ~Over(1)'
    BY <1>1, <1>2, <1>3, <2>1 DEF Over, Pairs, Writes, Cafe!Reads
  <2> QED  BY <1>2, <2>1, <2>2, <2>3, <2>4, <2>5 DEF BufferIs, Halfway
<1>17. GotIs'
  BY <1>2, <1>4 DEF CafeInv, GotIs
<1> QED  BY <1>11, <1>12, <1>13, <1>14, <1>15, <1>16, <1>17 DEF CafeInv

\* The DMA of a read, or of the status byte.
LEMMA CafeTransfer == ASSUME CafeConstants, CafeInv, Cafe!Transfer PROVE CafeInv'
<1>1. /\ UNCHANGED <<op, step, calls, chip, ops, saved, ctl2, ctrl2, datalen, ctrl1, failed, flash, got, written,
                     slow, lost, probe, held>>
      /\ phase = "transfer" /\ phase' = "idle" /\ cafe_irq' = cafe_irq \cup {"dma"}
      /\ dmabuf' = IF ctrl1.command = "STATUS" THEN [dmabuf EXCEPT ![1] = IF failed THEN Cafe!FAIL ELSE 0]
                   ELSE [c \in 1 .. 2 |-> IF c <= ctrl1.len THEN flash[Cafe!Target].cells[ctrl1.column + c]
                                          ELSE dmabuf[c]]
  BY DEF Cafe!Transfer, Cafe!layerVars, Cafe!cmdVars, Cafe!ghostVars, Cafe!probeVars
<1>2. UNCHANGED <<op, step, calls, chip, ops, saved, ctl2, ctrl2, datalen, ctrl1, failed, flash, got, written,
                  slow, lost, probe, held>> /\ Left' = Left
  BY <1>1 DEF Left
<1>3. ASSUME step = "poll"
      PROVE  /\ op.kind \in Cafe!Kinds /\ op.page \in Cafe!Where /\ ctrl1.command = CallAt(op.kind, Left)
             /\ ctrl1.chip = op.page[1] /\ ctrl1.page = op.page[2]
             /\ \/ op.kind \in Pairs /\ Left = 1 /\ ctrl1.command = "STATUS"
                \/ op.kind = "read_page" /\ Left = 3 /\ ctrl1.command = "READ0" /\ ctrl1.column = 0 /\ ctrl1.len = 2
                \/ op.kind = "read_oob" /\ Left = 2 /\ ctrl1.command = "READOOB" /\ ctrl1.column = 1 /\ ctrl1.len = 1
  <2>1. calls # <<>> /\ Left > 0
    BY <1>3 DEF CafeInv, Place, Left
  <2>2. /\ op.kind \in Cafe!Kinds /\ Left \in 1 .. Full(op.kind) /\ CallIs(op.kind, Left)
        /\ op.page \in Cafe!Where
    BY <1>3, <2>1, Now DEF CafeInv, Place
  <2>3. /\ ctrl1.command = CallAt(op.kind, Left) /\ ctrl1.chip = op.page[1] /\ ctrl1.page = op.page[2]
        /\ op.kind \notin Pairs => ctrl1.column = ColumnOf(op.kind) /\ (op.kind # "erase" => ctrl1.len = Polled(op.kind))
    BY <1>3 DEF CafeInv, Told
  <2>4. ctrl1.command \in Cafe!Reads
    BY <1>1, <1>3 DEF CafeInv, BitComes
  <2>5. \/ op.kind \in Pairs /\ Left = 1 /\ ctrl1.command = "STATUS"
        \/ op.kind = "read_page" /\ Left = 3 /\ ctrl1.command = "READ0"
        \/ op.kind = "read_oob" /\ Left = 2 /\ ctrl1.command = "READOOB"
    BY <2>2, <2>3, <2>4 DEF CallIs, Cafe!Reads
  <2> QED  BY <2>2, <2>3, <2>5 DEF ColumnOf, Polled, Pairs, Writes
<1>4. slow = 0 => step = "poll"
  BY <1>1 DEF CafeInv, Quiet
<1>11. CafeTypes'
  <2>1. dmabuf' \in Cells
    <3>1. Cafe!Target \in Cafe!Where /\ ctrl1.column \in 0 .. 1 /\ ctrl1.len \in 0 .. 2 /\ ctrl1.column + ctrl1.len <= 2
      BY <1>1 DEF CafeInv, CafeTypes, Half, Cafe!Target, Cafe!Where
    <3>2. flash[Cafe!Target].cells \in Cells /\ dmabuf \in Cells
      BY <3>1 DEF CafeInv, CafeTypes, Cell, Cells, Cafe!TypeOK
    <3>3. \A c \in 1 .. 2 : c <= ctrl1.len => ctrl1.column + c \in 1 .. 2
      BY <3>1
    <3>4. [dmabuf EXCEPT ![1] = IF failed THEN Cafe!FAIL ELSE 0] \in Cells
      <4>1. 0 \in 0 .. MaxOps + 1 /\ Cafe!FAIL \in 0 .. MaxOps + 1
        BY DEF CafeConstants, Cafe!FAIL
      <4> QED  BY <3>2, <4>1 DEF Cells
    <3>5. [c \in 1 .. 2 |-> IF c <= ctrl1.len THEN flash[Cafe!Target].cells[ctrl1.column + c]
                            ELSE dmabuf[c]] \in Cells
      BY <3>2, <3>3 DEF Cells
    <3> QED  BY <1>1, <3>4, <3>5
  <2>2. phase' = "idle" /\ cafe_irq' \subseteq {"done", "dma", "other"}
    BY <1>1 DEF CafeInv, CafeTypes, Cafe!TypeOK
  <2> QED  BY <1>2, <2>1, <2>2 DEF CafeInv, CafeTypes, Cafe!TypeOK, Cells
<1>12. Place' /\ SavedHalf' /\ Advanced' /\ EccOnce' /\ Told'
  BY <1>2 DEF CafeInv, Place, SavedHalf, Halfway, Advanced, EccOnce, Told
<1>13. BitComes'
  <2>1. step = "poll" => Cafe!Doneint(CallAt(op.kind, Left)) \in cafe_irq'
    <3> SUFFICES ASSUME step = "poll" PROVE Cafe!Doneint(CallAt(op.kind, Left)) \in cafe_irq'
      OBVIOUS
    <3>1. CallAt(op.kind, Left) \in Cafe!Reads
      BY <1>1, <1>3 DEF CafeInv, BitComes
    <3> QED  BY <1>1, <3>1 DEF Cafe!Doneint
  <2> QED  BY <1>1, <1>2, <2>1 DEF CafeInv, BitComes
<1>14. Quiet'
  BY <1>1, <1>2, <1>4 DEF Quiet
<1>15. FlashIs'
  <2>1. slow = 0 /\ op.kind \in Pairs => (Over(2)' <=> Over(2))
    BY <1>1, <1>2, <1>3, <1>4 DEF Over, Pairs, Writes
  <2> QED  BY <1>2, <2>1 DEF CafeInv, FlashIs, Cafe!Wanted
<1>16. BufferIs'
  <2> SUFFICES ASSUME slow = 0 PROVE BufferIs'
    BY <1>2 DEF BufferIs
  <2>1. step = "poll"
    BY <1>4
  <2>2. ~(Halfway /\ op.kind \in Writes)
    BY <1>3, <2>1 DEF Halfway, Pairs, Writes
  <2>3. op.kind = "read_page" => dmabuf' = flash[op.page].cells
    <3> SUFFICES ASSUME op.kind = "read_page" PROVE dmabuf' = flash[op.page].cells
      OBVIOUS
    <3>1. ctrl1.command = "READ0" /\ ctrl1.column = 0 /\ ctrl1.len = 2 /\ Cafe!Target = op.page /\ op.page \in Cafe!Where
      BY <1>3, <2>1 DEF Pairs, Writes, Cafe!Target, Cafe!Where
    <3>2. flash[op.page].cells \in Cells
      BY <3>1 DEF CafeInv, CafeTypes, Cell
    <3>3. dmabuf' = [c \in 1 .. 2 |-> flash[op.page].cells[c]]
      BY <1>1, <3>1
    <3> QED  BY <3>2, <3>3 DEF Cells
  <2>4. op.kind = "read_oob" => dmabuf'[1] = flash[op.page].cells[2]
    <3> SUFFICES ASSUME op.kind = "read_oob" PROVE dmabuf'[1] = flash[op.page].cells[2]
      OBVIOUS
    <3>1. ctrl1.command = "READOOB" /\ ctrl1.column = 1 /\ ctrl1.len = 1 /\ Cafe!Target = op.page
      BY <1>3, <2>1 DEF Pairs, Writes, Cafe!Target, Cafe!Where
    <3> QED  BY <1>1, <3>1
  <2>5. op.kind \in Pairs => dmabuf'[1] = IF failed THEN Cafe!FAIL ELSE 0
    <3> SUFFICES ASSUME op.kind \in Pairs PROVE dmabuf'[1] = IF failed THEN Cafe!FAIL ELSE 0
      OBVIOUS
    <3>1. ctrl1.command = "STATUS" /\ dmabuf \in Cells
      BY <1>3, <2>1 DEF Pairs, Writes, CafeInv, CafeTypes, Cells, Cafe!TypeOK
    <3> QED  BY <1>1, <3>1 DEF Cells
  <2> QED  BY <1>2, <2>2, <2>3, <2>4, <2>5 DEF BufferIs, Halfway
<1>17. GotIs'
  <2> SUFFICES ASSUME slow = 0 PROVE step # "idle" => \A i \in 1 .. Len(got) : got[i] = dmabuf'[i]
    BY <1>2, <1>4 DEF CafeInv, GotIs
  <2>1. Len(got) = 0
    BY <1>3, <1>4 DEF CafeInv, GotIs, Pairs, Writes
  <2> QED  BY <2>1
<1> QED  BY <1>11, <1>12, <1>13, <1>14, <1>15, <1>16, <1>17 DEF CafeInv

\* Nothing is written, and every cell is blank.
LEMMA CafeInit == ASSUME CafeConstants PROVE Cafe!Init => CafeInv
<1> SUFFICES ASSUME Cafe!Init PROVE CafeInv
  OBVIOUS
<1>1. /\ op = Cafe!NoOp /\ step = "idle" /\ calls = <<>> /\ chip = 0 /\ saved = Cafe!NoCmd
      /\ ctl2 = FALSE /\ ctrl2 = FALSE /\ datalen = 0 /\ dmabuf = <<0, 0>>
      /\ cafe_irq = {} /\ ctrl1 = Cafe!NoCmd /\ phase = "idle" /\ failed = FALSE
      /\ flash = [w \in Cafe!Where |-> Cafe!Blank] /\ written = flash
      /\ got = <<>> /\ ops = 0 /\ slow = 0 /\ lost = FALSE /\ held = {}
  BY DEF Cafe!Init
<1>2. CafeTypes
  <2>1. <<0, 0>> \in Cells
    BY Pair DEF CafeConstants, Cells
  <2>2. flash \in [Cafe!Where -> Cell]
    BY <1>1, <2>1 DEF Cafe!Blank, Cell
  <2>3. Cafe!NoCmd \in Half /\ Cafe!NoCmd.column + Cafe!NoCmd.len <= 2
    BY DEF Cafe!NoCmd, Half
  <2>4. op \in [kind : Cafe!Kinds \cup {"none"}, page : Cafe!Where \cup {<<0, 0>>}]
    BY <1>1 DEF Cafe!NoOp
  <2>5. ctl2 \in BOOLEAN /\ ctrl2 \in BOOLEAN /\ failed \in BOOLEAN
    BY <1>1, Zenon
  <2>6. got \in Seq(0 .. MaxOps + 1) /\ Len(got) = 0 /\ calls \in Seq(CallNames)
    BY <1>1
  <2> QED  BY <1>1, <2>1, <2>2, <2>3, <2>4, <2>5, <2>6 DEF CafeTypes, Cafe!TypeOK, Cells, CafeConstants
<1>3. Place /\ SavedHalf /\ Advanced /\ EccOnce /\ Told
  BY <1>1 DEF Place, SavedHalf, Halfway, Advanced, EccOnce, Told
<1>4. BitComes /\ Quiet /\ FlashIs /\ BufferIs
  BY <1>1 DEF BitComes, Quiet, FlashIs, BufferIs, Halfway
<1>5. GotIs
  BY <1>1 DEF GotIs, Cafe!NoOp, Pairs, Writes
<1> QED  BY <1>2, <1>3, <1>4, <1>5 DEF CafeInv

\* The buffer of an operation starts at its first command.
LEMMA CafeBegin ==
  ASSUME CafeConstants, CafeInv, NEW kind \in Cafe!Kinds, NEW w \in Cafe!Where, Cafe!Begin(kind, w)
  PROVE  CafeInv'
<1>1. /\ UNCHANGED <<saved, ctl2, ctrl2, datalen, dmabuf, written, slow, lost, cafe_irq, ctrl1, phase,
                     failed, flash, probe, held>>
      /\ step = "idle" /\ step' = "call" /\ ops < MaxOps /\ ops' = ops + 1 /\ got' = <<>>
      /\ op' = [kind |-> kind, page |-> w] /\ calls' = Cafe!Calls(kind) /\ chip' = w[1]
  BY DEF Cafe!Begin, Cafe!cmdVars, Cafe!bufVars, Cafe!ghostVars, Cafe!devVars, Cafe!probeVars
<1>2. /\ calls' \in Seq(CallNames) /\ Left' = Full(kind)
      /\ \A j \in 1 .. Full(kind) : calls'[j] = CallAt(kind, Full(kind) - j + 1)
  BY <1>1, CallsAre DEF Left
<1>3. op'.kind = kind /\ op'.page = w /\ Full(kind) \in 2 .. 6 /\ (kind \in Pairs => Full(kind) > 2)
      /\ kind # "none" /\ (kind = "read_page" => Full(kind) = 3) /\ (kind = "read_oob" => Full(kind) = 2)
  BY <1>1 DEF Full, Pairs, Writes, Cafe!Kinds
<1>4. ~Halfway' /\ ~ctl2
  BY <1>1, <1>2, <1>3 DEF CafeInv, Halfway, EccOnce
<1>5. got' \in Seq(0 .. MaxOps + 1) /\ Len(got') = 0
  BY <1>1
<1>11. CafeTypes'
  <2>1. w[1] \in {0, 1} /\ ops' \in 0 .. MaxOps
    BY <1>1 DEF Cafe!Where, CafeInv, CafeTypes, CafeConstants
  <2>2. op' \in [kind : Cafe!Kinds \cup {"none"}, page : Cafe!Where \cup {<<0, 0>>}]
    BY <1>1
  <2>3. UNCHANGED <<saved, ctl2, ctrl2, datalen, dmabuf, written, slow, lost, cafe_irq, ctrl1, phase,
                    failed, flash, probe, held>> /\ step' = "call" /\ chip' = w[1]
    BY <1>1
  <2> QED  BY <1>2, <1>5, <2>1, <2>2, <2>3 DEF CafeInv, CafeTypes, Cafe!TypeOK
<1>12. Place'
  BY <1>1, <1>2, <1>3 DEF Place
<1>13. SavedHalf'
  BY <1>4 DEF SavedHalf
<1>14. Advanced'
  BY <1>1, <1>2, <1>3, <1>4 DEF Advanced
<1>15. EccOnce'
  BY <1>1, <1>2, <1>3, <1>4 DEF EccOnce, Pairs, Writes, Full
<1>16. Told' /\ BitComes' /\ Quiet'
  BY <1>1 DEF CafeInv, Told, BitComes, Quiet
<1>17. FlashIs'
  BY <1>1, <1>2, <1>3 DEF CafeInv, FlashIs, Over
<1>18. BufferIs'
  BY <1>1, <1>2, <1>3, <1>4 DEF BufferIs, Over
<1>19. GotIs'
  BY <1>1, <1>2, <1>3, <1>5 DEF GotIs
<1> QED  BY <1>11, <1>12, <1>13, <1>14, <1>15, <1>16, <1>17, <1>18, <1>19 DEF CafeInv

\* What is left: the handler, a step of a neighbour, probe and remove, and the
\* reset of a controller that is idle.
LEMMA CafeStays ==
  ASSUME CafeInv, cafe_irq' \subseteq cafe_irq, step = "poll" => cafe_irq \cap {"done", "dma"} \subseteq cafe_irq',
         UNCHANGED <<op, step, calls, chip, saved, ctl2, ctrl2, datalen, dmabuf, ctrl1, phase,
                     failed, flash, written, got, ops, slow, lost>>,
         held' \subseteq {"mtd", "mmio", "dmabuf", "rs", "irq"}
  PROVE  CafeInv'
<1>1. CafeTypes'
  BY DEF CafeInv, CafeTypes, Cafe!TypeOK
<1>2. Left' = Left
  BY DEF Left
<1>3. Place' /\ SavedHalf' /\ Advanced' /\ EccOnce' /\ Told'
  BY <1>2 DEF CafeInv, Place, SavedHalf, Halfway, Advanced, EccOnce, Told
<1>4. Cafe!Doneint(CallAt(op.kind, Left)) \in {"done", "dma"}
  BY DEF Cafe!Doneint
<1>5. BitComes'
  <2>1. step = "poll" /\ phase = "idle" => Cafe!Doneint(CallAt(op.kind, Left)) \in cafe_irq'
    BY <1>4 DEF CafeInv, BitComes
  <2> QED  BY <1>2, <2>1 DEF CafeInv, BitComes
<1>6. Quiet'
  BY DEF CafeInv, Quiet
<1>7. FlashIs' /\ BufferIs' /\ GotIs'
  BY <1>2 DEF CafeInv, FlashIs, BufferIs, GotIs, Over, Halfway, Cafe!Wanted
<1> QED  BY <1>1, <1>3, <1>5, <1>6, <1>7 DEF CafeInv

\* cafe_nand_resume(): between operations the controller holds nothing.
LEMMA CafeResume == ASSUME CafeInv, Cafe!PciResume PROVE CafeInv'
<1>1. /\ UNCHANGED <<op, step, calls, chip, ops, saved, ctl2, datalen, dmabuf, written, slow, lost, got,
                     failed, flash, probe, held>>
      /\ step = "idle" /\ cafe_irq' = {} /\ ctrl1' = Cafe!NoCmd /\ phase' = "idle" /\ ctrl2' = FALSE
  BY DEF Cafe!PciResume, Cafe!layerVars, Cafe!bufVars, Cafe!ghostVars, Cafe!probeVars
<1>2. Left' = Left
  BY <1>1 DEF Left
<1>3. CafeTypes'
  <2>1. ctrl1' \in Half /\ ctrl1'.column + ctrl1'.len <= 2
    BY <1>1 DEF Cafe!NoCmd, Half
  <2>2. ctrl2' \in BOOLEAN
    BY <1>1, Zenon
  <2>3. /\ UNCHANGED <<op, step, calls, chip, ops, saved, ctl2, datalen, dmabuf, written, slow, lost, got,
                       failed, flash, probe, held>>
        /\ phase' = "idle" /\ cafe_irq' \subseteq {"done", "dma", "other"}
    BY <1>1
  <2> QED  BY <2>1, <2>2, <2>3 DEF CafeInv, CafeTypes, Cafe!TypeOK
<1>4. Place' /\ SavedHalf' /\ Advanced' /\ EccOnce' /\ Told'
  BY <1>1, <1>2 DEF CafeInv, Place, SavedHalf, Halfway, Advanced, EccOnce, Told
<1>5. BitComes' /\ Quiet' /\ FlashIs' /\ BufferIs' /\ GotIs'
  BY <1>1, <1>2 DEF CafeInv, BitComes, Quiet, FlashIs, BufferIs, GotIs, Halfway
<1> QED  BY <1>3, <1>4, <1>5 DEF CafeInv

\* One case for each action.
LEMMA CafeStep == ASSUME CafeConstants PROVE CafeInv /\ [Cafe!Next]_Cafe!cafeVars => CafeInv'
<1> SUFFICES ASSUME CafeInv, [Cafe!Next]_Cafe!cafeVars PROVE CafeInv'
  OBVIOUS
<1>1. ASSUME NEW kind \in Cafe!Kinds, NEW w \in Cafe!Where, Cafe!Begin(kind, w) PROVE CafeInv'
  BY <1>1, CafeBegin
<1>2. CASE Cafe!WriteBuf   BY <1>2, CafeWriteBuf
<1>3. CASE Cafe!ReadBuf    BY <1>3, CafeReadBuf
<1>4. CASE Cafe!SetEcc     BY <1>4, CafeSetEcc
<1>5. CASE Cafe!FirstHalf  BY <1>5, CafeFirstHalf
<1>6. CASE Cafe!Arm        BY <1>6, CafeArm
<1>7. CASE Cafe!Start      BY <1>7, CafeStart
<1>8. CASE Cafe!Poll       BY <1>8, CafePoll
<1>9. CASE Cafe!Finish     BY <1>9, CafeFinish
<1>10. CASE Cafe!OpReturns BY <1>10, CafeOpReturns
<1>11. CASE Cafe!Complete  BY <1>11, CafeComplete
<1>12. CASE Cafe!Transfer  BY <1>12, CafeTransfer
<1>13. CASE Cafe!Interrupt
  <2>1. /\ UNCHANGED <<op, step, calls, chip, saved, ctl2, ctrl2, datalen, dmabuf, ctrl1, phase,
                       failed, flash, written, got, ops, slow, lost, held>>
        /\ cafe_irq' = cafe_irq \ (cafe_irq \ {"done", "dma"})
    BY <1>13 DEF Cafe!Interrupt, Cafe!Acknowledged, Cafe!layerVars, Cafe!cmdVars, Cafe!bufVars,
       Cafe!ghostVars, Cafe!probeVars
  <2>2. held' \subseteq {"mtd", "mmio", "dmabuf", "rs", "irq"}
    BY <2>1 DEF CafeInv, CafeTypes, Cafe!TypeOK
  <2>3. cafe_irq' \subseteq cafe_irq /\ cafe_irq \cap {"done", "dma"} \subseteq cafe_irq'
    BY <2>1
  <2> QED  BY <2>1, <2>2, <2>3, CafeStays
<1>14. CASE Cafe!Probe
  <2>1. /\ UNCHANGED <<op, step, calls, chip, saved, ctl2, ctrl2, datalen, dmabuf, ctrl1, phase,
                       failed, flash, written, got, ops, slow, lost, cafe_irq>>
        /\ held' \subseteq {"mtd", "mmio", "dmabuf", "rs", "irq"}
    BY <1>14 DEF Cafe!Probe, Cafe!layerVars, Cafe!cmdVars, Cafe!bufVars, Cafe!ghostVars, Cafe!devVars
  <2> QED  BY <2>1, CafeStays
<1>15. CASE Cafe!PciRemove
  <2>1. /\ UNCHANGED <<op, step, calls, chip, saved, ctl2, ctrl2, datalen, dmabuf, ctrl1, phase,
                       failed, flash, written, got, ops, slow, lost, cafe_irq>>
        /\ held' \in {held, {}}
    BY <1>15 DEF Cafe!PciRemove, Cafe!layerVars, Cafe!cmdVars, Cafe!bufVars, Cafe!ghostVars, Cafe!devVars
  <2>2. held' \subseteq {"mtd", "mmio", "dmabuf", "rs", "irq"}
    BY <2>1 DEF CafeInv, CafeTypes, Cafe!TypeOK
  <2> QED  BY <2>1, <2>2, CafeStays
<1>16. CASE Cafe!PciResume  BY <1>16, CafeResume
<1>17. CASE UNCHANGED Cafe!cafeVars
  <2>1. UNCHANGED <<op, step, calls, chip, saved, ctl2, ctrl2, datalen, dmabuf, ctrl1, phase,
                    failed, flash, written, got, ops, slow, lost, cafe_irq, held>>
    BY <1>17 DEF Cafe!cafeVars
  <2>2. held' \subseteq {"mtd", "mmio", "dmabuf", "rs", "irq"}
    BY <2>1 DEF CafeInv, CafeTypes, Cafe!TypeOK
  <2> QED  BY <2>1, <2>2, CafeStays
<1> QED
  BY <1>1, <1>2, <1>3, <1>4, <1>5, <1>6, <1>7, <1>8, <1>9, <1>10, <1>11, <1>12, <1>13, <1>14, <1>15,
     <1>16, <1>17 DEF Cafe!Next

\* cafe_nand_cmdfunc(), cafe_nand_interrupt(): for any number of pages and of
\* operations, with any commands given up.
LEMMA CafeCorrect ==
  ASSUME CafeConstants
  PROVE  Cafe!Spec => [](Cafe!TypeOK /\ FlashHoldsWhatWasWritten)
<1>1. Cafe!Init => CafeInv  BY CafeInit
<1>2. CafeInv /\ [Cafe!Next]_Cafe!cafeVars => CafeInv'  BY CafeStep
<1>3. ASSUME CafeInv PROVE Cafe!TypeOK /\ FlashHoldsWhatWasWritten
  <2>1. step = "idle" /\ slow = 0 => flash = written
    BY <1>3 DEF CafeInv, FlashIs
  <2>2. step = "idle" /\ slow = 0 =>
           /\ op.kind = "read_page" => got = flash[op.page].cells
           /\ op.kind = "read_oob" => got = <<flash[op.page].cells[2]>>
           /\ op.kind \in {"write_page", "write_raw", "write_oob", "erase"} => (got = <<Cafe!FAIL>> <=> failed)
    BY <1>3 DEF CafeInv, GotIs, Pairs, Writes
  <2>3. step = "polled" => ~ctl2
    BY <1>3 DEF CafeInv, EccOnce
  <2>4. ~lost
    BY <1>3 DEF CafeInv, BitComes
  <2>5. FlashHoldsWhatWasWritten
    BY <2>1, <2>2, <2>3, <2>4 DEF FlashHoldsWhatWasWritten, Cafe!FlashHoldsWhatWasWritten, Cafe!CompletionNotLost
  <2>6. Cafe!TypeOK  BY <1>3 DEF CafeInv, CafeTypes
  <2> QED  BY <2>5, <2>6
<1> QED  BY <1>1, <1>2, <1>3, PTL DEF Cafe!Spec

-----------------------------------------------------------------------------

\* cafe_nand_cmdfunc(), cafe_nand_write_page(), cafe_nand_interrupt(): with any
\* number of pages and operations, as long as no command outlasted the polling
\* each operation did to its page what it is for or returned -EIO, just when the
\* chip failed; and however many did, no
\* completion is taken from the polling and the ECC bit never stays set.
THEOREM FlashKept == ASSUME CafeConstants PROVE DriversSpec => []FlashHoldsWhatWasWritten
BY EachRuns, CafeCorrect, PTL

-----------------------------------------------------------------------------
(* The BF5xx controller.  The code of a half is a parity for each bit of a   *)
(* number and for each bit that is not set in it, so a bit of data that      *)
(* turns changes K parities, and they spell its number; a parity that turns  *)
(* makes them more or fewer, and two bits of data change both of a pair.     *)

Indices == 0 .. K - 1
Parity  == [1 .. 2 -> SUBSET Indices]

\* Halves of at least eight bits; the code has 2048.
BfConstants == K \in Nat /\ K > 2 /\ Sections \subseteq Seq(SUBSET Bf!Bits)

\* The parity bits that a data bit takes part in
Ones(i)  == {k \in Indices : Bf!BitOf(i, k)}
Zeros(i) == {k \in Indices : ~Bf!BitOf(i, k)}

Toggled(S, x) == Bf!SymDiff(S, {x})

LEMMA Pow2Is ==
  ASSUME K \in Nat
  PROVE  /\ Bf!Pow2 \in [0 .. K -> Nat \ {0}] /\ Bf!Pow2[0] = 1
         /\ \A k \in 1 .. K : Bf!Pow2[k] = 2 * Bf!Pow2[k - 1]
<1> DEFINE P == Bf!Pow2
           N == Nat \ {0}
           g == [p \in (1 .. K) \X N |-> 2 * p[2]]
<1>2. g \in [(1 .. K) \X N -> N] /\ 1 \in N  OBVIOUS
<1>3. PICK f : Steps(f, K, N, 1, g)
  <2> HIDE DEF g, N
  <2> QED  BY <1>2, Recursion
<1>4. f = [k \in 0 .. K |-> IF k = 0 THEN 1 ELSE 2 * f[k - 1]]
  <2>1. \A k \in 1 .. K : f[k] = 2 * f[k - 1]
    <3> TAKE k \in 1 .. K
    <3>1. f[k - 1] \in N  BY <1>3 DEF Steps
    <3>2. g[<<k, f[k - 1]>>] = 2 * f[k - 1]  BY <3>1
    <3> QED  BY <1>3, <3>2 DEF Steps
  <2>2. f = [k \in 0 .. K |-> f[k]]  BY <1>3 DEF Steps
  <2>3. \A k \in 0 .. K : f[k] = IF k = 0 THEN 1 ELSE 2 * f[k - 1]  BY <1>3, <2>1 DEF Steps
  <2> QED  BY <2>2, <2>3
<1>5. P = [k \in 0 .. K |-> IF k = 0 THEN 1 ELSE 2 * P[k - 1]]
  BY <1>4, Zenon DEF Bf!Pow2
<1> HIDE DEF P
<1>6. \A k \in 0 .. K : P[k] \in N
  <2> DEFINE T == {k \in 0 .. K : P[k] \in N}
  <2>1. 0 \in T  BY <1>5
  <2>2. \A k \in 1 .. K : k - 1 \in T => k \in T  BY <1>5
  <2> HIDE DEF T
  <2>3. \A k \in 0 .. K : k \in T  BY <2>1, <2>2, Induction
  <2> QED  BY <2>3 DEF T
<1>7. P \in [0 .. K -> N]  BY <1>5, <1>6
<1>8. P[0] = 1 /\ \A k \in 1 .. K : P[k] = 2 * P[k - 1]  BY <1>5
<1> QED  BY <1>7, <1>8 DEF P

\* Halving a quotient divides by twice as much.
LEMMA Halved ==
  ASSUME NEW i \in Nat, NEW d \in Nat \ {0}
  PROVE  i \div (2 * d) = (i \div d) \div 2
<1> DEFINE q == i \div d
           r == i % d
           h == q \div 2
           b == q % 2
<1>1. q \in Nat /\ r \in 0 .. d - 1 /\ i = q * d + r  BY Divided
<1>2. h \in Nat /\ b \in 0 .. 1 /\ q = h * 2 + b
  <2> HIDE DEF q
  <2> QED  BY <1>1, Divided
<1> HIDE DEF q, r, h, b
<1>3. h * (2 * d) = (h * 2) * d /\ (h * 2 + b) * d = (h * 2) * d + b * d  BY <1>1, <1>2
<1>4. b * d + r \in 0 .. (2 * d) - 1
  <2>1. b = 0 \/ b = 1  BY <1>2
  <2>2. b = 0 => b * d = 0  OBVIOUS
  <2>3. b = 1 => b * d = d  OBVIOUS
  <2> QED  BY <1>1, <2>1, <2>2, <2>3
<1>5. i = h * (2 * d) + (b * d + r)
  <2> DEFINE x == (h * 2) * d
             y == b * d
  <2>1. x \in Int /\ y \in Int /\ q * d = x + y /\ h * (2 * d) = x  BY <1>1, <1>2, <1>3
  <2> HIDE DEF x, y
  <2>2. i = x + (y + r)  BY <1>1, <2>1
  <2> QED  BY <2>1, <2>2 DEF y
<1>6. (h * (2 * d) + (b * d + r)) \div (2 * d) = h
  <2> DEFINE e == 2 * d
             s == b * d + r
  <2>1. e \in Nat \ {0} /\ s \in 0 .. e - 1  BY <1>4
  <2> HIDE DEF e, s
  <2>2. (h * e + s) \div e = h  BY <1>2, <2>1, DividedOnce
  <2> QED  BY <2>2 DEF e, s
<1> QED  BY <1>5, <1>6 DEF h, q

\* The parity bits of a data bit are its number.
LEMMA ValueIs == ASSUME K \in Nat, NEW i \in Bf!Bits PROVE Bf!Value(Ones(i)) = i
<1> DEFINE P == Bf!Pow2
           b(k) == IF k - 1 \in Ones(i) THEN P[k - 1] ELSE 0
           J == CHOOSE f : f = [k \in 0 .. K |-> IF k = 0 THEN 0 ELSE f[k - 1] + b(k)]
           g == [p \in (1 .. K) \X Nat |-> p[2] + b(p[1])]
<1>1. Bf!Value(Ones(i)) = J[K]  BY DEF Bf!Value
<1>2. P \in [0 .. K -> Nat \ {0}] /\ P[0] = 1 /\ \A k \in 1 .. K : P[k] = 2 * P[k - 1]  BY Pow2Is
<1> HIDE DEF P
<1>3. \A k \in 1 .. K : b(k) \in Nat  BY <1>2
<1>4. i \in Nat /\ i < P[K]
  <2>1. P[K] \in Nat \ {0}  BY <1>2
  <2> QED  BY <2>1 DEF Bf!Bits, P
<1>5. \A k \in 1 .. K : /\ i \div P[k] = (i \div P[k - 1]) \div 2
                        /\ b(k) = ((i \div P[k - 1]) % 2) * P[k - 1]
  <2> TAKE k \in 1 .. K
  <2>1. P[k - 1] \in Nat \ {0} /\ P[k] = 2 * P[k - 1]  BY <1>2
  <2>2. i \div (2 * P[k - 1]) = (i \div P[k - 1]) \div 2
    <3> DEFINE d == P[k - 1]
    <3>1. d \in Nat \ {0}  BY <2>1
    <3> HIDE DEF d
    <3>2. i \div (2 * d) = (i \div d) \div 2  BY <1>4, <3>1, Halved
    <3> QED  BY <3>2 DEF d
  <2>3. k - 1 \in Ones(i) <=> (i \div P[k - 1]) % 2 = 1  BY DEF Ones, Indices, Bf!BitOf, P
  <2>4. i \div P[k - 1] \in Nat /\ (i \div P[k - 1]) % 2 \in {0, 1}
    <3> DEFINE d == P[k - 1]
               q == i \div d
    <3>1. d \in Nat \ {0}  BY <2>1
    <3> HIDE DEF d
    <3>2. q \in Nat  BY <1>4, <3>1, Divided
    <3> HIDE DEF q
    <3>3. q % 2 \in 0 .. 1  BY <3>2
    <3>4. q \in Nat /\ q % 2 \in {0, 1}  BY <3>2, <3>3
    <3> QED  BY <3>4 DEF q, d
  <2>5. b(k) = ((i \div P[k - 1]) % 2) * P[k - 1]
    <3> DEFINE c == (i \div P[k - 1]) % 2
               d == P[k - 1]
    <3>1. c \in {0, 1} /\ d \in Nat /\ b(k) = IF c = 1 THEN d ELSE 0  BY <2>1, <2>3, <2>4
    <3> HIDE DEF c, d, b
    <3>2. b(k) = c * d  BY <3>1
    <3> QED  BY <3>2 DEF c, d
  <2> QED  BY <2>1, <2>2, <2>5
<1> HIDE DEF b
<1>6. g \in [(1 .. K) \X Nat -> Nat]  BY <1>3
<1>7. PICK f : Steps(f, K, Nat, 0, g)
  <2> HIDE DEF g
  <2> QED  BY <1>6, Recursion
<1>8. f = [k \in 0 .. K |-> IF k = 0 THEN 0 ELSE f[k - 1] + b(k)]
  <2>1. \A k \in 1 .. K : f[k] = f[k - 1] + b(k)
    <3> TAKE k \in 1 .. K
    <3>1. f[k - 1] \in Nat  BY <1>7 DEF Steps
    <3>2. g[<<k, f[k - 1]>>] = f[k - 1] + b(k)  BY <3>1
    <3> QED  BY <1>7, <3>2 DEF Steps
  <2>2. f = [k \in 0 .. K |-> f[k]]  BY <1>7 DEF Steps
  <2>3. \A k \in 0 .. K : f[k] = IF k = 0 THEN 0 ELSE f[k - 1] + b(k)  BY <1>7, <2>1 DEF Steps
  <2> QED  BY <2>2, <2>3
<1>9. J = [k \in 0 .. K |-> IF k = 0 THEN 0 ELSE J[k - 1] + b(k)]  BY <1>8, Zenon
<1> HIDE DEF J
<1>10. \A k \in 0 .. K : J[k] \in 0 .. P[k] - 1 /\ i = (i \div P[k]) * P[k] + J[k]
  <2> DEFINE T == {k \in 0 .. K : J[k] \in 0 .. P[k] - 1 /\ i = (i \div P[k]) * P[k] + J[k]}
  <2>1. 0 \in T
    <3>1. J[0] = 0 /\ P[0] = 1 /\ i \div 1 = i  BY <1>2, <1>4, <1>9
    <3> QED  BY <1>4, <3>1
  <2>2. ASSUME NEW k \in 1 .. K, k - 1 \in T PROVE k \in T
    <3> DEFINE q == i \div P[k - 1]
               h == q \div 2
               c == q % 2
               d == P[k - 1]
               j == J[k - 1]
    <3>1. d \in Nat \ {0} /\ P[k] = 2 * d /\ j \in 0 .. d - 1 /\ i = q * d + j /\ i \div P[k] = h /\ b(k) = c * d
      BY <1>2, <1>5, <2>2
    <3>2. J[k] = j + b(k)  BY <1>9
    <3>3. q \in Nat
      <4> HIDE DEF d
      <4>1. i \div d \in Nat  BY <1>4, <3>1, Divided
      <4> QED  BY <4>1 DEF d
    <3>4. h \in Nat /\ c \in 0 .. 1 /\ q = h * 2 + c
      <4> HIDE DEF q
      <4> QED  BY <3>3, Divided
    <3> HIDE DEF q, h, c, d, j
    <3>5. h * (2 * d) = (h * 2) * d /\ (h * 2 + c) * d = (h * 2) * d + c * d  BY <3>1, <3>4
    <3>6. c * d + j \in 0 .. (2 * d) - 1 /\ c * d \in Nat
      <4>1. c = 0 \/ c = 1  BY <3>4
      <4>2. c = 0 => c * d = 0  BY <3>1
      <4>3. c = 1 => c * d = d  BY <3>1
      <4> QED  BY <3>1, <4>1, <4>2, <4>3
    <3>7. i = h * (2 * d) + (c * d + j)
      <4> DEFINE x == (h * 2) * d
                 y == c * d
      <4>1. x \in Int /\ y \in Int /\ q * d = x + y /\ h * (2 * d) = x  BY <3>1, <3>4, <3>5
      <4> HIDE DEF x, y
      <4>2. i = x + (y + j)  BY <3>1, <4>1
      <4> QED  BY <4>1, <4>2 DEF y
    <3>8. J[k] = c * d + j
      <4> DEFINE y == c * d
      <4>1. y \in Nat /\ J[k] = j + y /\ j \in Nat  BY <3>1, <3>2, <3>6
      <4> HIDE DEF y
      <4>2. J[k] = y + j  BY <4>1
      <4> QED  BY <4>2 DEF y
    <3> QED  BY <3>1, <3>6, <3>7, <3>8
  <2> HIDE DEF T
  <2>3. \A k \in 0 .. K : k \in T  BY <2>1, <2>2, Induction
  <2> QED  BY <2>3 DEF T
<1>11. i \div P[K] = 0
  <2> DEFINE d == P[K]
  <2>1. d \in Nat \ {0} /\ i \in 0 .. d - 1  BY <1>2, <1>4
  <2> HIDE DEF d
  <2>2. (0 * d + i) \div d = 0  BY <2>1, DividedOnce
  <2>3. 0 * d + i = i  BY <1>4, <2>1
  <2>4. i \div d = 0  BY <2>2, <2>3
  <2> QED  BY <2>4 DEF d
<1>12. J[K] = i
  <2> DEFINE d == P[K]
  <2>1. J[K] \in Nat /\ i = 0 * d + J[K] /\ d \in Nat
    <3>1. K \in 0 .. K /\ P[K] \in Nat \ {0}  BY <1>2
    <3> QED  BY <1>10, <1>11, <3>1
  <2> HIDE DEF d
  <2>2. 0 * d = 0  BY <2>1
  <2> QED  BY <2>1, <2>2
<1> QED  BY <1>1, <1>12

LEMMA BfCount == \A S : Bf!Cardinality(S) = Cardinality(S)
BY DEF Bf!Cardinality, Cardinality

LEMMA ToggledIs ==
  ASSUME NEW S, NEW x
  PROVE  /\ x \in S => Toggled(S, x) = S \ {x}
         /\ x \notin S => Toggled(S, x) = S \cup {x}
BY DEF Toggled, Bf!SymDiff

LEMMA BfBitsFinite == ASSUME K \in Nat PROVE IsFiniteSet(Bf!Bits) /\ \A S \in SUBSET Bf!Bits : IsFiniteSet(S)
<1>1. Bf!Pow2[K] - 1 \in Int  BY Pow2Is
<1>2. IsFiniteSet(Bf!Bits)  BY <1>1, FS_Interval DEF Bf!Bits
<1> QED  BY <1>2, FS_Subset

LEMMA IndicesFinite ==
  ASSUME K \in Nat
  PROVE  /\ IsFiniteSet(Indices) /\ Cardinality(Indices) = K
         /\ \A S \in SUBSET Indices : IsFiniteSet(S) /\ Cardinality(S) \in Nat
<1>1. IsFiniteSet(Indices) /\ Cardinality(Indices) = K
  <2>1. 0 \in Int /\ K - 1 \in Int  OBVIOUS
  <2> QED  BY <2>1, FS_Interval DEF Indices
<1> QED  BY <1>1, FS_Subset, FS_CardinalityType

\* One element more or less turns a parity.
LEMMA ParityTurns ==
  ASSUME NEW S, IsFiniteSet(S), NEW x
  PROVE  Bf!Odd(Toggled(S, x)) <=> ~Bf!Odd(S)
<1>1. Cardinality(S) \in Nat  BY FS_CardinalityType
<1>2. Cardinality(Toggled(S, x)) \in {Cardinality(S) + 1, Cardinality(S) - 1}
  <2>1. CASE x \in S
    <3>1. Toggled(S, x) = S \ {x}  BY <2>1, ToggledIs
    <3> QED  BY <2>1, <3>1, FS_RemoveElement
  <2>2. CASE x \notin S
    <3>1. Toggled(S, x) = S \cup {x}  BY <2>2, ToggledIs
    <3> QED  BY <2>2, <3>1, FS_AddElement
  <2> QED  BY <2>1, <2>2
<1> DEFINE a == Cardinality(S)
           c == Cardinality(Toggled(S, x))
<1>3. a \in Nat /\ c \in {a + 1, a - 1}  BY <1>1, <1>2
<1>4. (Bf!Odd(Toggled(S, x)) <=> c % 2 = 1) /\ (Bf!Odd(S) <=> a % 2 = 1)  BY BfCount DEF Bf!Odd
<1> HIDE DEF a, c
<1>5. c % 2 = 1 <=> ~(a % 2 = 1)  BY <1>3
<1> QED  BY <1>4, <1>5

\* A bit of data turns the parities it takes part in, and no others.
LEMMA CodeTurns ==
  ASSUME K \in Nat, NEW data \in SUBSET Bf!Bits, NEW i \in Bf!Bits
  PROVE  /\ Bf!Code(Toggled(data, i))[1] = Bf!SymDiff(Bf!Code(data)[1], Ones(i))
         /\ Bf!Code(Toggled(data, i))[2] = Bf!SymDiff(Bf!Code(data)[2], Zeros(i))
<1> DEFINE one(d, k) == {j \in d : Bf!BitOf(j, k)}
           zero(d, k) == {j \in d : ~Bf!BitOf(j, k)}
<1>1. \A d : /\ Bf!Code(d)[1] = {k \in Indices : Bf!Odd(one(d, k))}
             /\ Bf!Code(d)[2] = {k \in Indices : Bf!Odd(zero(d, k))}
  BY DEF Bf!Code, Indices
<1>2. \A k : IsFiniteSet(one(data, k)) /\ IsFiniteSet(zero(data, k))  BY BfBitsFinite, FS_Subset
<1>3. ASSUME NEW k \in Indices
      PROVE  /\ Bf!BitOf(i, k) => /\ one(Toggled(data, i), k) = Toggled(one(data, k), i)
                                  /\ zero(Toggled(data, i), k) = zero(data, k)
             /\ ~Bf!BitOf(i, k) => /\ one(Toggled(data, i), k) = one(data, k)
                                   /\ zero(Toggled(data, i), k) = Toggled(zero(data, k), i)
  BY DEF Toggled, Bf!SymDiff
<1> HIDE DEF one, zero
<1>4. ASSUME NEW k \in Indices
      PROVE  /\ Bf!Odd(one(Toggled(data, i), k)) <=> (Bf!Odd(one(data, k)) <=> k \notin Ones(i))
             /\ Bf!Odd(zero(Toggled(data, i), k)) <=> (Bf!Odd(zero(data, k)) <=> k \notin Zeros(i))
  <2>1. /\ Bf!Odd(Toggled(one(data, k), i)) <=> ~Bf!Odd(one(data, k))
        /\ Bf!Odd(Toggled(zero(data, k), i)) <=> ~Bf!Odd(zero(data, k))
    BY <1>2, ParityTurns
  <2>2. (k \in Ones(i) <=> Bf!BitOf(i, k)) /\ (k \in Zeros(i) <=> ~Bf!BitOf(i, k))  BY DEF Ones, Zeros
  <2>3. CASE Bf!BitOf(i, k)  BY <1>3, <2>1, <2>2, <2>3, Zenon
  <2>4. CASE ~Bf!BitOf(i, k)  BY <1>3, <2>1, <2>2, <2>4, Zenon
  <2> QED  BY <2>3, <2>4
<1>5. Ones(i) \subseteq Indices /\ Zeros(i) \subseteq Indices  BY DEF Ones, Zeros
<1>6. \A A, C : Bf!SymDiff(A, C) = (A \ C) \cup (C \ A)  BY DEF Bf!SymDiff
<1>7. {k \in Indices : Bf!Odd(one(Toggled(data, i), k))} = Bf!SymDiff({k \in Indices : Bf!Odd(one(data, k))}, Ones(i))
  BY <1>4, <1>5, <1>6
<1>8. {k \in Indices : Bf!Odd(zero(Toggled(data, i), k))} = Bf!SymDiff({k \in Indices : Bf!Odd(zero(data, k))}, Zeros(i))
  BY <1>4, <1>5, <1>6
<1> QED  BY <1>1, <1>7, <1>8

LEMMA CodeIs == ASSUME NEW d PROVE Bf!Code(d)[1] \in SUBSET Indices /\ Bf!Code(d)[2] \in SUBSET Indices
BY DEF Bf!Code, Indices

\* Each data bit takes part in half of the parities, and two bits not in the same.
LEMMA HalfOfThem ==
  ASSUME K \in Nat, NEW i \in Bf!Bits
  PROVE  /\ Ones(i) \in SUBSET Indices /\ Zeros(i) = Indices \ Ones(i)
         /\ Cardinality(Ones(i)) + Cardinality(Zeros(i)) = K
         /\ \A j \in Bf!Bits : Ones(j) = Ones(i) => j = i
<1>1. Ones(i) \in SUBSET Indices /\ Zeros(i) = Indices \ Ones(i)  BY DEF Ones, Zeros
<1>2. Cardinality(Ones(i)) + Cardinality(Zeros(i)) = K
  <2>1. Indices \cap Ones(i) = Ones(i)  BY <1>1
  <2>2. Cardinality(Indices \ Ones(i)) = Cardinality(Indices) - Cardinality(Indices \cap Ones(i))
    BY IndicesFinite, FS_Difference
  <2>3. Cardinality(Ones(i)) \in Nat /\ Cardinality(Indices) = K  BY <1>1, IndicesFinite
  <2>4. Cardinality(Zeros(i)) = K - Cardinality(Ones(i))  BY <1>1, <2>1, <2>2, <2>3
  <2> QED  BY <2>3, <2>4
<1>3. \A j \in Bf!Bits : Ones(j) = Ones(i) => j = i  BY ValueIs
<1> QED  BY <1>1, <1>2, <1>3

Difference(calced, stored, x, y) ==
  Bf!SymDiff(calced[1], stored[1]) = x /\ Bf!SymDiff(calced[2], stored[2]) = y

LEMMA CorrectedIs ==
  ASSUME NEW data, NEW calced, NEW stored, NEW x, NEW y, Difference(calced, stored, x, y),
         ~Bf!Zero(calced), ~Bf!Zero(stored)
  PROVE  LET outcome == Bf!Corrected(data, calced, stored)
             weight == Cardinality(x) + Cardinality(y) IN
         /\ x = {} /\ y = {} => outcome = <<data, 0>>
         /\ (x # {} \/ y # {}) /\ weight = K /\ Bf!SymDiff(x, y) = Indices => outcome = <<Toggled(data, Bf!Value(x)), 0>>
         /\ (x # {} \/ y # {}) /\ (weight # K \/ Bf!SymDiff(x, y) # Indices) => outcome = <<data, 1>>
<1> DEFINE s0 == <<x, y>>
           weight == Cardinality(s0[1]) + Cardinality(s0[2])
           pairs  == Bf!SymDiff(s0[1], s0[2])
<1>1. Bf!Corrected(data, calced, stored) =
        CASE Bf!Zero(s0) \/ Bf!Zero(calced) \/ Bf!Zero(stored) -> <<data, 0>>
          [] ~Bf!Zero(s0) /\ ~Bf!Zero(calced) /\ ~Bf!Zero(stored) /\ weight = K /\ pairs = 0 .. K - 1 ->
               <<Bf!SymDiff(data, {Bf!Value(s0[1])}), 0>>
          [] OTHER -> <<data, 1>>
  BY BfCount DEF Bf!Corrected, Difference
<1>2. Bf!Zero(s0) <=> x = {} /\ y = {}  BY DEF Bf!Zero, Bf!NoCode
<1>3. s0[1] = x /\ s0[2] = y  OBVIOUS
<1>4. Toggled(data, Bf!Value(x)) = Bf!SymDiff(data, {Bf!Value(x)})  BY DEF Toggled
<1> HIDE DEF s0
<1> QED  BY <1>1, <1>2, <1>3, <1>4 DEF Indices

LEMMA Cancelled == ASSUME NEW C, NEW E, NEW W PROVE
   /\ Bf!SymDiff(Bf!SymDiff(C, E), Bf!SymDiff(C, W)) = Bf!SymDiff(E, W)
   /\ Bf!SymDiff(C, Bf!SymDiff(C, W)) = W
   /\ Bf!SymDiff(Bf!SymDiff(Bf!SymDiff(C, E), W), C) = Bf!SymDiff(E, W)
   /\ Bf!SymDiff(Bf!SymDiff(C, E), C) = E /\ Bf!SymDiff(C, {}) = C
BY DEF Bf!SymDiff

LEMMA TwoBits == ASSUME NEW C, NEW a, NEW b, a # b PROVE
   /\ Bf!SymDiff(C, {a, b}) = Toggled(Toggled(C, a), b)
BY DEF Bf!SymDiff, Toggled

\* One bit of a set of parities more or less
LEMMA WeightTurns ==
  ASSUME K \in Nat, NEW S \in SUBSET Indices, NEW k \in Indices
  PROVE  /\ Toggled(S, k) \in SUBSET Indices
         /\ Cardinality(Toggled(S, k)) \in {Cardinality(S) + 1, Cardinality(S) - 1}
<1>1. IsFiniteSet(S)  BY IndicesFinite
<1>2. CASE k \in S
  <2>1. Toggled(S, k) = S \ {k}  BY <1>2, ToggledIs
  <2> QED  BY <1>1, <1>2, <2>1, FS_RemoveElement
<1>3. CASE k \notin S
  <2>1. Toggled(S, k) = S \cup {k}  BY <1>3, ToggledIs
  <2> QED  BY <1>1, <1>3, <2>1, FS_AddElement
<1> QED  BY <1>2, <1>3

\* A half with its code: written as S, and since then some bits turned.
Turned(S, data, stored, d, x, y) ==
  /\ S \in SUBSET Bf!Bits /\ data = Bf!SymDiff(S, d)
  /\ stored[1] = Bf!SymDiff(Bf!Code(S)[1], x) /\ stored[2] = Bf!SymDiff(Bf!Code(S)[2], y)
  /\ ~Bf!Zero(Bf!Code(data)) /\ ~Bf!Zero(stored)

LEMMA NoneTurned ==
  ASSUME BfConstants, NEW S, NEW data, NEW stored, Turned(S, data, stored, {}, {}, {})
  PROVE  Bf!Corrected(data, Bf!Code(data), stored) = <<data, 0>> /\ data = S
<1>1. data = S  BY Cancelled DEF Turned
<1>2. Difference(Bf!Code(data), stored, {}, {})  BY <1>1, Cancelled DEF Turned, Difference
<1> QED  BY <1>1, <1>2, CorrectedIs DEF Turned

LEMMA OneTurned ==
  ASSUME BfConstants, NEW S, NEW data, NEW stored, NEW i \in Bf!Bits, Turned(S, data, stored, {i}, {}, {})
  PROVE  Bf!Corrected(data, Bf!Code(data), stored) = <<S, 0>>
<1>1. data = Toggled(S, i)  BY DEF Turned, Toggled
<1>2. /\ Bf!Code(data)[1] = Bf!SymDiff(Bf!Code(S)[1], Ones(i))
      /\ Bf!Code(data)[2] = Bf!SymDiff(Bf!Code(S)[2], Zeros(i))
  BY <1>1, CodeTurns DEF BfConstants, Turned
<1>3. Difference(Bf!Code(data), stored, Ones(i), Zeros(i))  BY <1>2, Cancelled DEF Turned, Difference
<1>4. Bf!SymDiff(Ones(i), Zeros(i)) = Indices  BY HalfOfThem DEF BfConstants, Bf!SymDiff
<1>5. Ones(i) # {} \/ Zeros(i) # {}  BY HalfOfThem DEF BfConstants, Indices
<1>6. Cardinality(Ones(i)) + Cardinality(Zeros(i)) = K  BY HalfOfThem DEF BfConstants
<1>7. Bf!Corrected(data, Bf!Code(data), stored) = <<Toggled(data, Bf!Value(Ones(i))), 0>>
  BY <1>3, <1>4, <1>5, <1>6, CorrectedIs DEF Turned
<1>8. Bf!Value(Ones(i)) = i  BY ValueIs DEF BfConstants
<1>9. Toggled(Toggled(S, i), i) = S  BY DEF Toggled, Bf!SymDiff
<1> QED  BY <1>1, <1>7, <1>8, <1>9

LEMMA ParitiesTurned ==
  ASSUME BfConstants, NEW S, NEW data, NEW stored, NEW x \in SUBSET Indices, NEW y \in SUBSET Indices,
         Turned(S, data, stored, {}, x, y), Cardinality(x) + Cardinality(y) \in {1, 2}
  PROVE  Bf!Corrected(data, Bf!Code(data), stored) = <<data, 1>> /\ data = S
<1>1. data = S  BY Cancelled DEF Turned
<1>2. Difference(Bf!Code(data), stored, x, y)  BY <1>1, Cancelled DEF Turned, Difference
<1>3. x # {} \/ y # {}  BY FS_EmptySet
<1>4. Cardinality(x) + Cardinality(y) # K  BY DEF BfConstants
<1> QED  BY <1>1, <1>2, <1>3, <1>4, CorrectedIs DEF Turned

LEMMA TwoTurned ==
  ASSUME BfConstants, NEW S, NEW data, NEW stored, NEW i \in Bf!Bits, NEW j \in Bf!Bits, i # j,
         Turned(S, data, stored, {i, j}, {}, {})
  PROVE  Bf!Corrected(data, Bf!Code(data), stored) = <<data, 1>>
<1> DEFINE x == Bf!SymDiff(Ones(i), Ones(j))
           y == Bf!SymDiff(Zeros(i), Zeros(j))
<1>1. data = Toggled(Toggled(S, i), j) /\ Toggled(S, i) \in SUBSET Bf!Bits
  BY TwoBits DEF Turned, Toggled, Bf!SymDiff
<1>2. /\ Bf!Code(data)[1] = Bf!SymDiff(Bf!SymDiff(Bf!Code(S)[1], Ones(i)), Ones(j))
      /\ Bf!Code(data)[2] = Bf!SymDiff(Bf!SymDiff(Bf!Code(S)[2], Zeros(i)), Zeros(j))
  BY <1>1, CodeTurns DEF BfConstants, Turned
<1>3. Difference(Bf!Code(data), stored, x, y)
  <2>1. stored[1] = Bf!Code(S)[1] /\ stored[2] = Bf!Code(S)[2]  BY Cancelled DEF Turned
  <2> QED  BY <1>2, <2>1, Cancelled DEF Difference
<1>4. Ones(i) # Ones(j)  BY HalfOfThem DEF BfConstants
<1>5. x # {}  BY <1>4 DEF Bf!SymDiff
<1>6. x = y
  <2>1. /\ Ones(i) \in SUBSET Indices /\ Zeros(i) = Indices \ Ones(i)
        /\ Ones(j) \in SUBSET Indices /\ Zeros(j) = Indices \ Ones(j)
    BY HalfOfThem DEF BfConstants
  <2> QED  BY <2>1 DEF Bf!SymDiff
<1>7. Bf!SymDiff(x, y) # Indices
  <2>1. Bf!SymDiff(x, y) = {}  BY <1>6 DEF Bf!SymDiff
  <2>2. 0 \in Indices  BY DEF BfConstants, Indices
  <2> QED  BY <2>1, <2>2
<1> HIDE DEF x, y
<1> QED  BY <1>3, <1>5, <1>7, CorrectedIs DEF Turned

LEMMA BothTurned ==
  ASSUME BfConstants, NEW S, NEW data, NEW stored, NEW i \in Bf!Bits, NEW k \in Indices,
         Turned(S, data, stored, {i}, {k}, {}) \/ Turned(S, data, stored, {i}, {}, {k})
  PROVE  Bf!Corrected(data, Bf!Code(data), stored) = <<data, 1>>
<1>0. K \in Nat /\ K > 2  BY DEF BfConstants
<1>1. data = Toggled(S, i) /\ S \in SUBSET Bf!Bits  BY DEF Turned, Toggled
<1>2. /\ Bf!Code(data)[1] = Bf!SymDiff(Bf!Code(S)[1], Ones(i))
      /\ Bf!Code(data)[2] = Bf!SymDiff(Bf!Code(S)[2], Zeros(i))
  BY <1>0, <1>1, CodeTurns
<1>3. /\ Ones(i) \in SUBSET Indices /\ Zeros(i) \in SUBSET Indices
      /\ Cardinality(Ones(i)) + Cardinality(Zeros(i)) = K
  BY <1>0, HalfOfThem
<1>4. Cardinality(Ones(i)) \in Nat /\ Cardinality(Zeros(i)) \in Nat  BY <1>0, <1>3, IndicesFinite
<1>5. PICK x \in SUBSET Indices, y \in SUBSET Indices :
        Difference(Bf!Code(data), stored, x, y) /\ Cardinality(x) + Cardinality(y) \in {K + 1, K - 1}
  <2>1. CASE Turned(S, data, stored, {i}, {k}, {})
    <3>1. Difference(Bf!Code(data), stored, Toggled(Ones(i), k), Zeros(i))
      BY <1>2, <2>1, Cancelled DEF Turned, Difference, Toggled
    <3>2. /\ Toggled(Ones(i), k) \in SUBSET Indices
          /\ Cardinality(Toggled(Ones(i), k)) \in {Cardinality(Ones(i)) + 1, Cardinality(Ones(i)) - 1}
      BY <1>0, <1>3, WeightTurns
    <3>3. Cardinality(Toggled(Ones(i), k)) + Cardinality(Zeros(i)) \in {K + 1, K - 1}  BY <1>3, <1>4, <3>2
    <3> QED  BY <1>3, <3>1, <3>2, <3>3
  <2>2. CASE Turned(S, data, stored, {i}, {}, {k})
    <3>1. Difference(Bf!Code(data), stored, Ones(i), Toggled(Zeros(i), k))
      BY <1>2, <2>2, Cancelled DEF Turned, Difference, Toggled
    <3>2. /\ Toggled(Zeros(i), k) \in SUBSET Indices
          /\ Cardinality(Toggled(Zeros(i), k)) \in {Cardinality(Zeros(i)) + 1, Cardinality(Zeros(i)) - 1}
      BY <1>0, <1>3, WeightTurns
    <3>3. Cardinality(Ones(i)) + Cardinality(Toggled(Zeros(i), k)) \in {K + 1, K - 1}  BY <1>3, <1>4, <3>2
    <3> QED  BY <1>3, <3>1, <3>2, <3>3
  <2> QED  BY <2>1, <2>2
<1>6. Cardinality(x) + Cardinality(y) # K /\ (x # {} \/ y # {})
  <2>1. Cardinality(x) + Cardinality(y) # K /\ Cardinality(x) + Cardinality(y) # 0  BY <1>0, <1>5
  <2> QED  BY <2>1, FS_EmptySet
<1>7. ~Bf!Zero(Bf!Code(data)) /\ ~Bf!Zero(stored)  BY DEF Turned
<1> QED  BY <1>5, <1>6, <1>7, CorrectedIs

\* The bits of half h that turned: of the data, or of one part of the code
Wrong(h, p) == {b \in Bf!Bits : [half |-> h, place |-> p, bit |-> b] \in flips}

BfTypes ==
  /\ section \in Seq(SUBSET Bf!Bits)
  /\ bf_chip \in [Bf!Halves -> SUBSET Bf!Bits] /\ buf \in [Bf!Halves -> SUBSET Bf!Bits]
  /\ oob \in [Bf!Halves -> Parity] /\ calc \in [Bf!Halves -> Parity] /\ bf_regs \in [Bf!Halves -> Parity]
  /\ flips \in SUBSET Bf!Places /\ IsFiniteSet(flips) /\ Cardinality(flips) <= 2
  /\ \A f \in flips : \A g \in flips : f.half = g.half
  /\ dma \in {"off", "on", "interrupt"} /\ (dma # "off" => completion = 0)
  /\ Bf!TypeOK

\* What was written, but for the bits that turned
Aged ==
  \A h \in Bf!Halves :
    /\ bf_chip[h] = Bf!SymDiff(section[h], Wrong(h, 0))
    /\ \A p \in 1 .. 2 : oob[h][p] = Bf!SymDiff(Bf!Code(section[h])[p], Wrong(h, p))

\* The registers hold the code of what the transfer moved, the buffer and the
\* chip hold the same once it has ended, and only bits that turned tell what is
\* read from what was written.
BfInv ==
  /\ BfTypes
  /\ dma = "on" => bf_regs = [h \in Bf!Halves |-> Bf!NoCode]
  /\ bf_at \in {"probe", "write", "writing"} => flips = {}
  /\ bf_at = "writing" => buf = section
  /\ bf_at = "writing" /\ dma # "on" => bf_chip = section /\ bf_regs = Bf!Codes(section)
  /\ bf_at = "reading" /\ dma # "on" => buf = bf_chip /\ bf_regs = Bf!Codes(bf_chip)
  /\ bf_at = "correct" => buf = bf_chip /\ calc = Bf!Codes(bf_chip)
  /\ bf_at \in {"age", "read", "reading", "correct"} => Aged
  /\ Bf!OneBitCorrected

LEMMA NoCodeIs == Bf!NoCode \in Parity /\ Bf!NoCode[1] = {} /\ Bf!NoCode[2] = {}
<1>1. Bf!NoCode = [c \in 1 .. 2 |-> {}]  BY DEF Bf!NoCode
<1> QED  BY <1>1 DEF Parity

LEMMA CodeIsParity == ASSUME NEW d PROVE Bf!Code(d) \in Parity
<1> DEFINE x == Bf!Code(d)[1]
           y == Bf!Code(d)[2]
<1>1. Bf!Code(d) = <<x, y>>  BY DEF Bf!Code
<1>2. x \in SUBSET Indices /\ y \in SUBSET Indices  BY CodeIs
<1> HIDE DEF x, y
<1>3. <<x, y>> \in [1 .. 2 -> SUBSET Indices]  BY <1>2
<1> QED  BY <1>1, <1>3 DEF Parity

LEMMA BfInit == ASSUME BfConstants, Bf!Init PROVE BfInv
<1>1. section \in Seq(SUBSET Bf!Bits)  BY DEF Bf!Init, BfConstants
<1>2. /\ bf_chip \in [Bf!Halves -> SUBSET Bf!Bits] /\ buf \in [Bf!Halves -> SUBSET Bf!Bits]
      /\ oob \in [Bf!Halves -> Parity] /\ calc \in [Bf!Halves -> Parity] /\ bf_regs \in [Bf!Halves -> Parity]
  <2>1. /\ bf_chip = [h \in Bf!Halves |-> {}] /\ oob = [h \in Bf!Halves |-> Bf!NoCode]
        /\ buf = bf_chip /\ calc = oob /\ bf_regs = oob
    BY DEF Bf!Init
  <2>2. bf_chip \in [Bf!Halves -> SUBSET Bf!Bits] /\ oob \in [Bf!Halves -> Parity]  BY <2>1, NoCodeIs
  <2> QED  BY <2>1, <2>2
<1>3. flips = {} /\ IsFiniteSet(flips) /\ Cardinality(flips) = 0  BY FS_EmptySet DEF Bf!Init
<1>4. dma = "off" /\ completion = 0 /\ ret = 0 /\ bf_held = {} /\ bf_at = "probe"  BY DEF Bf!Init
<1>5. Bf!TypeOK
  <2>1. \A h \in Bf!Halves : buf[h] \subseteq Bf!Bits /\ bf_chip[h] \subseteq Bf!Bits  BY <1>2
  <2> QED  BY <1>4, <2>1 DEF Bf!TypeOK
<1>6. BfTypes  BY <1>1, <1>2, <1>3, <1>4, <1>5 DEF BfTypes
<1> QED  BY <1>3, <1>4, <1>6 DEF BfInv, Bf!OneBitCorrected

LEMMA SectionIs ==
  ASSUME section \in Seq(SUBSET Bf!Bits)
  PROVE  section \in [Bf!Halves -> SUBSET Bf!Bits]
BY DEF Bf!Halves

\* No step changes what was written.
LEMMA BfSame ==
  ASSUME section' = section
  PROVE  /\ Bf!Halves' = Bf!Halves /\ Bf!Places' = Bf!Places
         /\ Bf!Codes(section)' = Bf!Codes(section) /\ Bf!Codes(bf_chip)' = Bf!Codes(bf_chip')
<1>1. Bf!Halves' = Bf!Halves  BY DEF Bf!Halves
<1>2. Bf!Places' = Bf!Places  BY <1>1 DEF Bf!Places, Bf!Bits
<1>3. Bf!Codes(section)' = Bf!Codes(section')  BY DEF Bf!Codes, Bf!Code, Bf!Odd, Bf!BitOf
<1>4. Bf!Codes(bf_chip)' = Bf!Codes(bf_chip')  BY DEF Bf!Codes, Bf!Code, Bf!Odd, Bf!BitOf
<1> QED  BY <1>1, <1>2, <1>3, <1>4

LEMMA BfKept ==
  ASSUME Aged, section' = section, bf_chip' = bf_chip, oob' = oob, flips' = flips
  PROVE  Aged'
<1>1. Bf!Halves' = Bf!Halves  BY DEF Bf!Halves
<1>2. \A h, p : Wrong(h, p)' = Wrong(h, p)  BY DEF Wrong, Bf!Bits
<1>3. \A h, p : Bf!Code(section[h])[p]' = Bf!Code(section[h])[p]  BY DEF Bf!Code, Bf!Odd, Bf!BitOf
<1>4. ASSUME NEW h \in Bf!Halves PROVE bf_chip'[h] = Bf!SymDiff(section'[h], Wrong(h, 0)')
  BY <1>2, <1>4 DEF Aged
<1>5. ASSUME NEW h \in Bf!Halves, NEW p \in 1 .. 2
      PROVE  oob'[h][p] = Bf!SymDiff(Bf!Code(section[h])[p]', Wrong(h, p)')
  BY <1>2, <1>3, <1>5 DEF Aged
<1> QED  BY <1>1, <1>4, <1>5 DEF Aged, Bf!SymDiff

LEMMA BfProbe == ASSUME BfConstants, BfInv, Bf!Probe PROVE BfInv'
<1> USE DEF Bf!Probe, Bf!pageVars, Bf!readVars, Bf!dmaVars
<1>1. Bf!Halves' = Bf!Halves /\ Bf!Places' = Bf!Places  BY BfSame
<1>2. bf_at' \notin {"writing", "reading", "correct", "age", "read", "end"}  OBVIOUS
<1>3. Bf!TypeOK'  BY <1>1, <1>2 DEF BfInv, BfTypes, Bf!TypeOK
<1>4. BfTypes'  BY <1>1, <1>3 DEF BfInv, BfTypes
<1>5. Bf!OneBitCorrected'  BY <1>2 DEF Bf!OneBitCorrected
<1> QED  BY <1>1, <1>2, <1>4, <1>5 DEF BfInv

LEMMA BfRemove == ASSUME BfConstants, BfInv, Bf!PlatformRemove PROVE BfInv'
<1> USE DEF Bf!PlatformRemove, Bf!pageVars, Bf!readVars, Bf!dmaVars
<1>1. Bf!Halves' = Bf!Halves /\ Bf!Places' = Bf!Places  BY BfSame
<1>3. Bf!TypeOK'  BY <1>1 DEF BfInv, BfTypes, Bf!TypeOK
<1>4. BfTypes'  BY <1>1, <1>3 DEF BfInv, BfTypes
<1>5. Bf!OneBitCorrected'  BY DEF Bf!OneBitCorrected
<1> QED  BY <1>1, <1>4, <1>5 DEF BfInv

LEMMA BfDmaRw == ASSUME BfConstants, BfInv, Bf!DmaRw PROVE BfInv'
<1> USE DEF Bf!DmaRw, Bf!pageVars
<1>1. /\ Bf!Halves' = Bf!Halves /\ Bf!Places' = Bf!Places
      /\ section' = section /\ DOMAIN section = Bf!Halves
  BY BfSame DEF Bf!Halves
<1>2. bf_at' \in {"writing", "reading"} /\ dma' = "on" /\ completion' = completion /\ completion = 0 /\ flips' = flips
  BY DEF BfInv, BfTypes, Bf!TypeOK
<1>3. bf_regs' = [h \in Bf!Halves |-> Bf!NoCode]  BY DEF Bf!Reset, BfInv, BfTypes
<1>4. bf_regs' \in [Bf!Halves -> Parity]  BY <1>3, NoCodeIs
<1>5. section \in [Bf!Halves -> SUBSET Bf!Bits]
  <2>1. section \in Seq(SUBSET Bf!Bits)  BY DEF BfInv, BfTypes
  <2> QED  BY <2>1 DEF Bf!Halves
<1>6. buf' \in [Bf!Halves -> SUBSET Bf!Bits]  BY <1>5 DEF BfInv, BfTypes
<1>7. Bf!TypeOK'  BY <1>1, <1>2, <1>6 DEF BfInv, BfTypes, Bf!TypeOK
<1>8. BfTypes'  BY <1>1, <1>2, <1>4, <1>6, <1>7 DEF BfInv, BfTypes
<1>9. bf_at' = "writing" => buf' = section /\ flips = {}  BY DEF BfInv
<1>10. bf_at' = "reading" => Aged'  BY BfKept DEF BfInv
<1>11. Bf!OneBitCorrected'  BY <1>2 DEF Bf!OneBitCorrected
<1> QED  BY <1>1, <1>2, <1>3, <1>8, <1>9, <1>10, <1>11 DEF BfInv

\* What was nothing is the code of the data that went by.
LEMMA BfAccumulated ==
  ASSUME NEW data, bf_regs = [h \in Bf!Halves |-> Bf!NoCode], DOMAIN data = Bf!Halves
  PROVE  Bf!Accumulated(data) = Bf!Codes(data)
<1>1. ASSUME NEW h \in Bf!Halves
      PROVE  <<Bf!SymDiff(bf_regs[h][1], Bf!Code(data[h])[1]), Bf!SymDiff(bf_regs[h][2], Bf!Code(data[h])[2])>> =
               Bf!Code(data[h])
  <2> DEFINE x == Bf!Code(data[h])[1]
             y == Bf!Code(data[h])[2]
  <2>1. Bf!Code(data[h]) = <<x, y>>  BY DEF Bf!Code
  <2> HIDE DEF x, y
  <2>2. bf_regs[h][1] = {} /\ bf_regs[h][2] = {}  BY NoCodeIs
  <2>3. Bf!SymDiff({}, x) = x /\ Bf!SymDiff({}, y) = y  BY DEF Bf!SymDiff
  <2> QED  BY <2>1, <2>2, <2>3 DEF x, y
<1> QED  BY <1>1 DEF Bf!Accumulated, Bf!Codes

LEMMA CodesAre ==
  ASSUME NEW data, DOMAIN data = Bf!Halves
  PROVE  Bf!Codes(data) \in [Bf!Halves -> Parity]
BY CodeIsParity DEF Bf!Codes

LEMMA BfTransfer == ASSUME BfConstants, BfInv, Bf!Transfer PROVE BfInv'
<1> USE DEF Bf!Transfer
<1>1. /\ Bf!Halves' = Bf!Halves /\ Bf!Places' = Bf!Places
      /\ section' = section /\ DOMAIN section = Bf!Halves
  BY BfSame DEF Bf!Halves
<1>2. /\ dma = "on" /\ dma' = "interrupt" /\ completion' = 0 /\ flips' = flips /\ bf_at' = bf_at
      /\ bf_at \in {"writing", "reading"}
  BY DEF BfInv, BfTypes, Bf!TypeOK
<1> DEFINE data == IF bf_at = "writing" THEN buf ELSE bf_chip
<1>3. DOMAIN data = Bf!Halves  BY DEF BfInv, BfTypes
<1>4. bf_regs' = Bf!Codes(data) /\ bf_regs' \in [Bf!Halves -> Parity]
  BY <1>2, <1>3, BfAccumulated, CodesAre DEF BfInv
<1>5. bf_chip' \in [Bf!Halves -> SUBSET Bf!Bits] /\ buf' \in [Bf!Halves -> SUBSET Bf!Bits]
  BY DEF BfInv, BfTypes
<1>6. Bf!TypeOK'  BY <1>1, <1>2, <1>5 DEF BfInv, BfTypes, Bf!TypeOK
<1>7. BfTypes'  BY <1>1, <1>2, <1>4, <1>5, <1>6 DEF BfInv, BfTypes
<1>8. bf_at' = "writing" => buf' = section' /\ bf_chip' = section' /\ bf_regs' = Bf!Codes(section') /\ flips' = {}
  BY <1>2, <1>4 DEF BfInv
<1>9. bf_at' = "reading" => buf' = bf_chip' /\ bf_regs' = Bf!Codes(bf_chip')  BY <1>2, <1>4
<1>10. bf_at' = "reading" => Aged'  BY <1>2, BfKept DEF BfInv
<1>11. Bf!OneBitCorrected'  BY <1>2 DEF Bf!OneBitCorrected
<1>12. Bf!Codes(section)' = Bf!Codes(section') /\ Bf!Codes(bf_chip)' = Bf!Codes(bf_chip')  BY <1>1, BfSame
<1> HIDE DEF Bf!Transfer
<1> QED  BY <1>1, <1>2, <1>7, <1>8, <1>9, <1>10, <1>11, <1>12 DEF BfInv

LEMMA BfDmaIrq == ASSUME BfConstants, BfInv, Bf!DmaIrq PROVE BfInv'
<1> USE DEF Bf!DmaIrq, Bf!pageVars, Bf!readVars
<1>1. Bf!Halves' = Bf!Halves /\ Bf!Places' = Bf!Places /\ section' = section  BY BfSame
<1>2. dma = "interrupt" /\ completion = 0 /\ bf_at' = bf_at /\ bf_at \in {"writing", "reading"}
  BY DEF BfInv, BfTypes, Bf!TypeOK
<1>3. dma' = "off" /\ completion' = 1  BY <1>2
<1>4. Bf!TypeOK'  BY <1>1, <1>2, <1>3 DEF BfInv, BfTypes, Bf!TypeOK
<1>5. BfTypes'  BY <1>1, <1>2, <1>3, <1>4 DEF BfInv, BfTypes
<1>6. bf_at' = "reading" => Aged'  BY <1>2, BfKept DEF BfInv
<1>7. Bf!OneBitCorrected'  BY <1>2 DEF Bf!OneBitCorrected
<1>8. Bf!Codes(section)' = Bf!Codes(section) /\ Bf!Codes(bf_chip)' = Bf!Codes(bf_chip)  BY BfSame
<1> QED  BY <1>1, <1>2, <1>3, <1>5, <1>6, <1>7, <1>8 DEF BfInv

LEMMA BfCalculateEcc == ASSUME BfConstants, BfInv, Bf!CalculateEcc PROVE BfInv'
<1> USE DEF Bf!CalculateEcc
<1>1. /\ Bf!Halves' = Bf!Halves /\ Bf!Places' = Bf!Places /\ section' = section /\ DOMAIN section = Bf!Halves
      /\ Bf!Codes(bf_chip)' = Bf!Codes(bf_chip')
  BY BfSame DEF Bf!Halves
<1>2. /\ completion > 0 /\ completion \in 0 .. 1 /\ dma = "off" /\ dma' = dma
      /\ bf_chip' = bf_chip /\ buf' = buf /\ bf_regs' = bf_regs /\ ret' = ret /\ bf_held' = bf_held
      /\ flips' = flips
  BY DEF Bf!Waited, BfInv, BfTypes, Bf!TypeOK
<1>3. completion' = 0  BY <1>2
<1>4. bf_at' \in {"age", "correct"} /\ bf_at \in {"writing", "reading"}  BY DEF Bf!CalculateEcc
<1>5. oob' \in [Bf!Halves -> Parity] /\ calc' \in [Bf!Halves -> Parity]  BY DEF BfInv, BfTypes
<1>6. Bf!TypeOK'  BY <1>1, <1>2, <1>3 DEF BfInv, BfTypes, Bf!TypeOK
<1>7. BfTypes'  BY <1>1, <1>2, <1>3, <1>5, <1>6 DEF BfInv, BfTypes
<1>8. bf_at = "writing" => Aged'
  <2> SUFFICES ASSUME bf_at = "writing" PROVE Aged'  OBVIOUS
  <2>1. bf_chip' = section /\ oob' = Bf!Codes(section) /\ flips' = {} /\ section' = section
    BY <1>2 DEF BfInv
  <2>2. \A h, p : Wrong(h, p)' = {}  BY <2>1 DEF Wrong
  <2>3. \A h, p : Bf!Code(section[h])[p]' = Bf!Code(section[h])[p]  BY <2>1 DEF Bf!Code, Bf!Odd, Bf!BitOf
  <2>4. \A h \in Bf!Halves : bf_chip'[h] = Bf!SymDiff(section'[h], {})  BY <2>1, Cancelled
  <2>5. \A h \in Bf!Halves : \A p \in 1 .. 2 : oob'[h][p] = Bf!SymDiff(Bf!Code(section[h])[p], {})
    <3>1. \A h \in Bf!Halves : oob'[h] = Bf!Code(section[h])  BY <2>1 DEF Bf!Codes, Bf!Halves
    <3> QED  BY <3>1, Cancelled
  <2> QED  BY <1>1, <2>2, <2>3, <2>4, <2>5 DEF Aged, Bf!SymDiff
<1>9. bf_at = "reading" => Aged' /\ buf' = bf_chip' /\ calc' = Bf!Codes(bf_chip') /\ bf_at' = "correct"
  <2> SUFFICES ASSUME bf_at = "reading" PROVE Aged' /\ buf' = bf_chip' /\ calc' = Bf!Codes(bf_chip') /\ bf_at' = "correct"
    OBVIOUS
  <2>1. oob' = oob /\ Aged  BY DEF BfInv
  <2>2. Aged'  BY <1>1, <1>2, <2>1, BfKept
  <2> QED  BY <1>2, <2>2 DEF BfInv
<1>10. Bf!OneBitCorrected'  BY <1>4 DEF Bf!OneBitCorrected
<1>11. bf_at = "writing" => bf_at' = "age"  OBVIOUS
<1> HIDE DEF Bf!CalculateEcc
<1> QED  BY <1>1, <1>2, <1>3, <1>4, <1>7, <1>8, <1>9, <1>10, <1>11 DEF BfInv

LEMMA BfWriteRaw == ASSUME BfConstants, BfInv, Bf!WritePageRaw PROVE BfInv'
<1> USE DEF Bf!WritePageRaw, Bf!readVars, Bf!dmaVars
<1>1. Bf!Halves' = Bf!Halves /\ Bf!Places' = Bf!Places /\ DOMAIN section = Bf!Halves  BY BfSame DEF Bf!Halves
<1>2. bf_chip' \in [Bf!Halves -> SUBSET Bf!Bits]
  <2>1. section \in Seq(SUBSET Bf!Bits) /\ bf_chip' = section  BY DEF BfInv, BfTypes
  <2>2. section \in [Bf!Halves -> SUBSET Bf!Bits]  BY <2>1, SectionIs
  <2> QED  BY <2>1, <2>2
<1>3. Bf!TypeOK'  BY <1>1, <1>2 DEF BfInv, BfTypes, Bf!TypeOK
<1>4. BfTypes'  BY <1>1, <1>2, <1>3 DEF BfInv, BfTypes
<1>5. Bf!OneBitCorrected'  BY DEF Bf!OneBitCorrected
<1> QED  BY <1>1, <1>4, <1>5 DEF BfInv, BfTypes, Bf!TypeOK

LEMMA BfReadRaw == ASSUME BfConstants, BfInv, Bf!ReadPageRaw PROVE BfInv'
<1> USE DEF Bf!ReadPageRaw, Bf!pageVars, Bf!dmaVars
<1>1. Bf!Halves' = Bf!Halves /\ Bf!Places' = Bf!Places  BY BfSame
<1>3. Bf!TypeOK'  BY <1>1 DEF BfInv, BfTypes, Bf!TypeOK
<1>4. BfTypes'  BY <1>1, <1>3 DEF BfInv, BfTypes
<1>5. Bf!OneBitCorrected'  BY DEF Bf!OneBitCorrected
<1> QED  BY <1>1, <1>4, <1>5 DEF BfInv, BfTypes, Bf!TypeOK

LEMMA BfReadPage == ASSUME BfConstants, BfInv, Bf!ReadPage PROVE BfInv'
<1> USE DEF Bf!ReadPage, Bf!pageVars, Bf!readVars, Bf!dmaVars
<1>1. Bf!Halves' = Bf!Halves /\ Bf!Places' = Bf!Places  BY BfSame
<1>3. Bf!TypeOK'  BY <1>1 DEF BfInv, BfTypes, Bf!TypeOK
<1>4. BfTypes'  BY <1>1, <1>3 DEF BfInv, BfTypes
<1>5. Aged'  BY BfKept DEF BfInv
<1>6. Bf!OneBitCorrected'  BY DEF Bf!OneBitCorrected
<1> QED  BY <1>1, <1>4, <1>5, <1>6 DEF BfInv, BfTypes, Bf!TypeOK

\* One more bit of what differs
LEMMA OneMore ==
  ASSUME NEW A, NEW W, NEW b, b \notin W
  PROVE  Bf!SymDiff(Bf!SymDiff(A, W), {b}) = Bf!SymDiff(A, W \cup {b})
BY DEF Bf!SymDiff

LEMMA BfAge == ASSUME BfConstants, BfInv, Bf!Age PROVE BfInv'
<1>1. /\ bf_at = "age" /\ bf_at' = "age" /\ Cardinality(flips) < 2 /\ section' = section /\ buf' = buf
      /\ calc' = calc /\ ret' = ret /\ bf_regs' = bf_regs /\ dma' = dma /\ completion' = completion
      /\ bf_held' = bf_held
  BY BfCount DEF Bf!Age, Bf!readVars, Bf!dmaVars
<1>2. PICK f \in Bf!Places \ flips :
        (\A g \in flips : g.half = f.half) /\ Bf!Flip(f) /\ flips' = flips \cup {f}
  BY DEF Bf!Age
<1>3. f \in [half : Bf!Halves, place : 0 .. 2, bit : Bf!Bits] /\ (f.place > 0 => f.bit < K)
  BY <1>2 DEF Bf!Places
<1> DEFINE h == f.half
           p == f.place
           b == f.bit
<1>4. h \in Bf!Halves /\ p \in 0 .. 2 /\ b \in Bf!Bits /\ b \in Nat /\ (p > 0 => b \in Indices)
  <2>1. b \in Nat  BY <1>3 DEF Bf!Bits
  <2>2. b < K => b \in Indices  BY <2>1 DEF Indices, BfConstants
  <2> QED  BY <1>3, <2>1, <2>2
<1>5. f = [half |-> h, place |-> p, bit |-> b]  BY <1>3
<1>6. Bf!Halves' = Bf!Halves /\ Bf!Places' = Bf!Places /\ BfTypes  BY <1>1, BfSame DEF BfInv
<1>7. bf_chip' = [bf_chip EXCEPT ![h] = IF p = 0 THEN Bf!SymDiff(bf_chip[h], {b}) ELSE bf_chip[h]]
  BY <1>2 DEF Bf!Flip
<1>8. oob' = [oob EXCEPT ![h] = [j \in 1 .. 2 |-> IF p = j THEN Bf!SymDiff(oob[h][j], {b}) ELSE oob[h][j]]]
  BY <1>2 DEF Bf!Flip
<1>9. bf_chip' \in [Bf!Halves -> SUBSET Bf!Bits]
  <2>1. bf_chip \in [Bf!Halves -> SUBSET Bf!Bits]  BY <1>6 DEF BfTypes
  <2>2. Bf!SymDiff(bf_chip[h], {b}) \in SUBSET Bf!Bits  BY <1>4, <2>1 DEF Bf!SymDiff
  <2> HIDE DEF h, p, b
  <2> QED  BY <1>4, <1>7, <2>1, <2>2
<1>10. oob' \in [Bf!Halves -> Parity]
  <2>1. oob \in [Bf!Halves -> Parity] /\ oob[h] \in Parity  BY <1>4, <1>6 DEF BfTypes
  <2> DEFINE o == [j \in 1 .. 2 |-> IF p = j THEN Bf!SymDiff(oob[h][j], {b}) ELSE oob[h][j]]
  <2>2. \A j \in 1 .. 2 : p = j => Bf!SymDiff(oob[h][j], {b}) \in SUBSET Indices
    BY <1>4, <2>1 DEF Parity, Bf!SymDiff
  <2>3. o \in Parity  BY <2>1, <2>2 DEF Parity
  <2> HIDE DEF h, p, b, o
  <2> QED  BY <1>4, <1>8, <2>1, <2>3 DEF o
<1>11. IsFiniteSet(flips') /\ Cardinality(flips') <= 2
  <2>1. IsFiniteSet(flips) /\ Cardinality(flips) \in Nat  BY <1>6, FS_CardinalityType DEF BfTypes
  <2>2. Cardinality(flips') = Cardinality(flips) + 1 /\ IsFiniteSet(flips')  BY <1>2, <2>1, FS_AddElement
  <2> QED  BY <1>1, <2>1, <2>2
<1>12. flips' \in SUBSET Bf!Places /\ \A g \in flips' : g.half = h  BY <1>2, <1>6 DEF BfTypes
<1>13. Bf!TypeOK'
  <2>1. /\ completion \in 0 .. 1 /\ completion = 0 /\ dma = "off"
        /\ ret \in {0, 1} /\ bf_held \subseteq {"pins", "info", "dma", "mtd"}
    BY <1>1, <1>6 DEF BfTypes, Bf!TypeOK
  <2>2. \A k \in Bf!Halves : buf[k] \subseteq Bf!Bits /\ bf_chip'[k] \subseteq Bf!Bits
    BY <1>6, <1>9 DEF BfTypes
  <2>3. Bf!Bits' = Bf!Bits  BY DEF Bf!Bits
  <2> QED  BY <1>1, <1>6, <2>1, <2>2, <2>3 DEF Bf!TypeOK
<1>14. BfTypes'
  BY <1>1, <1>6, <1>9, <1>10, <1>11, <1>12, <1>13 DEF BfTypes
<1>15. Aged'
  <2>1. Aged  BY <1>1 DEF BfInv
  <2>2. ASSUME NEW k, NEW q
        PROVE  Wrong(k, q)' = IF k = h /\ q = p THEN Wrong(k, q) \cup {b} ELSE Wrong(k, q)
    <3>1. \A c : [half |-> k, place |-> q, bit |-> c] = f <=> k = h /\ q = p /\ c = b  BY <1>3, <1>5
    <3>2. Bf!Bits' = Bf!Bits  BY DEF Bf!Bits
    <3> HIDE DEF h, p, b
    <3>3. Wrong(k, q)' = {c \in Bf!Bits : [half |-> k, place |-> q, bit |-> c] \in flips \/ (k = h /\ q = p /\ c = b)}
      BY <1>2, <3>1, <3>2 DEF Wrong
    <3> QED  BY <1>4, <3>3 DEF Wrong
  <2>3. b \notin Wrong(h, p)  BY <1>2, <1>5 DEF Wrong
  <2>4. \A k, q : Bf!Code(section[k])[q]' = Bf!Code(section[k])[q]  BY <1>1 DEF Bf!Code, Bf!Odd, Bf!BitOf
  <2>5. ASSUME NEW k \in Bf!Halves PROVE bf_chip'[k] = Bf!SymDiff(section[k], Wrong(k, 0)')
    <3>0. bf_chip \in [Bf!Halves -> SUBSET Bf!Bits]  BY <1>6 DEF BfTypes
    <3>1. bf_chip[k] = Bf!SymDiff(section[k], Wrong(k, 0))  BY <2>1 DEF Aged
    <3>2. CASE k = h /\ p = 0
      <4>1. bf_chip'[k] = Bf!SymDiff(bf_chip[k], {b})  BY <1>7, <3>0, <3>2
      <4>2. Wrong(k, 0)' = Wrong(k, 0) \cup {b} /\ b \notin Wrong(k, 0)  BY <2>2, <2>3, <3>2
      <4> QED  BY <3>1, <4>1, <4>2, OneMore
    <3>3. CASE ~(k = h /\ p = 0)
      <4>1. bf_chip'[k] = bf_chip[k]  BY <1>7, <3>0, <3>3
      <4>2. Wrong(k, 0)' = Wrong(k, 0)  BY <2>2, <3>3
      <4> QED  BY <3>1, <4>1, <4>2
    <3> QED  BY <3>2, <3>3
  <2>6. ASSUME NEW k \in Bf!Halves, NEW q \in 1 .. 2
        PROVE  oob'[k][q] = Bf!SymDiff(Bf!Code(section[k])[q], Wrong(k, q)')
    <3>0. oob \in [Bf!Halves -> Parity]  BY <1>6 DEF BfTypes
    <3>1. oob[k][q] = Bf!SymDiff(Bf!Code(section[k])[q], Wrong(k, q))  BY <2>1 DEF Aged
    <3>2. CASE k = h /\ p = q
      <4>1. oob'[k][q] = Bf!SymDiff(oob[k][q], {b})  BY <1>8, <3>0, <3>2
      <4>2. Wrong(k, q)' = Wrong(k, q) \cup {b} /\ b \notin Wrong(k, q)  BY <2>2, <2>3, <3>2
      <4> QED  BY <3>1, <4>1, <4>2, OneMore
    <3>3. CASE ~(k = h /\ p = q)
      <4>1. oob'[k][q] = oob[k][q]  BY <1>8, <3>0, <3>3
      <4>2. Wrong(k, q)' = Wrong(k, q)  BY <2>2, <3>3
      <4> QED  BY <3>1, <4>1, <4>2
    <3> QED  BY <3>2, <3>3
  <2> QED  BY <1>1, <1>6, <2>4, <2>5, <2>6 DEF Aged, Bf!SymDiff
<1>16. Bf!OneBitCorrected'  BY <1>1 DEF Bf!OneBitCorrected
<1>17. dma = "off"  BY <1>1, <1>6 DEF BfTypes, Bf!TypeOK
<1> QED  BY <1>1, <1>14, <1>15, <1>16, <1>17 DEF BfInv

LegibleHalf(h) == ~Bf!Zero(calc[h]) /\ ~Bf!Zero(oob[h])

\* What came of each half, by what turned
LEMMA BfHalves ==
  ASSUME BfConstants, BfInv, bf_at = "correct", NEW h \in Bf!Halves, LegibleHalf(h)
  PROVE  /\ Turned(section[h], bf_chip[h], oob[h], Wrong(h, 0), Wrong(h, 1), Wrong(h, 2))
         /\ calc[h] = Bf!Code(bf_chip[h]) /\ buf[h] = bf_chip[h]
<1>1. BfTypes /\ Aged /\ buf = bf_chip /\ calc = Bf!Codes(bf_chip)  BY DEF BfInv
<1>2. calc[h] = Bf!Code(bf_chip[h])  BY <1>1 DEF Bf!Codes, BfTypes
<1>3. section[h] \in SUBSET Bf!Bits
  <2>1. section \in Seq(SUBSET Bf!Bits)  BY <1>1 DEF BfTypes
  <2>2. section \in [Bf!Halves -> SUBSET Bf!Bits]  BY <2>1 DEF Bf!Halves
  <2> QED  BY <2>2
<1>4. /\ bf_chip[h] = Bf!SymDiff(section[h], Wrong(h, 0))
      /\ \A p \in 1 .. 2 : oob[h][p] = Bf!SymDiff(Bf!Code(section[h])[p], Wrong(h, p))
  BY <1>1 DEF Aged
<1>5. ~Bf!Zero(calc[h]) /\ ~Bf!Zero(oob[h])  BY DEF LegibleHalf
<1> QED  BY <1>1, <1>2, <1>3, <1>4, <1>5 DEF Turned

\* What the flips say of one half
LEMMA WrongNone == ASSUME NEW h, \A f \in flips : f.half # h PROVE \A p : Wrong(h, p) = {}
BY DEF Wrong

LEMMA WrongOne ==
  ASSUME BfTypes, NEW f, flips = {f}
  PROVE  /\ f.half \in Bf!Halves /\ f.place \in 0 .. 2 /\ f.bit \in Bf!Bits /\ (f.place > 0 => f.bit < K)
         /\ \A p : Wrong(f.half, p) = IF p = f.place THEN {f.bit} ELSE {}
<1>1. f \in [half : Bf!Halves, place : 0 .. 2, bit : Bf!Bits] /\ (f.place > 0 => f.bit < K)
  BY DEF BfTypes, Bf!Places
<1>2. \A p, c : [half |-> f.half, place |-> p, bit |-> c] = f <=> p = f.place /\ c = f.bit  BY <1>1
<1>3. \A p : Wrong(f.half, p) = {c \in Bf!Bits : p = f.place /\ c = f.bit}  BY <1>2 DEF Wrong
<1> QED  BY <1>1, <1>3

LEMMA WrongTwo ==
  ASSUME BfTypes, NEW f, NEW g, flips = {f, g}, f # g
  PROVE  /\ f.half \in Bf!Halves /\ f.place \in 0 .. 2 /\ f.bit \in Bf!Bits /\ (f.place > 0 => f.bit < K)
         /\ g.half = f.half /\ g.place \in 0 .. 2 /\ g.bit \in Bf!Bits /\ (g.place > 0 => g.bit < K)
         /\ f.place = g.place => f.bit # g.bit
         /\ \A p : Wrong(f.half, p) = (IF p = f.place THEN {f.bit} ELSE {}) \cup (IF p = g.place THEN {g.bit} ELSE {})
<1>1. /\ f \in [half : Bf!Halves, place : 0 .. 2, bit : Bf!Bits] /\ (f.place > 0 => f.bit < K)
      /\ g \in [half : Bf!Halves, place : 0 .. 2, bit : Bf!Bits] /\ (g.place > 0 => g.bit < K)
      /\ g.half = f.half
  BY DEF BfTypes, Bf!Places
<1>2. /\ \A p, c : [half |-> f.half, place |-> p, bit |-> c] = f <=> p = f.place /\ c = f.bit
      /\ \A p, c : [half |-> f.half, place |-> p, bit |-> c] = g <=> p = g.place /\ c = g.bit
  BY <1>1
<1>3. \A p : Wrong(f.half, p) = {c \in Bf!Bits : (p = f.place /\ c = f.bit) \/ (p = g.place /\ c = g.bit)}
  BY <1>2 DEF Wrong
<1>4. f.place = g.place => f.bit # g.bit  BY <1>1
<1>5. \A p : Wrong(f.half, p) = (IF p = f.place THEN {f.bit} ELSE {}) \cup (IF p = g.place THEN {g.bit} ELSE {})
  BY <1>1, <1>3
<1> QED  BY <1>1, <1>4, <1>5

LEMMA ParityBit == ASSUME BfConstants, NEW b \in Bf!Bits, b < K PROVE b \in Indices
BY DEF BfConstants, Bf!Bits, Indices

\* Two bits that turned in one half: at least two parities differ, and never
\* as one bit of data would have it.
LEMMA TwoReported ==
  ASSUME BfConstants, BfInv, bf_at = "correct", NEW f, NEW g, flips = {f, g}, f # g, LegibleHalf(f.half)
  PROVE  /\ f.half \in Bf!Halves /\ g.half = f.half
         /\ Bf!Corrected(buf[f.half], calc[f.half], oob[f.half]) = <<bf_chip[f.half], 1>>
<1> DEFINE h == f.half
           data == bf_chip[h]
           S == section[h]
           o == oob[h]
           W(p) == Wrong(h, p)
<1>1. BfTypes  BY DEF BfInv
<1>2. /\ h \in Bf!Halves /\ f.place \in 0 .. 2 /\ f.bit \in Bf!Bits /\ (f.place > 0 => f.bit \in Indices)
      /\ g.half = h /\ g.place \in 0 .. 2 /\ g.bit \in Bf!Bits /\ (g.place > 0 => g.bit \in Indices)
      /\ f.place = g.place => f.bit # g.bit
      /\ \A p : W(p) = (IF p = f.place THEN {f.bit} ELSE {}) \cup (IF p = g.place THEN {g.bit} ELSE {})
  BY <1>1, WrongTwo, ParityBit
<1>3. Turned(S, data, o, W(0), W(1), W(2)) /\ calc[h] = Bf!Code(data) /\ buf[h] = data  BY <1>2, BfHalves
<1> HIDE DEF h, data, S, o, W
<1>4. SUFFICES Bf!Corrected(data, Bf!Code(data), o) = <<data, 1>>  BY <1>2, <1>3 DEF h, data, o
<1>5. CASE f.place = 0 /\ g.place = 0
  <2>1. W(0) = {f.bit, g.bit} /\ W(1) = {} /\ W(2) = {} /\ f.bit # g.bit  BY <1>2, <1>5
  <2> QED  BY <1>2, <1>3, <2>1, TwoTurned
<1>6. CASE f.place = 0 /\ g.place # 0
  <2>1. W(0) = {f.bit} /\ g.bit \in Indices  BY <1>2, <1>6
  <2>2. (W(1) = {g.bit} /\ W(2) = {}) \/ (W(1) = {} /\ W(2) = {g.bit})  BY <1>2, <1>6
  <2>3. Turned(S, data, o, {f.bit}, {g.bit}, {}) \/ Turned(S, data, o, {f.bit}, {}, {g.bit})
    BY <1>3, <2>1, <2>2, Zenon
  <2> QED  BY <1>2, <2>1, <2>3, BothTurned
<1>7. CASE f.place # 0 /\ g.place = 0
  <2>1. W(0) = {g.bit} /\ f.bit \in Indices  BY <1>2, <1>7
  <2>2. (W(1) = {f.bit} /\ W(2) = {}) \/ (W(1) = {} /\ W(2) = {f.bit})  BY <1>2, <1>7
  <2>3. Turned(S, data, o, {g.bit}, {f.bit}, {}) \/ Turned(S, data, o, {g.bit}, {}, {f.bit})
    BY <1>3, <2>1, <2>2, Zenon
  <2> QED  BY <1>2, <2>1, <2>3, BothTurned
<1>8. CASE f.place # 0 /\ g.place # 0
  <2>1. W(0) = {} /\ W(1) \in SUBSET Indices /\ W(2) \in SUBSET Indices  BY <1>2, <1>8
  <2>2. Cardinality(W(1)) + Cardinality(W(2)) \in {1, 2}
    <3>1. \A x : Cardinality({x}) = 1  BY FS_Singleton
    <3>2. Cardinality({}) = 0  BY FS_EmptySet
    <3>3. f.bit # g.bit => Cardinality({f.bit, g.bit}) = 2
      <4>1. {f.bit, g.bit} = {f.bit} \cup {g.bit}  OBVIOUS
      <4>2. IsFiniteSet({f.bit}) /\ Cardinality({f.bit}) = 1  BY FS_Singleton
      <4>3. f.bit # g.bit => Cardinality({f.bit} \cup {g.bit}) = 1 + 1  BY <4>2, FS_AddElement
      <4> QED  BY <4>1, <4>3
    <3>4. \/ W(1) = {f.bit, g.bit} /\ W(2) = {} /\ f.bit # g.bit
          \/ W(1) = {} /\ W(2) = {f.bit, g.bit} /\ f.bit # g.bit
          \/ W(1) = {f.bit} /\ W(2) = {g.bit}
          \/ W(1) = {g.bit} /\ W(2) = {f.bit}
      BY <1>2, <1>8
    <3>5. \/ Cardinality(W(1)) = 2 /\ Cardinality(W(2)) = 0
          \/ Cardinality(W(1)) = 0 /\ Cardinality(W(2)) = 2
          \/ Cardinality(W(1)) = 1 /\ Cardinality(W(2)) = 1
      <4> HIDE DEF W
      <4> QED  BY <3>1, <3>2, <3>3, <3>4, Zenon
    <3> QED  BY <3>5
  <2>3. Turned(S, data, o, {}, W(1), W(2))  BY <1>3, <2>1, Zenon
  <2> HIDE DEF W
  <2> DEFINE x == W(1)
             y == W(2)
  <2>4. x \in SUBSET Indices /\ y \in SUBSET Indices /\ Turned(S, data, o, {}, x, y)
        /\ Cardinality(x) + Cardinality(y) \in {1, 2}
    BY <2>1, <2>2, <2>3
  <2> HIDE DEF x, y
  <2> QED  BY <2>4, ParitiesTurned
<1> QED  BY <1>5, <1>6, <1>7, <1>8

\* One bit of data is put right, and one of the code is reported.
LEMMA OneReported ==
  ASSUME BfConstants, BfInv, bf_at = "correct", NEW f, flips = {f}, LegibleHalf(f.half)
  PROVE  /\ f.half \in Bf!Halves
         /\ f.place = 0 => Bf!Corrected(buf[f.half], calc[f.half], oob[f.half]) = <<section[f.half], 0>>
         /\ f.place > 0 => /\ Bf!Corrected(buf[f.half], calc[f.half], oob[f.half]) = <<section[f.half], 1>>
                           /\ f.place \in 1 .. 2
<1> DEFINE h == f.half
           data == bf_chip[h]
           S == section[h]
           o == oob[h]
           W(p) == Wrong(h, p)
<1>1. BfTypes  BY DEF BfInv
<1>2. /\ h \in Bf!Halves /\ f.place \in 0 .. 2 /\ f.bit \in Bf!Bits /\ (f.place > 0 => f.bit \in Indices)
      /\ \A p : W(p) = IF p = f.place THEN {f.bit} ELSE {}
  BY <1>1, WrongOne, ParityBit
<1>3. Turned(S, data, o, W(0), W(1), W(2)) /\ calc[h] = Bf!Code(data) /\ buf[h] = data  BY <1>2, BfHalves
<1> HIDE DEF h, data, S, o, W
<1>4. ASSUME f.place = 0 PROVE Bf!Corrected(data, Bf!Code(data), o) = <<S, 0>>
  <2>1. W(0) = {f.bit} /\ W(1) = {} /\ W(2) = {}  BY <1>2, <1>4
  <2>2. Turned(S, data, o, {f.bit}, {}, {})  BY <1>3, <2>1, Zenon
  <2> QED  BY <1>2, <2>2, OneTurned
<1>5. ASSUME f.place > 0 PROVE Bf!Corrected(data, Bf!Code(data), o) = <<S, 1>> /\ f.place \in 1 .. 2
  <2>1. W(0) = {} /\ f.bit \in Indices /\ f.place \in 1 .. 2  BY <1>2, <1>5
  <2>2. (W(1) = {f.bit} /\ W(2) = {}) \/ (W(1) = {} /\ W(2) = {f.bit})  BY <1>2, <1>5
  <2>3. Cardinality({f.bit}) = 1 /\ Cardinality({}) = 0  BY FS_Singleton, FS_EmptySet
  <2>4. {f.bit} \in SUBSET Indices /\ {} \in SUBSET Indices  BY <2>1
  <2>5. Turned(S, data, o, {}, {f.bit}, {}) \/ Turned(S, data, o, {}, {}, {f.bit})  BY <1>3, <2>1, <2>2, Zenon
  <2> DEFINE t == {f.bit}
             n == {}
  <2>6. /\ t \in SUBSET Indices /\ n \in SUBSET Indices /\ Cardinality(t) + Cardinality(n) \in {1, 2}
        /\ Cardinality(n) + Cardinality(t) \in {1, 2} /\ (Turned(S, data, o, {}, t, n) \/ Turned(S, data, o, {}, n, t))
    BY <2>3, <2>4, <2>5
  <2> HIDE DEF t, n
  <2>7. Bf!Corrected(data, Bf!Code(data), o) = <<data, 1>> /\ data = S  BY <2>6, ParitiesTurned
  <2> QED  BY <2>1, <2>7
<1> QED  BY <1>2, <1>3, <1>4, <1>5 DEF h, data, S, o


LEMMA NoneReported ==
  ASSUME BfConstants, BfInv, bf_at = "correct", NEW h \in Bf!Halves, LegibleHalf(h), \A f \in flips : f.half # h
  PROVE  Bf!Corrected(buf[h], calc[h], oob[h]) = <<section[h], 0>> /\ bf_chip[h] = section[h]
<1>1. Wrong(h, 0) = {} /\ Wrong(h, 1) = {} /\ Wrong(h, 2) = {}  BY WrongNone
<1>2. /\ Turned(section[h], bf_chip[h], oob[h], {}, {}, {})
      /\ calc[h] = Bf!Code(bf_chip[h]) /\ buf[h] = bf_chip[h]
  BY <1>1, BfHalves
<1> DEFINE S == section[h]
           data == bf_chip[h]
           o == oob[h]
<1>3. Turned(S, data, o, {}, {}, {})  BY <1>2
<1> HIDE DEF S, data, o
<1>4. Bf!Corrected(data, Bf!Code(data), o) = <<data, 0>> /\ data = S  BY <1>3, NoneTurned
<1> QED  BY <1>2, <1>4 DEF S, data, o

LEMMA AtMostTwo ==
  ASSUME BfTypes
  PROVE  \/ flips = {}
         \/ \E f : flips = {f} /\ Cardinality(flips) = 1
         \/ \E f, g : flips = {f, g} /\ f # g /\ Cardinality(flips) = 2
<1>1. IsFiniteSet(flips) /\ Cardinality(flips) \in 0 .. 2  BY FS_CardinalityType DEF BfTypes
<1>2. CASE flips # {} /\ Cardinality(flips) # 1
  <2>1. PICK f \in flips : TRUE  BY <1>2
  <2>2. IsFiniteSet(flips \ {f}) /\ Cardinality(flips \ {f}) = Cardinality(flips) - 1
    BY <1>1, <2>1, FS_RemoveElement
  <2>3. Cardinality(flips) = 2  BY <1>1, <1>2, FS_EmptySet
  <2>4. Cardinality(flips \ {f}) = 1  BY <2>2, <2>3
  <2>5. PICK g : flips \ {f} = {g}  BY <2>2, <2>4, FS_Singleton
  <2>6. flips = {f, g} /\ f # g  BY <2>1, <2>5
  <2> QED  BY <2>3, <2>6
<1>3. CASE Cardinality(flips) = 1
  <2>1. PICK f : flips = {f}  BY <1>1, <1>3, FS_Singleton
  <2> QED  BY <1>3, <2>1
<1> QED  BY <1>2, <1>3

LEMMA BfCorrectData == ASSUME BfConstants, BfInv, Bf!CorrectData PROVE BfInv'
<1> DEFINE R(h) == Bf!Corrected(buf[h], calc[h], oob[h])
<1>1. /\ bf_at = "correct" /\ bf_at' = "end" /\ section' = section /\ bf_chip' = bf_chip /\ oob' = oob
      /\ flips' = flips /\ calc' = calc /\ bf_regs' = bf_regs /\ dma' = dma /\ completion' = completion
      /\ bf_held' = bf_held
  BY DEF Bf!CorrectData, Bf!pageVars, Bf!dmaVars
<1>2. /\ buf' = [h \in Bf!Halves |-> R(h)[1]]
      /\ ret' = IF \E h \in Bf!Halves : R(h)[2] = 1 THEN 1 ELSE 0
  BY DEF Bf!CorrectData
<1>3. BfTypes /\ buf = bf_chip /\ completion = 0 /\ dma = "off"
  BY <1>1 DEF BfInv, BfTypes, Bf!TypeOK
<1>4. Bf!Halves' = Bf!Halves /\ Bf!Places' = Bf!Places /\ Bf!Bits' = Bf!Bits  BY <1>1, BfSame DEF Bf!Bits
<1>5. section \in [Bf!Halves -> SUBSET Bf!Bits] /\ bf_chip \in [Bf!Halves -> SUBSET Bf!Bits]
  BY <1>3, SectionIs DEF BfTypes
<1>6. \/ flips = {}
      \/ \E f : flips = {f} /\ Cardinality(flips) = 1
      \/ \E f, g : flips = {f, g} /\ f # g /\ Cardinality(flips) = 2
  BY <1>3, AtMostTwo
<1>7. \A h \in Bf!Halves : LegibleHalf(h) /\ (\A f \in flips : f.half # h) =>
        R(h) = <<section[h], 0>> /\ bf_chip[h] = section[h]
  BY <1>1, NoneReported
<1>8. \A f : flips = {f} /\ LegibleHalf(f.half) =>
         /\ f.half \in Bf!Halves
         /\ f.place = 0 => R(f.half) = <<section[f.half], 0>>
         /\ f.place > 0 => R(f.half) = <<section[f.half], 1>> /\ f.place \in 1 .. 2
  BY <1>1, OneReported
<1>9. \A f, g : flips = {f, g} /\ f # g /\ LegibleHalf(f.half) =>
         /\ f.half \in Bf!Halves /\ g.half = f.half
         /\ R(f.half) = <<bf_chip[f.half], 1>>
  BY <1>1, TwoReported
<1>10. ASSUME NEW h \in Bf!Halves, ~LegibleHalf(h) PROVE R(h) = <<bf_chip[h], 0>>
  <2>1. Bf!Zero(calc[h]) \/ Bf!Zero(oob[h])  BY <1>10 DEF LegibleHalf
  <2> QED  BY <1>3, <2>1 DEF Bf!Corrected
<1> HIDE DEF R
<1>11. ASSUME NEW h \in Bf!Halves PROVE R(h)[1] \in {bf_chip[h], section[h]}
  <2>1. CASE ~LegibleHalf(h)  BY <1>10, <2>1
  <2>2. CASE LegibleHalf(h) /\ \A f \in flips : f.half # h  BY <1>7, <2>2
  <2>3. CASE LegibleHalf(h) /\ \E f \in flips : f.half = h
    <3>1. PICK e \in flips : e.half = h  BY <2>3
    <3>2. CASE \E f : flips = {f}
      <4>1. PICK f : flips = {f}  BY <3>2
      <4>2. f.half = h /\ f.place \in 0 .. 2  BY <1>3, <3>1, <4>1, WrongOne
      <4>3. f.place = 0 \/ f.place > 0  BY <4>2
      <4> QED  BY <1>8, <2>3, <4>1, <4>2, <4>3
    <3>3. CASE \E f, g : flips = {f, g} /\ f # g
      <4>1. PICK f, g : flips = {f, g} /\ f # g  BY <3>3
      <4>2. f.half = h  BY <1>3, <3>1, <4>1 DEF BfTypes
      <4> QED  BY <1>9, <2>3, <4>1, <4>2
    <3> QED  BY <1>6, <3>1, <3>2, <3>3
  <2> QED  BY <2>1, <2>2, <2>3
<1>12. buf' \in [Bf!Halves -> SUBSET Bf!Bits]
  <2>1. \A h \in Bf!Halves : R(h)[1] \in SUBSET Bf!Bits  BY <1>5, <1>11
  <2> QED  BY <1>2, <2>1
<1>13. Bf!TypeOK'
  <2>1. /\ completion' = 0 /\ dma' = "off" /\ ret' \in {0, 1} /\ bf_held' \subseteq {"pins", "info", "dma", "mtd"}
    BY <1>1, <1>2, <1>3 DEF BfTypes, Bf!TypeOK
  <2>2. \A h \in Bf!Halves : buf'[h] \subseteq Bf!Bits /\ bf_chip'[h] \subseteq Bf!Bits
    BY <1>1, <1>5, <1>12
  <2> QED  BY <1>4, <2>1, <2>2 DEF Bf!TypeOK
<1>14. BfTypes'  BY <1>1, <1>3, <1>4, <1>12, <1>13 DEF BfTypes
<1>15. Bf!OneBitCorrected'
  <2> SUFFICES ASSUME Bf!Legible'
        PROVE /\ flips = {} => buf' = section /\ ret' = 0
              /\ Cardinality(flips) = 1 /\ (\A f \in flips : f.place = 0) => buf' = section /\ ret' = 0
              /\ Cardinality(flips) = 1 /\ (\A f \in flips : f.place > 0) => buf' = section /\ ret' = 1
              /\ Cardinality(flips) = 2 => buf' = bf_chip /\ ret' = 1
    BY <1>1, BfCount DEF Bf!OneBitCorrected
  <2>1. \A h \in Bf!Halves : LegibleHalf(h)
    BY <1>1, <1>4 DEF LegibleHalf, Bf!Legible, Bf!Zero, Bf!NoCode
  <2>2. \A h \in Bf!Halves : \A x, y : R(h) = <<x, y>> => R(h)[1] = x /\ R(h)[2] = y  OBVIOUS
  <2>3. ASSUME NEW z \in {section, bf_chip}, \A h \in Bf!Halves : R(h)[1] = z[h]
        PROVE  buf' = z
    BY <1>2, <1>5, <2>3
  <2>4. CASE flips = {}
    <3>1. Cardinality(flips) = 0  BY <2>4, FS_EmptySet
    <3>2. \A h \in Bf!Halves : R(h)[1] = section[h] /\ R(h)[2] = 0  BY <1>7, <2>1, <2>4
    <3>3. buf' = section  BY <2>3, <3>2
    <3>4. ret' = 0  BY <1>2, <3>2
    <3> QED  BY <3>1, <3>3, <3>4
  <2>5. CASE \E f : flips = {f} /\ Cardinality(flips) = 1
    <3>1. PICK f : flips = {f} /\ Cardinality(flips) = 1  BY <2>5
    <3>2. f.half \in Bf!Halves /\ f.place \in 0 .. 2  BY <1>3, <3>1, WrongOne
    <3>3. \A h \in Bf!Halves \ {f.half} : R(h)[1] = section[h] /\ R(h)[2] = 0  BY <1>7, <2>1, <3>1
    <3>4. R(f.half)[1] = section[f.half] /\ (f.place = 0 => R(f.half)[2] = 0) /\ (f.place > 0 => R(f.half)[2] = 1)
      BY <1>8, <2>1, <3>1, <3>2
    <3>5. buf' = section  BY <2>3, <3>3, <3>4
    <3>6. f.place = 0 => ret' = 0  BY <1>2, <3>3, <3>4
    <3>7. f.place > 0 => ret' = 1  BY <1>2, <3>2, <3>4
    <3> QED  BY <3>1, <3>5, <3>6, <3>7
  <2>6. CASE \E f, g : flips = {f, g} /\ f # g /\ Cardinality(flips) = 2
    <3>1. PICK f, g : flips = {f, g} /\ f # g /\ Cardinality(flips) = 2  BY <2>6
    <3>2. f.half \in Bf!Halves /\ g.half = f.half  BY <1>3, <3>1, WrongTwo
    <3>3. R(f.half) = <<bf_chip[f.half], 1>>  BY <1>9, <2>1, <3>1, <3>2
    <3>4. \A h \in Bf!Halves \ {f.half} : R(h)[1] = bf_chip[h]  BY <1>7, <2>1, <3>1, <3>2
    <3>5. buf' = bf_chip  BY <2>3, <3>3, <3>4
    <3>6. ret' = 1  BY <1>2, <3>2, <3>3
    <3> QED  BY <3>1, <3>5, <3>6
  <2> QED  BY <1>6, <2>4, <2>5, <2>6
<1> QED  BY <1>1, <1>3, <1>14, <1>15 DEF BfInv

LEMMA BfNext == ASSUME BfConstants, BfInv, [Bf!Next]_Bf!bfVars PROVE BfInv'
<1>1. CASE UNCHANGED Bf!bfVars
  <2>1. /\ bf_at' = bf_at /\ section' = section /\ bf_chip' = bf_chip /\ oob' = oob /\ flips' = flips
        /\ buf' = buf /\ calc' = calc /\ bf_regs' = bf_regs /\ dma' = dma /\ completion' = completion
        /\ ret' = ret /\ bf_held' = bf_held
    BY <1>1 DEF Bf!bfVars
  <2>2. /\ Bf!Halves' = Bf!Halves /\ Bf!Places' = Bf!Places
        /\ Bf!Codes(section)' = Bf!Codes(section) /\ Bf!Codes(bf_chip)' = Bf!Codes(bf_chip)
    BY <2>1, BfSame
  <2>3. Bf!TypeOK'  BY <2>1, <2>2 DEF BfInv, BfTypes, Bf!TypeOK
  <2>4. BfTypes'  BY <2>1, <2>2, <2>3 DEF BfInv, BfTypes
  <2>5. Aged => Aged'  BY <2>1, BfKept
  <2>6. Bf!OneBitCorrected'  BY <2>1, <2>2 DEF BfInv, Bf!OneBitCorrected, Bf!Legible, Bf!Zero
  <2> QED  BY <2>1, <2>2, <2>4, <2>5, <2>6 DEF BfInv
<1> QED
  BY <1>1, BfProbe, BfRemove, BfDmaRw, BfTransfer, BfDmaIrq, BfCalculateEcc, BfWriteRaw, BfReadRaw, BfAge,
     BfReadPage, BfCorrectData
  DEF Bf!Next

LEMMA BfCorrect == ASSUME BfConstants PROVE Bf!Spec => [](Bf!TypeOK /\ Bf!OneBitCorrected)
<1>1. Bf!Init => BfInv  BY BfInit
<1>2. BfInv /\ [Bf!Next]_Bf!bfVars => BfInv'  BY BfNext
<1>3. BfInv => Bf!TypeOK /\ Bf!OneBitCorrected  BY DEF BfInv, BfTypes
<1> QED  BY <1>1, <1>2, <1>3, PTL DEF Bf!Spec

\* bf5xx_nand_correct_data(), bf5xx_nand_calculate_ecc(): with halves of any
\* size from eight bits on, one wrong bit of data is corrected, and one of the
\* code or two of either are reported.
THEOREM OneBitIsCorrected == ASSUME BfConstants PROVE DriversSpec => []OneBitCorrected
<1>1. DriversSpec => Bf!Spec  BY EachRuns
<1>2. Bf!Spec => []Bf!OneBitCorrected  BY BfCorrect, PTL
<1>3. OneBitCorrected <=> Bf!OneBitCorrected  BY DEF OneBitCorrected
<1> QED  BY <1>1, <1>2, <1>3, PTL

-----------------------------------------------------------------------------

\* All the parts but the sorts: for any values of their constants each variable
\* keeps to its values; among them, the namespace indices and the descriptors of
\* the rings are in range, no position leaves a buffer, and the heap is within
\* its memory.
THEOREM TypesKept ==
  ASSUME IodConstants, PciConstants, FrameConstants, ProbeConstants, FlagConstants, CafeConstants,
         BfConstants, CharConstants, MmapConstants, SchedConstants, HeapConstants
  PROVE  DriversSpec => []TypesOK
<1>1. Spec => []TypeOK  BY SetupTypeOK
<1>2. Iod!Spec => []Iod!TypeOK  BY IodCorrect, PTL
<1>3. (Net!Spec => []Net!TypeOK) /\ (Probe!Spec => []Probe!TypeOK)  BY NetTypeOK, ProbeTypeOK
<1>4. Cafe!Spec => []Cafe!TypeOK  BY CafeCorrect, PTL
<1>5. Bf!Spec => []Bf!TypeOK  BY BfCorrect, PTL
<1>6. (Char!Spec => []Char!TypeOK) /\ (Mmap!Spec => []Mmap!TypeOK)  BY CharTypeOK, MmapTypeOK
<1>7. Sched!Spec => []Sched!TypeOK  BY SchedContextSaved, PTL
<1>8. Heap!Spec => []Heap!TypeOK  BY HeapCorrect, PTL
<1>9. TypesOK <=> /\ TypeOK /\ Iod!TypeOK /\ Net!TypeOK /\ Probe!TypeOK /\ Cafe!TypeOK
                  /\ Bf!TypeOK /\ Char!TypeOK /\ Mmap!TypeOK /\ Sched!TypeOK /\ Heap!TypeOK
  BY DEF TypesOK
<1> QED  BY <1>1, <1>2, <1>3, <1>4, <1>5, <1>6, <1>7, <1>8, <1>9, EachRuns, PTL
=============================================================================
