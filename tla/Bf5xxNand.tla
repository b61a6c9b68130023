------------------------------ MODULE Bf5xxNand ------------------------------
(***************************************************************************)
(* kernel/mtd_platform_bf5xx_nand.c with hardware ECC: a page section      *)
(* passes through the DMA channel while the controller computes its code;  *)
(* when it is read back the codes are compared and one bit is corrected.   *)
(* Data is the set of its bits that are 1, in one or two halves; a code is *)
(* a pair of sets of parity bits, so that exclusive or is a symmetric      *)
(* difference.                                                             *)
(***************************************************************************)
EXTENDS Naturals, FiniteSetsExt

CONSTANTS K,       \* parity bits of a half: 2^K data bits (11 in the code)
          Sections \* what is written: sequences of one or two halves

VARIABLES
  at,                   \* where the layer, the driver or probe is
  section,              \* what was written
  chip, oob, flips,     \* what the flash holds; the codes; bits gone wrong
  buf, calc,            \* the buffer; ecc_calc
  regs,                 \* the ECC registers
  dma, completion,      \* the channel; dma_completion
  ret, held

bfVars   == <<at, section, chip, oob, flips, buf, calc, regs, dma, completion, ret, held>>
pageVars == <<section, chip, oob, flips>>
readVars == <<buf, calc, ret>>
dmaVars  == <<regs, dma, completion>>

Pow2[k \in 0 .. K] == IF k = 0 THEN 1 ELSE 2 * Pow2[k - 1]

Bits   == 0 .. Pow2[K] - 1
Halves == DOMAIN section
NoCode == <<{}, {}>>

Odd(s) == Cardinality(s) % 2 = 1
BitOf(i, k) == (i \div Pow2[k]) % 2 = 1

\* What the controller computes: for each bit of the index, the parity of the
\* ones where it is set, and of those where it is not
Code(data) == << {k \in 0 .. K - 1 : Odd({i \in data : BitOf(i, k)})},
                 {k \in 0 .. K - 1 : Odd({i \in data : ~BitOf(i, k)})} >>

Codes(s) == [h \in DOMAIN s |-> Code(s[h])]

Init ==
  /\ at = "probe" /\ section \in Sections
  /\ chip = [h \in Halves |-> {}] /\ oob = [h \in Halves |-> NoCode] /\ flips = {}
  /\ buf = chip /\ calc = oob /\ regs = oob
  /\ dma = "off" /\ completion = 0 /\ ret = 0 /\ held = {}

-----------------------------------------------------------------------------
(* bf5xx_nand_probe(), bf5xx_nand_scan(), bf5xx_nand_remove() *)

\* Each label undoes what was done before the failure
Probe ==
  /\ at = "probe"
  /\ \/ at' \in {"-EINVAL", "-EFAULT", "-ENOMEM", "-ENXIO"} /\ UNCHANGED held
     \/ at' = "write" /\ held' = {"pins", "info", "dma", "mtd"}
  /\ UNCHANGED <<pageVars, readVars, dmaVars>>

PlatformRemove ==
  /\ at \in {"end", "raw"}
  /\ at' = "removed" /\ held' = {}
  /\ UNCHANGED <<pageVars, readVars, dmaVars>>

-----------------------------------------------------------------------------
(* bf5xx_nand_dma_rw(), bf5xx_nand_dma_irq() *)

Reset_not(r) == r                           \* mutant: without ECC_RST

\* "This register must be written before each page is transferred"
Reset(r) == [h \in DOMAIN r |-> NoCode]

DmaRw ==
  /\ at \in {"write", "read"}
  /\ regs' = Reset(regs)
  /\ dma' = "on"
  /\ buf' = IF at = "write" THEN section ELSE buf
  /\ at' = IF at = "write" THEN "writing" ELSE "reading"
  /\ UNCHANGED <<pageVars, calc, completion, ret, held>>

Accumulated(data) ==
  [h \in Halves |-> <<SymDiff(regs[h][1], Code(data[h])[1]), SymDiff(regs[h][2], Code(data[h])[2])>>]

\* The controller transfers, and raises the interrupt
Transfer ==
  /\ dma = "on"
  /\ IF at = "writing" THEN chip' = buf /\ UNCHANGED buf ELSE buf' = chip /\ UNCHANGED chip
  /\ regs' = Accumulated(IF at = "writing" THEN buf ELSE chip)
  /\ dma' = "interrupt"
  /\ UNCHANGED <<at, section, oob, flips, calc, completion, ret, held>>

DmaIrq ==
  /\ dma = "interrupt"
  /\ dma' = "off" /\ completion' = completion + 1
  /\ UNCHANGED <<at, pageVars, readVars, regs, held>>

Waited_not == TRUE                          \* mutant: the transfer is not awaited

Waited == completion > 0

\* wait_for_completion(), then bf5xx_nand_calculate_ecc(); the code goes to
\* the out-of-band bytes, by bf5xx_nand_write_buf()
CalculateEcc ==
  /\ at \in {"writing", "reading"} /\ Waited
  /\ completion' = IF completion > 0 THEN completion - 1 ELSE 0
  /\ IF at = "writing" THEN oob' = regs /\ at' = "age" /\ UNCHANGED calc
                       ELSE calc' = regs /\ at' = "correct" /\ UNCHANGED oob
  /\ UNCHANGED <<section, chip, flips, buf, regs, dma, ret, held>>

\* bf5xx_nand_write_page_raw(), bf5xx_nand_read_page_raw(): byte by byte, and
\* no code is computed or compared
WritePageRaw ==
  /\ at = "write"
  /\ chip' = section /\ at' = "written raw"
  /\ UNCHANGED <<section, oob, flips, readVars, dmaVars, held>>

ReadPageRaw ==
  /\ at \in {"age", "written raw"}
  /\ buf' = chip /\ at' = "raw"
  /\ UNCHANGED <<pageVars, calc, ret, dmaVars, held>>

-----------------------------------------------------------------------------
(* What happens to flash: at most two bits of one half, data or code, turn *)

Flip(f) ==
  /\ chip' = [chip EXCEPT ![f.half] = IF f.place = 0 THEN SymDiff(@, {f.bit}) ELSE @]
  /\ oob'  = [oob EXCEPT ![f.half] = [j \in 1 .. 2 |-> IF f.place = j THEN SymDiff(@[j], {f.bit}) ELSE @[j]]]

Places == {f \in [half : Halves, place : 0 .. 2, bit : Bits] : f.place > 0 => f.bit < K}

Age ==
  /\ at = "age" /\ Cardinality(flips) < 2
  /\ \E f \in Places \ flips :
       /\ \A g \in flips : g.half = f.half
       /\ Flip(f) /\ flips' = flips \cup {f}
  /\ UNCHANGED <<at, section, readVars, dmaVars, held>>

ReadPage ==
  /\ at = "age" /\ at' = "read"
  /\ UNCHANGED <<pageVars, readVars, dmaVars, held>>

-----------------------------------------------------------------------------
(* bf5xx_nand_correct_data_256(), bf5xx_nand_correct_data() *)

Zero(code) == code = NoCode

Value(bits) == LET S[k \in 0 .. K] == IF k = 0 THEN 0 ELSE S[k - 1] + (IF k - 1 \in bits THEN Pow2[k - 1] ELSE 0)
               IN S[K]

Corrected_weight(data, calced, stored) ==   \* mutant: the pairs are not compared
  LET s0 == <<SymDiff(calced[1], stored[1]), SymDiff(calced[2], stored[2])>>
      weight == Cardinality(s0[1]) + Cardinality(s0[2]) IN
  CASE Zero(s0) \/ Zero(calced) \/ Zero(stored) -> <<data, 0>>
    [] weight = K -> <<SymDiff(data, {Value(s0[1])}), 0>>
    [] OTHER -> <<data, 1>>

\* The data and the result: nothing wrong, or a code is zero; one bit of the
\* code; one bit of the data, when each parity pair differs in one; or more
Corrected(data, calced, stored) ==
  LET s0 == <<SymDiff(calced[1], stored[1]), SymDiff(calced[2], stored[2])>>
      weight == Cardinality(s0[1]) + Cardinality(s0[2])
      pairs  == SymDiff(s0[1], s0[2]) IN
  CASE Zero(s0) \/ Zero(calced) \/ Zero(stored) -> <<data, 0>>
    [] ~Zero(s0) /\ ~Zero(calced) /\ ~Zero(stored) /\ weight = K /\ pairs = 0 .. K - 1 ->
         <<SymDiff(data, {Value(s0[1])}), 0>>
    [] OTHER -> <<data, 1>>

CorrectData ==
  /\ at = "correct"
  /\ buf' = [h \in Halves |-> Corrected(buf[h], calc[h], oob[h])[1]]
  /\ ret' = IF \E h \in Halves : Corrected(buf[h], calc[h], oob[h])[2] = 1 THEN 1 ELSE 0
  /\ at' = "end"
  /\ UNCHANGED <<pageVars, calc, dmaVars, held>>

-----------------------------------------------------------------------------

Next ==
  \/ Probe \/ DmaRw \/ Transfer \/ DmaIrq \/ CalculateEcc
  \/ WritePageRaw \/ ReadPageRaw \/ Age \/ ReadPage \/ CorrectData
  \/ PlatformRemove

Spec == Init /\ [][Next]_bfVars

-----------------------------------------------------------------------------
(* Properties *)

\* Each variable has its type, and a transfer waits for its own completion.
TypeOK ==
  /\ \A h \in Halves : buf[h] \subseteq Bits /\ chip[h] \subseteq Bits
  /\ completion \in 0 .. 1 /\ (at \notin {"writing", "reading"} => completion = 0 /\ dma = "off")
  /\ ret \in {0, 1} /\ held \subseteq {"pins", "info", "dma", "mtd"}

Legible == \A h \in Halves : ~Zero(calc[h]) /\ ~Zero(oob[h])

\* bf5xx_nand_correct_data(): of what was written and read back with codes
\* that are not zero, one wrong bit of data is corrected, and more than one
\* wrong bit, or one of the code, is reported and nothing is changed.
OneBitCorrected ==
  at = "end" /\ Legible =>
    /\ flips = {} => buf = section /\ ret = 0
    /\ Cardinality(flips) = 1 /\ (\A f \in flips : f.place = 0) => buf = section /\ ret = 0
    /\ Cardinality(flips) = 1 /\ (\A f \in flips : f.place > 0) => buf = section /\ ret = 1
    /\ Cardinality(flips) = 2 => buf = chip /\ ret = 1
=============================================================================
