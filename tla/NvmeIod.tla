------------------------------- MODULE NvmeIod -------------------------------
(***************************************************************************)
(* The data of one command of kernel/nvme.c: the pages of an ioctl, pinned *)
(* and mapped, or the segments of a bio; the PRP entries the controller    *)
(* reads them by; and giving everything back.  The command itself is       *)
(* NvmeQueue's.  Physical memory is addressed in small units; a PRP entry  *)
(* is <<"data", address>> or <<"list", k>>, the k-th list allocated.       *)
(***************************************************************************)
EXTENDS Integers, Sequences, SequencesExt, FiniteSetsExt

CONSTANTS
  PAGE_SIZE, LIST,  \* units in a page; entries of a list page (PAGE_SIZE / 8)
  SMALL,            \* entries of a list from the small pool (256 / 8)
  UserBuffers,      \* what ioctls pass: [pages, offset, length]
  Bios,             \* segments of bios: sequences of [addr, len]
  EBUSY

VARIABLES
  call, step, result,   \* the request; how far it is; what it returns
  pinned, nents,        \* pages of the user held; how many there are to put
  sg,                   \* the mapped segments: [addr, len]
  mapped,               \* bytes of them
  length, seg, dma_addr, dma_len,
  prp1, prp2, lists, npages,
  dev                   \* "has": the controller may transfer

iodVars == <<call, step, result, pinned, nents, sg, mapped, length, seg, dma_addr, dma_len,
             prp1, prp2, lists, npages, dev>>
prpVars == <<length, seg, dma_addr, dma_len, prp1, prp2, lists, npages>>

NoPrp == <<"data", 0>>

Init ==
  /\ \/ \E b \in UserBuffers :
          call = [kind |-> "ioctl", pages |-> b.pages, offset |-> b.offset, length |-> b.length]
     \/ \E v \in Bios : call = [kind |-> "bio", vecs |-> v]
  /\ step = "map" /\ result = "none" /\ pinned = 0 /\ nents = 0 /\ sg = <<>> /\ mapped = 0
  /\ length = 0 /\ seg = 0 /\ dma_addr = 0 /\ dma_len = 0
  /\ prp1 = NoPrp /\ prp2 = NoPrp /\ lists = <<>> /\ npages = -1
  /\ dev = "none"

Offset(addr) == addr % PAGE_SIZE
CeilDiv(n, d) == (n + d - 1) \div d

-----------------------------------------------------------------------------
(* nvme_map_user_pages() and nvme_map_bio() *)

\* The i-th page: its part of the buffer
Part(i) ==
  LET from == IF i = 1 THEN call.offset ELSE 0
      left == call.length - (IF i = 1 THEN 0 ELSE (i - 1) * PAGE_SIZE - call.offset) IN
  [addr |-> call.pages[i] * PAGE_SIZE + from, len |-> Min({left, PAGE_SIZE - from})]

Grow(segs, s) ==
  LET l == Last(segs) IN ReplaceAt(segs, Len(segs), [l EXCEPT !.len = @ + s.len])

Touches(segs, s) == segs # <<>> /\ Last(segs).addr + Last(segs).len = s.addr

\* An IOMMU may join what lies together
Joined(segs) ==
  LET J[n \in 0 .. Len(segs)] ==
        IF n = 0 THEN <<>>
        ELSE IF Touches(J[n - 1], segs[n]) THEN Grow(J[n - 1], segs[n]) ELSE Append(J[n - 1], segs[n])
  IN J[Len(segs)]

ToPut_asked(got, count) == count           \* mutant: as many as were asked for

\* "count = err": how many pages are put again
ToPut(got, count) == got

\* A misaligned buffer; fewer pages than asked for; no mapping of them.  An
\* admin command may have no data at all.
MapUserPages ==
  /\ step = "map" /\ call.kind = "ioctl"
  /\ LET count == CeilDiv(call.offset + call.length, PAGE_SIZE)
         segs  == [i \in 1 .. count |-> Part(i)] IN
     \/ /\ call.length = 0 /\ step' = "submit"
        /\ UNCHANGED <<result, pinned, nents, sg, mapped>>
     \/ /\ call.length > 0 /\ result' = "-EINVAL" /\ step' = "end"
        /\ UNCHANGED <<pinned, nents, sg, mapped>>
     \/ /\ call.length > 0
        /\ \E got \in 0 .. count :
             /\ pinned' = got /\ nents' = ToPut(got, count)
             /\ result' = IF got < count THEN "-EFAULT" ELSE "-ENOMEM"
        /\ step' = "put_pages"
        /\ UNCHANGED <<sg, mapped>>
     \/ /\ call.length > 0
        /\ pinned' = count /\ nents' = count
        /\ sg' \in {segs, Joined(segs)}
        /\ mapped' = call.length
        /\ step' = "setup"
        /\ UNCHANGED result
  /\ UNCHANGED <<call, prpVars, dev>>

PutPages ==
  /\ step = "put_pages" /\ step' = "end"
  /\ pinned' = pinned - nents
  /\ UNCHANGED <<call, result, nents, sg, mapped, prpVars, dev>>

\* BIOVEC_NOT_VIRT_MERGEABLE: a hole between two segments
Hole(segs, s) == segs # <<>> /\ (Offset(s.addr) # 0 \/ Offset(Last(segs).addr + Last(segs).len) # 0)

\* The segments up to the first hole
Taken(vecs) ==
  LET T[n \in 0 .. Len(vecs)] ==
        IF n = 0 THEN [segs |-> <<>>, stop |-> FALSE]
        ELSE LET acc == T[n - 1] IN
             IF acc.stop THEN acc
             ELSE IF Touches(acc.segs, vecs[n]) THEN [acc EXCEPT !.segs = Grow(@, vecs[n])]
             ELSE IF Hole(acc.segs, vecs[n]) THEN [acc EXCEPT !.stop = TRUE]
             ELSE [acc EXCEPT !.segs = Append(@, vecs[n])]
  IN T[Len(vecs)].segs

Bytes(segs) ==
  LET B[n \in 0 .. Len(segs)] == IF n = 0 THEN 0 ELSE B[n - 1] + segs[n].len IN B[Len(segs)]

\* nvme_submit_bio_queue() does not look at what is returned, an error included
MapBio ==
  /\ step = "map" /\ call.kind = "bio"
  /\ sg' = Taken(call.vecs) /\ mapped' \in {Bytes(sg'), 0}
  /\ step' = "setup"
  /\ UNCHANGED <<call, result, pinned, nents, prpVars, dev>>

-----------------------------------------------------------------------------
(* nvme_setup_prps() *)

\* The length of a bio is what "result" was before: -EBUSY
Total == IF call.kind = "bio" THEN -EBUSY ELSE mapped

Tested(ret) == IF call.kind = "bio" \/ ret = mapped THEN "submit" ELSE "release"

SetupPrps ==
  /\ step = "setup"
  /\ LET first == PAGE_SIZE - Offset(sg[1].addr)
         rest  == Total - first
         more  == sg[1].len > first
         next  == IF more THEN sg[1].addr + first ELSE IF Len(sg) > 1 THEN sg[2].addr ELSE 0 IN
     /\ prp1' = <<"data", sg[1].addr>>
     /\ length' = rest
     /\ IF rest <= 0
          THEN step' = Tested(Total) /\ UNCHANGED <<seg, dma_addr, dma_len, prp2>>
          ELSE /\ seg' = IF more THEN 1 ELSE 2
               /\ dma_addr' = next
               /\ dma_len' = IF more THEN sg[1].len - first ELSE sg[2].len
               /\ IF rest <= PAGE_SIZE
                    THEN prp2' = <<"data", next>> /\ step' = Tested(Total)
                    ELSE UNCHANGED prp2 /\ step' = "list"
  /\ UNCHANGED <<call, result, pinned, nents, sg, mapped, lists, npages, dev>>

\* Without a list the first two pages can still be transferred
FirstList ==
  /\ step = "list"
  /\ \/ /\ npages' = IF CeilDiv(length, PAGE_SIZE) <= SMALL THEN 0 ELSE 1
        /\ lists' = << <<>> >> /\ prp2' = <<"list", 1>>
        /\ step' = "fill"
        /\ UNCHANGED result
     \/ /\ prp2' = <<"data", dma_addr>>
        /\ step' = "release" /\ result' = "-ENOMEM"
        /\ UNCHANGED <<npages, lists>>
  /\ UNCHANGED <<call, pinned, nents, sg, mapped, length, seg, dma_addr, dma_len, prp1, dev>>

Full_late == Len(Last(lists)) > LIST        \* mutant: off by one

\* The list page has no room: "i == PAGE_SIZE / 8"
Full == Len(Last(lists)) = LIST

\* The last entry moves to the new list and its place takes the new address
NextList ==
  /\ step = "fill" /\ Full
  /\ \/ /\ LET k == Len(lists) IN
           lists' = Append(ReplaceAt(lists, k, ReplaceAt(lists[k], LIST, <<"list", k + 1>>)),
                           <<lists[k][LIST]>>)
        /\ npages' = npages + 1
        /\ UNCHANGED <<step, result>>
     \/ /\ step' = "release" /\ result' = "-ENOMEM"
        /\ UNCHANGED <<lists, npages>>
  /\ UNCHANGED <<call, pinned, nents, sg, mapped, length, seg, dma_addr, dma_len, prp1, prp2, dev>>

Fill ==
  /\ step = "fill" /\ ~Full
  /\ lists' = ReplaceAt(lists, Len(lists), Append(Last(lists), <<"data", dma_addr>>))
  /\ length' = length - PAGE_SIZE
  /\ IF length' <= 0
       THEN step' = "submit" /\ UNCHANGED <<seg, dma_addr, dma_len>>
       ELSE /\ IF dma_len > PAGE_SIZE
                 THEN UNCHANGED seg /\ dma_addr' = dma_addr + PAGE_SIZE /\ dma_len' = dma_len - PAGE_SIZE
                 ELSE seg' = seg + 1 /\ dma_addr' = sg[seg + 1].addr /\ dma_len' = sg[seg + 1].len
            /\ UNCHANGED step
  /\ UNCHANGED <<call, result, pinned, nents, sg, mapped, prp1, prp2, npages, dev>>

-----------------------------------------------------------------------------
(* nvme_submit_io(), nvme_user_admin_cmd(), nvme_unmap_user_pages(), nvme_free_iod() *)

Submit ==
  /\ step = "submit" /\ dev = "none"
  /\ dev' = "has"
  /\ step' = "wait"
  /\ UNCHANGED <<call, result, pinned, nents, sg, mapped, prpVars>>

\* The answer; or the caller is killed or the command timed out, and the
\* controller still has it.
Answer ==
  /\ step = "wait"
  /\ \/ result' = "status" /\ dev' = "done"
     \/ result' \in {"-EINTR", "NVME_SC_ABORT_REQ"} /\ UNCHANGED dev
  /\ step' = "release"
  /\ UNCHANGED <<call, pinned, nents, sg, mapped, prpVars>>

LateAnswer ==
  /\ step = "end" /\ dev = "has" /\ dev' = "done"
  /\ UNCHANGED <<call, step, result, pinned, nents, sg, mapped, prpVars>>

Freed_pages == IF npages < 0 THEN 0 ELSE npages  \* mutant: the small list is forgotten

Freed == IF npages = 0 THEN 1 ELSE IF npages > 0 THEN npages ELSE 0

\* The lists are found through the last entry of each
Release ==
  /\ step = "release"
  /\ pinned' = pinned - nents
  /\ lists' = SubSeq(lists, Freed + 1, Len(lists))
  /\ step' = "end"
  /\ UNCHANGED <<call, result, nents, sg, mapped, length, seg, dma_addr, dma_len, prp1, prp2, npages, dev>>

-----------------------------------------------------------------------------

Next ==
  \/ MapUserPages \/ PutPages \/ MapBio \/ SetupPrps \/ FirstList \/ NextList \/ Fill
  \/ Submit \/ Answer \/ LateAnswer \/ Release

Spec == Init /\ [][Next]_iodVars

-----------------------------------------------------------------------------
(* Properties *)

\* The values each variable can hold.
TypeOK ==
  /\ step \in {"map", "put_pages", "setup", "list", "fill", "submit", "wait", "release", "end"}
  /\ pinned \in Nat /\ nents \in Nat /\ mapped \in Nat /\ length \in Int /\ seg \in 0 .. Len(sg)
  /\ dma_addr \in Nat /\ dma_len \in Nat /\ npages >= -1
  /\ dev \in {"none", "has", "done"}

\* The data entries in the order in which the controller reads them: those of
\* the first k lists, of which the last entry is an address of the next
ChainTo[k \in 0 .. Len(lists)] ==
  IF k = 0 THEN <<>>
  ELSE ChainTo[k - 1] \o (IF k < Len(lists) THEN SubSeq(lists[k], 1, LIST - 1) ELSE lists[k])

Chain == ChainTo[Len(lists)]

\* nvme_setup_prps(): an ioctl's command is submitted with one entry for each
\* page of the buffer, in order, every list but the last ending in the address
\* of the next, and with no more lists than nvme_alloc_iod() made room for.
PrpsDescribeBuffer ==
  step = "submit" /\ pinned > 0 =>
    LET pages == [i \in 1 .. pinned |-> <<"data", Part(i).addr>>] IN
    /\ prp1 = pages[1]
    /\ pinned = 2 => prp2 = pages[2]
    /\ pinned > 2 =>
         /\ Chain = Tail(pages) /\ prp2 = <<"list", 1>>
         /\ \A k \in 1 .. Len(lists) - 1 : lists[k][LIST] = <<"list", k + 1>>
    /\ \A k \in DOMAIN lists : Len(lists[k]) <= (IF npages = 0 THEN SMALL ELSE LIST)
    /\ Len(lists) <= CeilDiv(CeilDiv(mapped + PAGE_SIZE, PAGE_SIZE), LIST - 1)

\* nvme_submit_io(): on every path the pages are put and the lists freed; and
\* the controller has a command without them only if it never answered.
IodReleased ==
  step = "end" =>
    /\ pinned = 0 /\ lists = <<>>
    /\ dev = "has" => result \in {"-EINTR", "NVME_SC_ABORT_REQ"}

\* "length is in bytes": what a command asks for is what was mapped for it
LengthIsMapped == step = "submit" /\ mapped > 0 => Total = mapped
=============================================================================
