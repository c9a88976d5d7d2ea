------------------------------ MODULE Postings ------------------------------
(***************************************************************************)
(* The index: how the regions of a term are written and read, and how a    *)
(* lookup collects those of one term or of all terms that begin alike      *)
(* (sgrep/index.c).  The terms are numbered from 0 in their order, so that *)
(* the terms with a prefix are a range of numbers.                         *)
(***************************************************************************)
EXTENDS Regions

END_OF_POSTINGS_TAG == 127
NEGATIVE_NUMBER_TAG == 255

(***************************************************************************)
(* Numbers are written in one to five bytes; the first says how many.  A   *)
(* number of 2^28 or more is not written.                                  *)
(***************************************************************************)
Byte(n, k) == (n \div 2 ^ (8 * k)) % 256

add_integer(num) ==
  LET n == IF num < 0 THEN -num ELSE num
      bytes == IF n < 127 THEN <<n>>
               ELSE IF n < 2 ^ 14 THEN <<Byte(n, 1) + 128, Byte(n, 0)>>
               ELSE IF n < 2 ^ 21 THEN <<Byte(n, 2) + 192, Byte(n, 1), Byte(n, 0)>>
               ELSE IF n < 2 ^ 28
                 THEN <<Byte(n, 3) + 224, Byte(n, 2), Byte(n, 1), Byte(n, 0)>>
               ELSE <<>>
  IN IF num < 0 THEN <<NEGATIVE_NUMBER_TAG>> \o bytes ELSE bytes

\* How many bytes follow the first, and what it says of the number.
Follow(i) == IF i < 127 THEN 0 ELSE IF i < 192 THEN 1 ELSE IF i < 224 THEN 2
             ELSE IF i < 240 THEN 3 ELSE 4
Leading(i) == IF i < 127 THEN i ELSE IF i < 192 THEN i % 64
              ELSE IF i < 224 THEN i % 32 ELSE IF i < 240 THEN i % 16 ELSE 0

\* The numbers up to the end of the postings.
RECURSIVE get_integers(_)
get_integers(bytes) ==
  LET neg == bytes[1] = NEGATIVE_NUMBER_TAG
      tail == IF neg THEN Tail(bytes) ELSE bytes
      i == tail[1]
      k == Follow(i)
      num == FoldLeft(LAMBDA n, b : n * 256 + b, Leading(i), SubSeq(tail, 2, k + 1))
  IN IF i = END_OF_POSTINGS_TAG THEN <<>>
     ELSE <<IF neg THEN -num ELSE num>> \o get_integers(SubSeq(tail, k + 2, Len(tail)))

\* read_all_postings: how far it reads to find the end.
RECURSIVE PostingsLength(_)
PostingsLength(bytes) ==
  LET skip == IF bytes[1] = NEGATIVE_NUMBER_TAG THEN 1 ELSE 0
      i == bytes[skip + 1]
      used == skip + 1 + Follow(i)
  IN IF i = END_OF_POSTINGS_TAG THEN skip + 1
     ELSE used + PostingsLength(SubSeq(bytes, used + 1, Len(bytes)))

(***************************************************************************)
(* Regions are written as the differences of their starts and ends.  len   *)
(* is positive while all regions have that length: then ends are left out, *)
(* and the last number again, a difference of zero, is the tag for another *)
(* length; it is doubled where it is a start.  At first len is that of the *)
(* term without its first character.                                       *)
(***************************************************************************)
Entries(index, len) == [index |-> index, len |-> len]

\* Variant: the tag is not doubled.
RegionEntriesPlain(b, r) ==
  LET len == r.end - r.start + 1
  IN IF b.len = len /\ r.start # 0 THEN <<r.start>>
     ELSE IF b.len > 0 THEN <<b.index, r.start, r.end>>
     ELSE <<r.start, r.end>>

\* What is written for a region, as starts and ends.
RegionEntries(b, r) ==
  LET len == r.end - r.start + 1
  IN IF b.len = len /\ r.start # 0
       THEN IF r.start = b.index THEN <<r.start, r.start>> ELSE <<r.start>>
     ELSE IF b.len > 0 THEN <<b.index, r.start, r.end>>
     ELSE <<r.start, r.end>>

NextLen(b, r) == LET len == r.end - r.start + 1
                 IN IF len \in {b.len, -b.len} /\ (b.len < 0 \/ r.start # 0)
                      THEN len ELSE -len

add_region_to_index(b, r) ==
  LET es == RegionEntries(b, r)
      diffs == [i \in 1 .. Len(es) |-> es[i] - (IF i = 1 THEN b.index ELSE es[i - 1])]
  IN [index |-> Last(es), len |-> NextLen(b, r),
      bytes |-> b.bytes \o FlattenSeq([i \in 1 .. Len(diffs) |-> add_integer(diffs[i])])]

Written(regs, term_len) ==
  FoldLeft(add_region_to_index, [index |-> 0, len |-> term_len - 1, bytes |-> <<>>],
           regs).bytes \o <<END_OF_POSTINGS_TAG>>

\* get_region_index, region after region: es are the differences that are
\* left.  An assertion says that none is missing.
NoRegion == Region(-1, -1)

RECURSIVE ReadRegions(_, _, _)
ReadRegions(es, index, len) ==
  IF es = <<>> THEN <<>>
  ELSE LET s == index + es[1]
           tagged == len > 0 /\ es[1] = 0
           s2 == IF Len(es) = 1 THEN s ELSE s + es[2]
           escaped == tagged /\ Len(es) > 1 /\ s2 = index /\ s2 # 0
           k == IF tagged THEN 2 ELSE 1          \* the number of the start
           start == IF tagged THEN s2 ELSE s
           end == IF Len(es) > k THEN start + es[k + 1] ELSE start
           size == end - start + 1
       IN IF len > 0 /\ (~tagged \/ escaped)
            THEN <<Region(start, start + len - 1)>>
                   \o ReadRegions(SubSeq(es, k + 1, Len(es)), start, len)
          ELSE IF Len(es) = k THEN <<NoRegion>>
          ELSE <<Region(start, end)>>
                 \o ReadRegions(SubSeq(es, k + 2, Len(es)), end,
                                IF ~tagged /\ size = -len THEN size ELSE -size)

ReadPostings(bytes, term_len) == ReadRegions(get_integers(bytes), 0, term_len - 1)

(***************************************************************************)
(* do_recursive_lookup: the entries s .. e-1 are a tree with the middle as *)
(* its root.  The terms sought are from begin to end, those with a prefix  *)
(* or the only one; end is before begin when there are none.  Which        *)
(* entries are called back, in which order: not those in a part whose root *)
(* the cache cannot give, and where the postings of a root cannot be read  *)
(* neither it nor those after it.                                          *)
(***************************************************************************)
RECURSIVE do_recursive_lookup(_, _, _, _, _)
do_recursive_lookup(begin, end, s, e, faults) ==
  LET m == s + (e - s) \div 2
      found == begin <= m /\ m <= end
      before == IF begin <= m /\ m > s
                  THEN do_recursive_lookup(begin, end, s, m, faults) ELSE <<>>
      after == IF m <= end /\ m < e - 1
                 THEN do_recursive_lookup(begin, end, m + 1, e, faults) ELSE <<>>
  IN IF m \in faults.refused THEN <<>>
     ELSE IF found /\ m \in faults.unread THEN before
     ELSE before \o (IF found THEN <<m>> ELSE <<>>) \o after

(***************************************************************************)
(* read_and_sort_postings: the regions of an entry go into the slot i of   *)
(* the smallest 2^i that is not less than their number, together with what *)
(* was there; a single one waits in one for the next entry.                *)
(***************************************************************************)
Slots == 0 .. 4
NoReader == [one |-> <<>>, slots |-> [i \in Slots |-> <<>>]]

Slot(n) == Min({i \in Slots : 2 ^ i >= n})

\* Variant: what was in the slot is written over.
StoreOver(slots, i, regs) == [slots EXCEPT ![i] = regs]

\* A slot that is used is merged; when the regions are then too many for it
\* the next one is tried.
RECURSIVE Store(_, _, _)
Store(slots, i, regs) ==
  IF slots[i] = <<>> THEN [slots EXCEPT ![i] = regs]
  ELSE LET merged == FirstOf(regs, slots[i])
       IN Store([slots EXCEPT ![i] = <<>>],
                IF 2 ^ i < Len(merged) THEN i + 1 ELSE i, merged)

\* Without memory to merge or to copy the regions are dropped.
read_and_sort_postings(read, regs, nomemory) ==
  LET all == FirstOf(read.one, regs)
  IN IF regs = <<>> THEN read
     ELSE IF Len(all) = 1 THEN [read EXCEPT !.one = all]
     ELSE [one |-> <<>>, slots |-> IF nomemory THEN read.slots
                                   ELSE Store(read.slots, Slot(Len(all)), all)]

\* What is left in one and in the slots is merged in the end.
index_lookup_sorting(index, begin, end, faults) ==
  LET found == do_recursive_lookup(begin, end, 0, Len(index), faults)
      read == FoldLeft(LAMBDA acc, m :
                read_and_sort_postings(acc, index[m + 1], m \in faults.nomemory),
                NoReader, found)
  IN List(FoldLeft(FirstOf, read.one, [i \in 1 .. 5 |-> read.slots[i - 1]]), TRUE)

\* The list of one term is as it was written, marked as nested when it is
\* that of the elements; that of a prefix always is.
index_lookup(index, begin, end, prefix, elements, faults) ==
  IF prefix THEN index_lookup_sorting(index, begin, end, faults)
  ELSE LET found == do_recursive_lookup(begin, end, 0, Len(index), faults)
       IN List(FlattenSeq([i \in 1 .. Len(found) |-> index[found[i] + 1]]), elements)
=============================================================================
