------------------------------ MODULE Ziplist -------------------------------
(***************************************************************************)
(* ziplist.c: a list in one block of memory.  Every entry starts with the  *)
(* length of the one before it, in one byte or, from BigLen on, in five:   *)
(* a change of an entry may change the length of the next one, and so on   *)
(* (__ziplistCascadeUpdate).  The header has the number of bytes, the      *)
(* offset of the last entry, and the number of entries as far as it fits.  *)
(*                                                                         *)
(* An entry is [prev, size, body, value]: the length of the one before,    *)
(* the bytes that takes, those of the rest, and what it stands for.        *)
(***************************************************************************)
EXTENDS Integers, Sequences, SequencesExt

CONSTANTS BigLen, MaxLength, HeaderSize

\* What an entry stands for when its bytes are not those that were stored
Lost == 0

zipPrevEncodeLength(len) == IF len < BigLen THEN 1 ELSE 5
zipRawEntryLength(e) == e.size + e.body
ziplistNew == [bytes |-> HeaderSize + 1, tail |-> HeaderSize, length |-> 0, entries |-> <<>>]

\* Entry i starts here; entry Len + 1 is the end mark.
Offset(zl, i) ==
  HeaderSize + FoldLeft(LAMBDA n, e : n + zipRawEntryLength(e), 0, SubSeq(zl.entries, 1, i - 1))
At(zl, offset) == CHOOSE i \in 1..(Len(zl.entries) + 1) : Offset(zl, i) = offset
IsTail(zl, i) == i = Len(zl.entries)

\* ZIPLIST_INCR_LENGTH: once the number does not fit it is not counted.
Increased(zl, n) == IF zl.length < MaxLength THEN zl.length + n ELSE zl.length

\* Entry i has changed its length: the ones after it follow, as far as they
\* must.  A field is never made shorter here.
RECURSIVE ziplistCascadeUpdate(_, _)
ziplistCascadeUpdate(zl, i) ==
  LET raw == zipRawEntryLength(zl.entries[i])
      extra == zipPrevEncodeLength(raw) - zl.entries[i + 1].size
      set == [zl EXCEPT !.entries[i + 1].prev = raw]
  IN  IF i >= Len(zl.entries) \/ zl.entries[i + 1].prev = raw THEN zl
      ELSE IF extra <= 0 THEN set
      ELSE ziplistCascadeUpdate(
             [set EXCEPT !.entries[i + 1].size = @ + extra, !.bytes = @ + extra,
                         !.tail = IF @ = Offset(zl, i + 1) THEN @ ELSE @ + extra], i + 1)
\* The entry to be put before entry i, or at the end, and how much longer that
\* makes the length in front of entry i.
NewEntry(zl, i, body, value) ==
  LET prev == IF i <= Len(zl.entries) THEN zl.entries[i].prev
              ELSE IF zl.entries = <<>> THEN 0 ELSE zipRawEntryLength(zl.entries[At(zl, zl.tail)])
  IN  [prev |-> prev, size |-> zipPrevEncodeLength(prev), body |-> body, value |-> value]
zipPrevLenByteDiff(zl, i, reqlen) ==
  IF i > Len(zl.entries) THEN 0 ELSE zipPrevEncodeLength(reqlen) - zl.entries[i].size

\* The length gives back more bytes than the entry takes: the block is made
\* smaller, and its end mark written, before its bytes have been moved, and the
\* last ones, of the value of the last entry, are lost.
LosesBytes(zl, i, body) ==
  LET reqlen == zipRawEntryLength(NewEntry(zl, i, body, Lost))
  IN  reqlen + zipPrevLenByteDiff(zl, i, reqlen) < 0

ziplistInsert(zl, i, body, value) ==
  LET end == i > Len(zl.entries)
      new == NewEntry(zl, i, body, value)
      reqlen == zipRawEntryLength(new)
      nextdiff == zipPrevLenByteDiff(zl, i, reqlen)
      next == [zl.entries[i] EXCEPT !.prev = reqlen, !.size = @ + nextdiff]
      moved == [zl EXCEPT
                  !.bytes = @ + reqlen + nextdiff, !.length = Increased(zl, 1),
                  !.entries = InsertAt(IF end THEN @ ELSE [@ EXCEPT ![i] = next], i, new),
                  !.tail = IF end THEN zl.bytes - 1
                           ELSE @ + reqlen + IF IsTail(zl, i) THEN 0 ELSE nextdiff]
      grown == IF LosesBytes(zl, i, body) THEN [moved EXCEPT !.entries[Len(zl.entries) + 1].value = Lost]
               ELSE moved
  IN  IF nextdiff = 0 THEN grown ELSE ziplistCascadeUpdate(grown, i + 1)

\* num entries, or as many as there are, from entry i on.
ziplistDelete(zl, i, num) ==
  LET n == IF i + num - 1 <= Len(zl.entries) THEN num ELSE Len(zl.entries) - i + 1
      j == i + n
      end == j > Len(zl.entries)
      totlen == Offset(zl, j) - Offset(zl, i)
      prev == zl.entries[i].prev
      nextdiff == IF end THEN 0 ELSE zipPrevEncodeLength(prev) - zl.entries[j].size
      next == [zl.entries[j] EXCEPT !.prev = prev, !.size = @ + nextdiff]
      rest == IF end THEN <<>> ELSE <<next>> \o SubSeq(zl.entries, j + 1, Len(zl.entries))
      shrunk == [zl EXCEPT
                   !.bytes = @ - totlen + nextdiff, !.length = Increased(zl, -n),
                   !.entries = SubSeq(@, 1, i - 1) \o rest,
                   !.tail = IF end THEN Offset(zl, i) - prev
                            ELSE @ - totlen + IF IsTail(zl, j) THEN 0 ELSE nextdiff]
  IN  IF n <= 0 THEN zl ELSE IF nextdiff = 0 THEN shrunk ELSE ziplistCascadeUpdate(shrunk, i)

\* The number of entries is counted, and stored again, when it had not fitted.
ziplistLen(zl) == IF zl.length < MaxLength THEN zl.length ELSE Len(zl.entries)
AfterLen(zl) == [zl EXCEPT !.length = IF ziplistLen(zl) < MaxLength THEN ziplistLen(zl) ELSE @]

\* The entry that is k-th from the end, 1 for the last: through tail and prev.
ziplistIndexBack(zl, k) ==
  LET back[n \in Nat] == IF n = 1 THEN zl.tail
                         ELSE back[n - 1] - zl.entries[At(zl, back[n - 1])].prev
  IN  At(zl, back[k])
=============================================================================
