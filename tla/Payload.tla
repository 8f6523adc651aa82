--------------------------------- MODULE Payload ---------------------------------
(* The payloads of packets: the cursor and the writer of payload_utils.h, and   *)
(* the bytes of numbers, the lowest first.                                      *)
EXTENDS Integers, Sequences, Chars

\* The bytes of a number below 2^31 in a field of w bytes.
LE(n, w) == [k \in 1 .. w |-> IF k <= 4 THEN (n \div 256 ^ (k - 1)) % 256 ELSE 0]

\* The number in a field, from its highest byte on; one that TLC has no integer for
\* counts as the largest.
Largest == 2147483647

Lengthened(n, byte) == IF n >= Largest \div 256 THEN Largest ELSE 256 * n + byte

Value(bytes) ==
  LET n[k \in 0 .. Len(bytes)] ==
        IF k = 0 THEN 0 ELSE Lengthened(n[k - 1], bytes[Len(bytes) + 1 - k])
  IN n[Len(bytes)]

\* cursor_get_u8, u16, u32 and u64, one after the other: a field that is not there
\* whole reads as 0, sets the error and leaves the cursor where it is.
Get(cursor, w) ==
  IF Len(cursor.rest) < w
  THEN [cursor EXCEPT !.error = TRUE, !.fields = Append(@, LE(0, w))]
  ELSE [cursor EXCEPT !.fields = Append(@, SubSeq(cursor.rest, 1, w)),
                      !.rest = SubSeq(@, w + 1, Len(@))]

Read(payload, widths) ==
  LET cursor[k \in 0 .. Len(widths)] ==
        IF k = 0 THEN [rest |-> payload, error |-> FALSE, fields |-> <<>>]
        ELSE Get(cursor[k - 1], widths[k])
  IN cursor[Len(widths)]

\* writer_put_u8, u16 and u64: a field that there is no room for is left out.
Put(writer, field) ==
  IF writer.room < Len(field) THEN [writer EXCEPT !.error = TRUE]
  ELSE [writer EXCEPT !.bytes = @ \o field, !.room = @ - Len(field)]

Written(room, fields) ==
  LET writer[k \in 0 .. Len(fields)] ==
        IF k = 0 THEN [bytes |-> <<>>, room |-> room, error |-> FALSE]
        ELSE Put(writer[k - 1], fields[k])
  IN writer[Len(fields)]
=============================================================================
