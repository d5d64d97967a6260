-------------------------------- MODULE Bytes --------------------------------
(***************************************************************************)
(* Sequences of bytes and the integers in them, as QDataStream writes and  *)
(* reads them.  What is read past the end of a stream is zero.             *)
(***************************************************************************)
LOCAL INSTANCE Integers
LOCAL INSTANCE SequencesExt

Byte == 0 .. 255

\* The k-th byte of v, the lowest first; two's complement.  (The integers of TLC
\* have 32 bits: the bytes above repeat the sign.)
LOCAL Digit(v, k) == IF k < 4 THEN (v \div 256 ^ k) % 256 ELSE IF v < 0 THEN 255 ELSE 0

LE(n, v) == [k \in 1 .. n |-> Digit(v, k - 1)]
BE(n, v) == [k \in 1 .. n |-> Digit(v, n - k)]

Take(s, n) == SubSeq(s, 1, n)
Drop(s, n) == SubSeq(s, n + 1, Len(s))

\* A value read from s and what is left of s.
Got(val, rest) == [val |-> val, rest |-> rest]

ReadBE(n, s) ==
    IF Len(s) < n THEN Got(0, << >>)
    ELSE Got(FoldLeft(LAMBDA acc, d : acc * 256 + d, 0, Take(s, n)), Drop(s, n))
ReadSigned(n, s) ==
    IF Len(s) < n THEN Got(0, << >>)
    ELSE Got(FoldLeft(LAMBDA acc, d : acc * 256 + d, IF s[1] >= 128 THEN -1 ELSE 0,
                      Take(s, n)), Drop(s, n))
ReadLE(n, s) ==
    IF Len(s) < n THEN Got(0, << >>)
    ELSE Got(ReadBE(n, Reverse(Take(s, n))).val, Drop(s, n))

\* readRawData() into n bytes (none when n is negative).
ReadRaw(n, s) ==
    LET k == IF n < 0 THEN 0 ELSE IF n < Len(s) THEN n ELSE Len(s)
    IN Got(Take(s, k), Drop(s, k))

=============================================================================
