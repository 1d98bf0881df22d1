----------------------------- MODULE LineSplitter -----------------------------
(* mu.py: IncrementalLineSplitter, the state a TextOutputMonitor keeps between *)
(* chunks.  A byte is "n" (newline) or any other symbol; buf and start are the *)
(* fields _buf and _start, fed and emitted remember the whole run.  TextMonitor*)
(* drives it.                                                                  *)

EXTENDS Naturals, Sequences, FiniteSets, SequencesExt

CONSTANTS
  Bytes,      \* the symbols of the input, "n" among them
  Limit,      \* buffer_limit
  MaxChunk,   \* bound: bytes in one chunk
  MaxFed      \* bound: bytes fed in total

ASSUME LineSplitterAssumption == /\ "n" \in Bytes
                                 /\ Limit \in Nat \ {0}
                                 /\ MaxChunk \in Nat /\ MaxFed \in Nat

VARIABLES
  buf, start,
  fed,       \* every byte fed so far
  emitted    \* every record returned so far

splitterVars == <<buf, start, fed, emitted>>

SplitterTypeOK ==
  /\ buf \in Seq(Bytes)
  /\ start \in 0..Len(buf)
  /\ fed \in Seq(Bytes)
  /\ emitted \in Seq(Seq(Bytes))

SplitterInit == buf = <<>> /\ start = 0 /\ fed = <<>> /\ emitted = <<>>

Chunks == UNION {[1..n -> Bytes] : n \in 1..MaxChunk}

After(b, from) == SubSeq(b, from + 1, Len(b))

\* Where the lines of b after position `from` end.
LineEnds(b, from) == {i \in from + 1 .. Len(b) : b[i] = "n"}

\* The loop over find(): each line ends at the first newline after the one
\* before, the first of them after `from`.
Lines(b, from) ==
  LET n == Cardinality(LineEnds(b, from))
      end[i \in 0..n] == IF i = 0 THEN from ELSE Min(LineEnds(b, end[i - 1]))
  IN [i \in 1..n |-> SubSeq(b, end[i - 1] + 1, end[i])]

\* Faulty: _start is left on the newline.
AfterLines_OnNewline(b, from) ==
  IF LineEnds(b, from) = {} THEN from ELSE Max(LineEnds(b, from)) - 1

\* _start after that loop.
AfterLines(b, from) ==
  IF LineEnds(b, from) = {} THEN from ELSE Max(LineEnds(b, from))

\* Faulty: one byte too late, one byte too early.
Overflows_Late(b, at) == Len(b) - at > Limit + 1
Overflows_Early(b, at) == Len(b) - at >= Limit

\* A tail that outgrew the limit is emitted early.
Overflows(b, at) == Len(b) - at > Limit

\* The consumed prefix is deleted once it is more than half of the buffer.
Compacts(b, at) == at > 0 /\ at > Len(b) \div 2

\* feed(chunk), chunk not empty.
Feed(chunk) ==
  LET b == buf \o chunk
      after == AfterLines(b, start)
      at == IF Overflows(b, after) THEN Len(b) ELSE after
  IN /\ fed' = fed \o chunk
     /\ emitted' = emitted \o Lines(b, start)
                     \o (IF at = after THEN <<>> ELSE <<After(b, after)>>)
     /\ IF Compacts(b, at)
          THEN buf' = After(b, at) /\ start' = 0
          ELSE buf' = b /\ start' = at

\* Faulty: _start is not reset with the buffer.
Flush_KeepsStart ==
  /\ start < Len(buf)
  /\ emitted' = Append(emitted, After(buf, start))
  /\ buf' = <<>>
  /\ UNCHANGED <<start, fed>>

\* feed(b""): the tail, if any, becomes a record without a newline.
Flush ==
  /\ start < Len(buf)
  /\ emitted' = Append(emitted, After(buf, start))
  /\ buf' = <<>> /\ start' = 0
  /\ UNCHANGED fed

-----------------------------------------------------------------------------
(* Properties.                                                                 *)

Retained == After(buf, start)

\* However the input is cut into chunks, flushed and compacted, the records
\* and the retained tail are the input: no byte is lost, repeated or moved.
Lossless == FlattenSeq(emitted) \o Retained = fed

\* What waits for a newline holds none and is never longer than the limit, and
\* the bytes kept behind it, already emitted, are no more than it is.
CarryOverBounded ==
  /\ Len(Retained) <= Limit
  /\ \A i \in 1..Len(Retained) : Retained[i] # "n"
  /\ start <= Len(buf) - start

\* A record is a line, with its newline last and no other in it, or a fragment:
\* more than the limit without a newline unless it came from a flush.
EveryRecordIsALine ==
  [][\A i \in Len(emitted) + 1 .. Len(emitted') :
       LET r == emitted'[i] IN
         /\ r # <<>>
         /\ \A k \in 1..Len(r) - 1 : r[k] # "n"
         /\ Last(r) # "n" /\ fed' # fed => Len(r) > Limit]_splitterVars
=============================================================================
