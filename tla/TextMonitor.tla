----------------------------- MODULE TextMonitor ------------------------------
(* mu.py: TextOutputMonitor.  Each chunk goes through the line splitter, each  *)
(* record through normalisation and decoding into a text sink that may raise   *)
(* at any write or flush.                                                      *)
(*                                                                             *)
(* Bytes: "n" newline, "r" carriage return, "h" and "t" the two halves of one  *)
(* character of a multi-byte encoding; any other is a character by itself.  The*)
(* sink is the sequence of characters written to it: "c" is the character of   *)
(* two bytes, "?" a replacement, "[ts]" a timestamp prefix and "[footer]" the  *)
(* disable marker.                                                             *)

EXTENDS LineSplitter

CONSTANT SinkMayFail

ASSUME TextMonitorAssumption == /\ SinkMayFail \in BOOLEAN
                                /\ Bytes \cap {"[ts]", "[footer]"} = {}

VARIABLES
  options,   \* the constructor's arguments
  phase,     \* "active", "failed" (process() raised) or "disabled"
  sink,      \* what has been written
  flushed,   \* how much of it has been flushed
  lost       \* an operation on the sink has raised

textVars == <<options, phase, sink, flushed, lost>>
vars == <<splitterVars, textVars>>

\* One value for each way an argument is judged.
Arguments == [limit: {"positive", "notPositive"},
              precision: {"None", "0..9", "outOfRange", "notAnInteger"},
              base: {"None", "finite", "negative", "notFinite", "notANumber"},
              auto_flush: BOOLEAN,
              append_disable_marker: BOOLEAN]

\* What __init__ lets through.
Accepted(a) == /\ a.precision \in {"None", "0..9"}
               /\ a.base \in {"None", "finite"}
               /\ a.base # "None" => a.precision # "None"
               /\ a.limit = "positive"

Chars == (Bytes \ {"h", "t"}) \cup {"c", "?", "[ts]", "[footer]"}

TypeOK == /\ SplitterTypeOK
          /\ options \in {a \in Arguments : Accepted(a)}
          /\ phase \in {"active", "failed", "disabled"}
          /\ sink \in Seq(Chars)
          /\ flushed \in 0..Len(sink)
          /\ lost \in BOOLEAN

Init == /\ SplitterInit
        /\ options \in {a \in Arguments : Accepted(a)}
        /\ phase = "active" /\ sink = <<>> /\ flushed = 0 /\ lost = FALSE

\* Faulty: the newline goes with the carriage return.
Normalized_NoNewline(line) ==
  IF IsSuffix(<<"r", "n">>, line) THEN SubSeq(line, 1, Len(line) - 2)
  ELSE line

\* A record that ends in CR LF ends in LF.
Normalized(line) ==
  IF IsSuffix(<<"r", "n">>, line)
    THEN SubSeq(line, 1, Len(line) - 2) \o <<"n">>
    ELSE line

\* decode(errors="replace"), one record at a time.
Decoded(s) ==
  FlattenSeq([i \in 1..Len(s) |->
    CASE s[i] = "h" -> IF i < Len(s) /\ s[i + 1] = "t" THEN <<"c">> ELSE <<"?">>
      [] s[i] = "t" -> IF i > 1 /\ s[i - 1] = "h" THEN <<>> ELSE <<"?">>
      [] OTHER -> <<s[i]>>])

\* The calls on the sink: a flush is the write of nothing.
flush == <<>>

\* The loop of process() over the records of one feed().
Calls(records) ==
  FlattenSeq([i \in 1..Len(records) |->
    (IF options.precision # "None" THEN << <<"[ts]">> >> ELSE <<>>)
      \o <<Decoded(Normalized(records[i]))>>
      \o (IF options.auto_flush THEN <<flush>> ELSE <<>>)])

\* The calls are made in order, up to the first one that raises.
Make(calls, next) ==
  \E n \in IF SinkMayFail THEN 0..Len(calls) ELSE {Len(calls)} :
    LET made == SubSeq(calls, 1, n)
        flushes == {i \in 1..n : made[i] = flush}
    IN /\ sink' = sink \o FlattenSeq(made)
       /\ flushed' = IF flushes = {} THEN flushed
                     ELSE Len(sink) + Len(FlattenSeq(SubSeq(made, 1, Max(flushes))))
       /\ phase' = IF n = Len(calls) \/ next = "disabled" THEN next ELSE "failed"
       /\ lost' = (lost \/ n < Len(calls))

NewRecords == SubSeq(emitted', Len(emitted) + 1, Len(emitted'))

\* feed(b"") with and without something to flush.
FeedNothing == Flush \/ (start = Len(buf) /\ UNCHANGED splitterVars)

\* process(data), called with a chunk or, to flush the tail, with b"".
Process ==
  /\ phase = "active"
  /\ \/ \E chunk \in Chunks : Len(fed) + Len(chunk) <= MaxFed /\ Feed(chunk)
     \/ FeedNothing
  /\ Make(Calls(NewRecords), "active")
  /\ UNCHANGED options

\* Faulty: the footer is not flushed.
OnDisable_FooterUnflushed ==
  /\ phase \in {"active", "failed"}
  /\ FeedNothing
  /\ Make(Calls(NewRecords) \o <<flush>>
            \o (IF options.append_disable_marker THEN << <<"[footer]">> >>
                ELSE <<>>),
          "disabled")
  /\ UNCHANGED options

\* on_disable(): called once, at the end of the stream or after a failure.
OnDisable ==
  /\ phase \in {"active", "failed"}
  /\ FeedNothing
  /\ Make(Calls(NewRecords) \o <<flush>>
            \o (IF options.append_disable_marker
                  THEN << <<"[footer]">>, flush >> ELSE <<>>),
          "disabled")
  /\ UNCHANGED options

Next == Process \/ OnDisable

Spec == Init /\ [][Next]_vars

-----------------------------------------------------------------------------
(* Properties.                                                                 *)

\* The text of an input, computed on the whole of it: every CR LF becomes LF,
\* the rest is decoded, and every line is stamped if lines are.
TextOf(input) ==
  LET lf == FlattenSeq([i \in 1..Len(input) |->
                IF input[i] = "r" /\ i < Len(input) /\ input[i + 1] = "n"
                  THEN <<>> ELSE <<input[i]>>])
      text == Decoded(lf)
  IN IF options.precision = "None" THEN text
     ELSE FlattenSeq([i \in 1..Len(text) |->
            IF i = 1 \/ text[i - 1] = "n" THEN <<"[ts]", text[i]>>
            ELSE <<text[i]>>])

\* Some record but the last has no newline: the limit or a flush cut a line.
LineWasCut == \E i \in 1..Len(emitted) - 1 : Last(emitted[i]) # "n"

Footer == IF phase = "disabled" /\ options.append_disable_marker
            THEN <<"[footer]">> ELSE <<>>

\* However the input is cut into chunks, what is in the sink is the text of the
\* input up to the retained tail - no line is missing, repeated, stamped twice
\* or left with its CR - and after a failed call it is a part of it from the
\* start.  Lines that were cut are excepted: a CR LF or a character cut in two
\* is neither normalised nor decoded.
TextIsInput ==
  LET consumed == FlattenSeq(emitted)
  IN ~LineWasCut =>
       /\ ~lost => sink = TextOf(consumed) \o Footer
       /\ phase = "failed" => IsPrefix(sink, TextOf(consumed))

\* With auto_flush nothing is left unflushed between calls; once disabled, if
\* no call raised, nothing is retained or unflushed, with or without
\* auto_flush, and the footer, if there is one, is the last thing written.
NothingLeftUnflushed ==
  /\ options.auto_flush /\ ~lost => flushed = Len(sink)
  /\ phase = "disabled" => Retained = <<>>
  /\ phase = "disabled" /\ ~lost =>
       /\ flushed = Len(sink)
       /\ options.append_disable_marker =>
            /\ Last(sink) = "[footer]"
            /\ Cardinality({i \in DOMAIN sink : sink[i] = "[footer]"}) = 1
=============================================================================
