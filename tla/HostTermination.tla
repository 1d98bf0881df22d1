--------------------------- MODULE HostTermination ----------------------------
(* host_control.py and _host_control/waker.py: one HostTerminationRequest, a   *)
(* socket pair that the caller triggers and closes from any thread, and the    *)
(* runs attached to it through a descriptor of their own.  Nobody ever reads   *)
(* the byte that trigger() sends, which is what makes a trigger sticky.        *)
(*                                                                             *)
(* trigger() and close() run in threads of the caller: their steps interleave  *)
(* with each other and with the event loops of the runs.  close() may come at  *)
(* any moment, also when the documentation forbids it.                         *)

EXTENDS Integers

CONSTANTS
  Runs,         \* calls of run_ex() given this request
  LoopReaders   \* the runs whose loop has add_reader(); others poll

ASSUME HostTerminationAssumption == LoopReaders \subseteq Runs

VARIABLES
  fields,      \* _reader and _writer: "set" or, once close() began, "none"
  writerEnd,   \* the descriptor of the writer: "open" or "closed"
  byteSent,    \* a byte is in the socket, for ever
  triggerPc,   \* "idle", or "sending" with the writer already fetched
  closePc,     \* "idle", "closing" or "closed"
  returned,    \* some trigger() that found a writer has returned
  attachment,  \* of each run
  held,        \* the run's attachment still refers to its descriptor
  dups,        \* descriptors of the run that are open
  request      \* the run's ext_termination_request

sourceVars == <<fields, writerEnd, byteSent>>
callerVars == <<triggerPc, closePc, returned>>
runVars == <<attachment, held, dups, request>>
vars == <<sourceVars, callerVars, runVars>>

TypeOK ==
  /\ fields \in {"set", "none"}
  /\ writerEnd \in {"open", "closed"}
  /\ byteSent \in BOOLEAN
  /\ triggerPc \in {"idle", "sending"}
  /\ closePc \in {"idle", "closing", "closed"}
  /\ returned \in BOOLEAN
  /\ attachment \in [Runs -> {"none", "attaching", "attached", "detached",
                              "refused"}]
  /\ held \in [Runs -> BOOLEAN]
  /\ dups \in [Runs -> 0..1]
  /\ request \in [Runs -> BOOLEAN]

Init ==
  /\ fields = "set" /\ writerEnd = "open"
  /\ byteSent = FALSE
  /\ triggerPc = "idle" /\ closePc = "idle" /\ returned = FALSE
  /\ attachment = [r \in Runs |-> "none"]
  /\ held = [r \in Runs |-> FALSE]
  /\ dups = [r \in Runs |-> 0]
  /\ request = [r \in Runs |-> FALSE]

-----------------------------------------------------------------------------
(* trigger(): fetches the writer, then sends.  A full socket already holds a   *)
(* byte; a writer closed in between is an OSError, which is swallowed.         *)

TriggerFetches ==
  /\ triggerPc = "idle" /\ fields = "set"
  /\ triggerPc' = "sending"
  /\ UNCHANGED <<sourceVars, closePc, returned, runVars>>

\* Faulty: only the runs attached by now are told.
TriggerSends_Unlatched ==
  /\ triggerPc = "sending"
  /\ triggerPc' = "idle"
  /\ byteSent' = (byteSent \/ \E r \in Runs : attachment[r] = "attached")
  /\ returned' = TRUE
  /\ UNCHANGED <<fields, writerEnd, closePc, runVars>>

TriggerSends ==
  /\ triggerPc = "sending"
  /\ triggerPc' = "idle"
  /\ byteSent' = (byteSent \/ writerEnd = "open")
  /\ returned' = TRUE
  /\ UNCHANGED <<fields, writerEnd, closePc, runVars>>

(* close(): forgets both ends, then closes the reader and the writer.  A       *)
(* second close() raises and changes nothing.                                  *)

CloseBegins ==
  /\ closePc = "idle"
  /\ closePc' = "closing"
  /\ fields' = "none"
  /\ UNCHANGED <<writerEnd, byteSent, triggerPc, returned, runVars>>

CloseEnds ==
  /\ closePc = "closing"
  /\ closePc' = "closed"
  /\ writerEnd' = "closed"
  /\ UNCHANGED <<fields, byteSent, triggerPc, returned, runVars>>

-----------------------------------------------------------------------------
(* The runs.                                                                   *)

\* A duplicated reader is readable when a byte is there or at end of file.
Readable == byteSent \/ writerEnd = "closed"

\* dup_reader() looks at the reader twice: is it there, ...
AttachChecks(r) ==
  /\ attachment[r] = "none" /\ fields = "set"
  /\ attachment' = [attachment EXCEPT ![r] = "attaching"]
  /\ UNCHANGED <<sourceVars, callerVars, held, dups, request>>

\* ... and to duplicate it.
Attach(r) ==
  /\ attachment[r] = "attaching" /\ fields = "set"
  /\ attachment' = [attachment EXCEPT ![r] = "attached"]
  /\ held' = [held EXCEPT ![r] = TRUE]
  /\ dups' = [dups EXCEPT ![r] = @ + 1]
  /\ UNCHANGED <<sourceVars, callerVars, request>>

\* A closed request refuses, and run_ex() raises OSError; one that is closed
\* between the two looks refuses too, with whatever exception.
AttachRefused(r) ==
  /\ attachment[r] \in {"none", "attaching"} /\ fields = "none"
  /\ attachment' = [attachment EXCEPT ![r] = "refused"]
  /\ UNCHANGED <<sourceVars, callerVars, held, dups, request>>

\* Faulty: _attachment is not looked at, or the descriptor not closed.
Detach_Again(r) ==
  /\ held' = [held EXCEPT ![r] = FALSE]
  /\ dups' = [dups EXCEPT ![r] = @ - 1]
Detach_Leaks(r) ==
  /\ held' = [held EXCEPT ![r] = FALSE]
  /\ UNCHANGED dups

\* _detach() of the loop attachment, once only, and reader.close() of the other.
Detach(r) ==
  /\ held' = [held EXCEPT ![r] = FALSE]
  /\ dups' = [dups EXCEPT ![r] = IF held[r] THEN @ - 1 ELSE @]

\* _AsyncLoopReaderAttachment._notify: detach at once, then request.
Notify(r) ==
  /\ r \in LoopReaders /\ held[r] /\ Readable
  /\ Detach(r)
  /\ request' = [request EXCEPT ![r] = TRUE]
  /\ UNCHANGED <<sourceVars, callerVars, attachment>>

\* Faulty: the poll looks for the byte, so that end of file is nothing.
PollSees_ByteOnly(r) ==
  /\ r \notin LoopReaders /\ attachment[r] = "attached" /\ ~request[r]
  /\ byteSent
  /\ request' = [request EXCEPT ![r] = TRUE]
  /\ UNCHANGED <<sourceVars, callerVars, attachment, held, dups>>

\* _PollingWakeupAttachment._poll: request, and keep the descriptor.
PollSees(r) ==
  /\ r \notin LoopReaders /\ attachment[r] = "attached" /\ ~request[r]
  /\ Readable
  /\ request' = [request EXCEPT ![r] = TRUE]
  /\ UNCHANGED <<sourceVars, callerVars, attachment, held, dups>>

\* deactivate(): the run is over.
Deactivate(r) ==
  /\ attachment[r] = "attached"
  /\ attachment' = [attachment EXCEPT ![r] = "detached"]
  /\ Detach(r)
  /\ UNCHANGED <<sourceVars, callerVars, request>>

-----------------------------------------------------------------------------

CallerStep == TriggerFetches \/ TriggerSends \/ CloseBegins \/ CloseEnds

Notice(r) == Notify(r) \/ PollSees(r)

Next == \/ CallerStep
        \/ \E r \in Runs : \/ AttachChecks(r) \/ Attach(r) \/ AttachRefused(r)
                           \/ Notice(r) \/ Deactivate(r)

Spec == Init /\ [][Next]_vars

\* A loop serves a ready descriptor and a due poll; trigger() and close()
\* return once called.  Nothing makes the caller trigger or a run end.
Fairness == /\ \A r \in Runs : WF_vars(Notice(r))
            /\ WF_vars(TriggerSends)
            /\ WF_vars(CloseEnds)

FairSpec == Spec /\ Fairness

-----------------------------------------------------------------------------
(* Properties.                                                                 *)

\* Once a trigger() has returned, every run that is attached, or attaches
\* later, is asked to terminate unless it ends or is refused first.
TriggerIsSticky ==
  \A r \in Runs :
    (returned /\ attachment[r] = "attached")
      ~> (request[r] \/ attachment[r] = "detached")

\* Once close() has begun nobody can trigger the request any more.  A run that
\* is still attached is not left behind without a way to stop it: the end of
\* file it reads asks it to terminate, however close() races its attachment
\* and a trigger() that is still sending.
CloseOrphansNoRun ==
  \A r \in Runs :
    (fields = "none" /\ attachment[r] = "attached")
      ~> (request[r] \/ attachment[r] = "detached")

\* A run owns a descriptor only while it is attached, and a run that could
\* still be asked to terminate does own one: close() takes none away.
DescriptorsBalanced ==
  \A r \in Runs :
    /\ dups[r] # 0 => attachment[r] = "attached"
    /\ attachment[r] = "attached" /\ ~request[r] => dups[r] = 1
=============================================================================
