------------------------------ MODULE HostSignals -----------------------------
(* _host_control/signals.py and host_control.py: the SIGINT and SIGTERM        *)
(* handlers of the host while run_ex() owns them, with the handler that        *)
(* asyncio.run() (Python 3.11 and later) itself installs for SIGINT.           *)
(*                                                                             *)
(* A handler is "default", the application's ("user"), one installed outside   *)
(* of Python ("foreign"), asyncio's or flnr's.                                 *)

EXTENDS Naturals, Sequences

VARIABLES
  handler,        \* the handler of each signal
  old_handlers,   \* what activate() saved, of the signals it has replaced
  loop,           \* the event loop: "none", "running" or "closed"
  requested,      \* ext_termination_request is set, or scheduled to be
  cancelled       \* asyncio's handler has cancelled the main task

signalVars == <<handler, old_handlers, loop, requested, cancelled>>

\* _handled_signals.
Handled == <<"SIGINT", "SIGTERM">>
Signals == {"SIGINT", "SIGTERM"}

SignalsTypeOK ==
  /\ handler \in [Signals -> {"default", "user", "foreign", "asyncio", "flnr"}]
  /\ DOMAIN old_handlers \subseteq Signals
  /\ loop \in {"none", "running", "closed"}
  /\ requested \in BOOLEAN /\ cancelled \in BOOLEAN

SignalsInit(original) ==
  /\ handler = original
  /\ old_handlers = [s \in {} |-> "default"]
  /\ loop = "none" /\ requested = FALSE /\ cancelled = FALSE

\* asyncio.run() takes SIGINT over from Python's default handler, in the main
\* thread (external).
EnterLoop(mainThread) ==
  /\ loop = "none"
  /\ loop' = "running"
  /\ handler' = IF mainThread /\ handler["SIGINT"] = "default"
                  THEN [handler EXCEPT !["SIGINT"] = "asyncio"] ELSE handler
  /\ UNCHANGED <<old_handlers, requested, cancelled>>

\* ... and gives it back if the handler is still its own.
LeaveLoop ==
  /\ loop = "running"
  /\ loop' = "closed"
  /\ handler' = IF handler["SIGINT"] = "asyncio"
                  THEN [handler EXCEPT !["SIGINT"] = "default"] ELSE handler
  /\ UNCHANGED <<old_handlers, requested, cancelled>>

\* signal.signal() returns None for a handler it does not know.
Known(h) == IF h = "foreign" THEN "None" ELSE h

\* One round of the loop of activate().
Install(s) ==
  /\ handler' = [handler EXCEPT ![s] = "flnr"]
  /\ old_handlers' = [t \in DOMAIN old_handlers \union {s} |->
                        IF t = s THEN Known(handler[s]) ELSE old_handlers[t]]
  /\ UNCHANGED <<loop, requested, cancelled>>

\* One round of the loop of deactivate(); signal.signal(s, None) raises.
Restore(s) ==
  /\ old_handlers[s] # "None"
  /\ handler' = [handler EXCEPT ![s] = old_handlers[s]]
  /\ UNCHANGED <<old_handlers, loop, requested, cancelled>>

\* A signal reaches the handler that is installed right then.  flnr's sets the
\* event, unless the loop is closed: the RuntimeError is suppressed.  asyncio's
\* cancels the main task (a second SIGINT would raise KeyboardInterrupt
\* wherever the code is: not modelled).  What the other handlers do is the
\* application's concern.
Deliver(s) ==
  /\ \/ /\ handler[s] = "flnr"
        /\ requested' = (requested \/ loop = "running")
        /\ UNCHANGED cancelled
     \/ /\ handler[s] = "asyncio" /\ ~cancelled
        /\ cancelled' = TRUE
        /\ UNCHANGED requested
  /\ UNCHANGED <<handler, old_handlers, loop>>
=============================================================================
