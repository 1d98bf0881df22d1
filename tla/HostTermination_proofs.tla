------------------------ MODULE HostTermination_proofs -------------------------
(* Theorems about the host termination request, for any set of runs and any    *)
(* mix of attachments.                                                         *)

EXTENDS HostTermination, TLAPS

\* The descriptor invariants need to know that a run refers to its descriptor
\* exactly as long as it is open.
HeldIsOpen == \A r \in Runs : held[r] <=> dups[r] = 1

IInv == TypeOK /\ HeldIsOpen /\ DescriptorsBalanced

LEMMA InitIInv == Init => IInv
<1> SUFFICES ASSUME Init PROVE IInv
  OBVIOUS
<1>1. TypeOK
  <2>1. attachment \in [Runs -> {"none", "attaching", "attached", "detached",
                                "refused"}]
    BY DEF Init
  <2>2. held \in [Runs -> BOOLEAN] /\ request \in [Runs -> BOOLEAN]
    BY DEF Init
  <2>3. dups \in [Runs -> 0..1]
    BY DEF Init
  <2> QED
    BY <2>1, <2>2, <2>3 DEF Init, TypeOK
<1>2. \A r \in Runs : attachment[r] = "none" /\ ~held[r] /\ dups[r] = 0
                       /\ ~request[r]
  BY DEF Init
<1>3. HeldIsOpen
  <2>1. 0 # 1
    OBVIOUS
  <2> QED
    BY <1>2, <2>1 DEF HeldIsOpen
<1>4. DescriptorsBalanced
  BY <1>2 DEF DescriptorsBalanced
<1> QED
  BY <1>1, <1>3, <1>4 DEF IInv

\* trigger() and close() touch no attachment and no descriptor of a run.
LEMMA CallerIInv == IInv /\ (CallerStep \/ UNCHANGED vars) => IInv'
<1> SUFFICES ASSUME IInv, CallerStep \/ UNCHANGED vars
             PROVE  IInv'
  OBVIOUS
<1> USE DEF IInv, TypeOK, HeldIsOpen, DescriptorsBalanced,
            sourceVars, callerVars, runVars
<1>1. CASE TriggerFetches
  BY <1>1 DEF TriggerFetches
<1>2. CASE TriggerSends
  BY <1>2 DEF TriggerSends
<1>3. CASE CloseBegins
  BY <1>3 DEF CloseBegins
<1>4. CASE CloseEnds
  BY <1>4 DEF CloseEnds
<1>5. CASE UNCHANGED vars
  BY <1>5 DEF vars
<1> QED
  BY <1>1, <1>2, <1>3, <1>4, <1>5 DEF CallerStep

\* A step of one run leaves the descriptors of the others alone.
LEMMA RunIInv ==
  ASSUME IInv, NEW r \in Runs,
         AttachChecks(r) \/ Attach(r) \/ AttachRefused(r) \/ Notice(r)
           \/ Deactivate(r)
  PROVE  IInv'
<1> USE DEF IInv, TypeOK, HeldIsOpen, DescriptorsBalanced,
            sourceVars, callerVars
<1>1. CASE AttachChecks(r)
  BY <1>1 DEF AttachChecks
<1>2. CASE Attach(r)
  <2>1. dups[r] = 0
    BY <1>2 DEF Attach
  <2> QED
    BY <1>2, <2>1 DEF Attach
<1>3. CASE AttachRefused(r)
  BY <1>3 DEF AttachRefused
<1>4. CASE Notify(r)
  BY <1>4 DEF Notify, Detach
<1>5. CASE PollSees(r)
  BY <1>5 DEF PollSees
<1>6. CASE Deactivate(r)
  BY <1>6 DEF Deactivate, Detach
<1> QED
  BY <1>1, <1>2, <1>3, <1>4, <1>5, <1>6 DEF Notice

LEMMA NextIInv == IInv /\ [Next]_vars => IInv'
BY CallerIInv, RunIInv DEF Next

\* IInv is an invariant of the specification.
THEOREM Inductive == Spec => []IInv
<1>1. Init => IInv
  BY InitIInv
<1>2. IInv /\ [Next]_vars => IInv'
  BY NextIInv
<1> QED
  BY <1>1, <1>2, PTL DEF Spec

\* Type correctness; in particular no descriptor is closed twice.
THEOREM TypeCorrect == Spec => []TypeOK
<1>1. IInv => TypeOK
  BY DEF IInv
<1> QED
  BY <1>1, Inductive, PTL

\* No run leaks its descriptor or loses it while it could still be notified.
THEOREM DescriptorsAreBalanced == Spec => []DescriptorsBalanced
<1>1. IInv => DescriptorsBalanced
  BY DEF IInv
<1> QED
  BY <1>1, Inductive, PTL
=============================================================================
