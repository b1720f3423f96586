--------------------------- MODULE SessionLifecycle -------------------------
(***************************************************************************)
(* What a server promises about each session (spec 4.4): the phases of     *)
(* interconnect_core::ConnectionState, entered in order, with application  *)
(* intents applied only while Live.  Teardown is not a phase of the enum;  *)
(* it is written "Closed" here.  A closed connection slot may carry a new  *)
(* connection, which starts again in Connecting.                           *)
(***************************************************************************)
EXTENDS Naturals

CONSTANTS Session, MaxApplied

VARIABLES
  phase,     \* [Session -> ConnectionState, or Closed]
  applied    \* intents applied to application state, over all sessions

vars == <<phase, applied>>

\* interconnect_core::ConnectionState, plus the absence of a session.
ConnectionState == {"Connecting", "Syncing", "Live", "Ghost"}
Phase == ConnectionState \cup {"Closed"}

Init ==
  /\ phase = [s \in Session |-> "Connecting"]
  /\ applied = 0

\* A new transport on a free slot.
Open(s) ==
  /\ phase[s] = "Closed"
  /\ phase' = [phase EXCEPT ![s] = "Connecting"]
  /\ UNCHANGED applied

\* A well-formed Auth is accepted.
Authenticate(s) ==
  /\ phase[s] = "Connecting"
  /\ phase' = [phase EXCEPT ![s] = "Syncing"]
  /\ UNCHANGED applied

\* Manifest and the first Snapshot have been flushed.
Flush(s) ==
  /\ phase[s] = "Syncing"
  /\ phase' = [phase EXCEPT ![s] = "Live"]
  /\ UNCHANGED applied

\* An Intent of a Live session is applied.
Apply(s) ==
  /\ phase[s] = "Live"
  /\ applied < MaxApplied
  /\ applied' = applied + 1
  /\ UNCHANGED phase

\* RequestTransfer: the Transfer is sent and the session turns read-only.
Retire(s) ==
  /\ phase[s] = "Live"
  /\ phase' = [phase EXCEPT ![s] = "Ghost"]
  /\ UNCHANGED applied

\* Transport error or close, in any phase.
Close(s) ==
  /\ phase[s] # "Closed"
  /\ phase' = [phase EXCEPT ![s] = "Closed"]
  /\ UNCHANGED applied

Next ==
  \E s \in Session :
    Open(s) \/ Authenticate(s) \/ Flush(s) \/ Apply(s) \/ Retire(s) \/ Close(s)

Spec == Init /\ [][Next]_vars
=============================================================================
