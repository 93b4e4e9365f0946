----------------------------- MODULE Admission -----------------------------
(***************************************************************************)
(* What the confirmation of phone numbers promises, without the requests,  *)
(* the threads and the table of pending rows: a number is authorised only  *)
(* after somebody asked for access with it, an authorisation carries the   *)
(* time at which it was given or renewed, and none is ever withdrawn (it   *)
(* runs out by itself, ReauthWindow later).  PhoneAuth implements this.    *)
(***************************************************************************)
EXTENDS Integers

CONSTANTS Phones, MaxNow, None

VARIABLES
  clock,       \* the current time
  asked,       \* numbers entered on the portal
  authorised   \* authorised[p]: time of the last authorisation of p, or None

avars == <<clock, asked, authorised>>

Init ==
  /\ clock = 0
  /\ asked = {}
  /\ authorised = [p \in Phones |-> None]

\* A guest enters the number p.
Ask(p) ==
  /\ asked' = asked \cup {p}
  /\ UNCHANGED <<clock, authorised>>

\* p is authorised now: by a call, or again because it still was.
Authorise(p) ==
  /\ p \in asked
  /\ authorised' = [authorised EXCEPT ![p] = clock]
  /\ UNCHANGED <<clock, asked>>

Tick ==
  /\ clock < MaxNow
  /\ clock' = clock + 1
  /\ UNCHANGED <<asked, authorised>>

Next == Tick \/ \E p \in Phones : Ask(p) \/ Authorise(p)

Spec == Init /\ [][Next]_avars

=============================================================================
