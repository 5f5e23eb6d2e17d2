----------------------------- MODULE WriteOnce ------------------------------
(***************************************************************************)
(* What publishing a comparison promises: the place for the report of a     *)
(* candidate is written once.  Whoever is told that its report is published *)
(* finds it there, one caller at most is told that it was the first, and    *)
(* another report is never put in its place.  Somebody who does not follow  *)
(* the protocol may spoil it, and then nobody is told anything any more.    *)
(***************************************************************************)
CONSTANTS Publishers, Reports, Unwritten, Spoilt

VARIABLES
  report,   \* what is published
  wanted,   \* the report each caller brings
  told      \* what it is told

onceVars == <<report, wanted, told>>

Init == /\ report = Unwritten
        /\ wanted = [p \in Publishers |-> Unwritten]
        /\ told = [p \in Publishers |-> "nothing"]

Call(p) ==
  /\ wanted[p] = Unwritten /\ \E r \in Reports : wanted' = [wanted EXCEPT ![p] = r]
  /\ UNCHANGED <<report, told>>

Write(p) ==
  /\ report = Unwritten /\ wanted[p] # Unwritten /\ report' = wanted[p]
  /\ UNCHANGED <<wanted, told>>

Tell(p, answer) ==
  /\ told[p] = "nothing" /\ wanted[p] # Unwritten
  /\ answer # "failed" => report = wanted[p]
  /\ answer = "PUBLISHED" => \A q \in Publishers : told[q] # "PUBLISHED"
  /\ told' = [told EXCEPT ![p] = answer]
  /\ UNCHANGED <<report, wanted>>

Spoil == report' = Spoilt /\ UNCHANGED <<wanted, told>>

Next ==
  \/ \E p \in Publishers : Call(p) \/ Write(p)
  \/ \E p \in Publishers : \E a \in {"PUBLISHED", "ALREADY_PUBLISHED", "failed"} : Tell(p, a)
  \/ Spoil

Spec == Init /\ [][Next]_onceVars
=============================================================================
