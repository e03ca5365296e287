------------------------ MODULE ConservativeFormatting ------------------------
(***************************************************************************)
(* What the processing session promises, without saying how: properties of *)
(* the document change one at a time, each to the value the profile        *)
(* authorizes for it, none twice and none whose present value is unknown,  *)
(* until at some point the session stops.                                  *)
(***************************************************************************)
EXTENDS Naturals, FiniteSets

CONSTANTS
    Sites,
    Authorized(_, _), \* the values the profile lets a site be set to
    Unknown           \* the value of a property that does not resolve

VARIABLES
    profile,    \* the active profile
    document,   \* the value each site resolves to
    touched,    \* the sites changed so far
    finished

vars == <<profile, document, touched, finished>>

Init ==
    /\ touched = {}
    /\ finished = FALSE

ChangeProperty(s) ==
    /\ ~finished
    /\ s \notin touched
    /\ document[s] # Unknown
    /\ \E v \in Authorized(profile, s) :
           /\ v # document[s]
           /\ document' = [document EXCEPT ![s] = v]
    /\ touched' = touched \cup {s}
    /\ UNCHANGED <<profile, finished>>

Stop ==
    /\ ~finished
    /\ finished' = TRUE
    /\ UNCHANGED <<profile, document, touched>>

Next == Stop \/ \E s \in Sites : ChangeProperty(s)

Spec == Init /\ [][Next]_vars
===============================================================================
