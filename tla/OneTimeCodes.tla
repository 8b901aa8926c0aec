---------------------------- MODULE OneTimeCodes ----------------------------
(***************************************************************************)
(* What a second factor promises, whatever its codes are: a code can only  *)
(* be used once, and no set of codes handed out later brings a used one    *)
(* back.  SecondFactor implements it as long as no request writes over a   *)
(* counter or a list that another one changed meanwhile.                   *)
(***************************************************************************)
EXTENDS Naturals

CONSTANT Code

VARIABLES
    live,   \* the codes that would be accepted
    spent,  \* the codes that were accepted
    uses    \* how many times a code was accepted

vars == <<live, spent, uses>>

Init == live = {} /\ spent = {} /\ uses = 0

\* Accepting a code may withdraw others: with a clock-based code, the older ones.
Accept(c) ==
    /\ c \in live
    /\ live' \subseteq live \ {c}
    /\ spent' = spent \cup {c}
    /\ uses' = uses + 1

\* A second factor is set up with a code of its own, which is spent by that.
Enrol(c) ==
    /\ c \notin spent
    /\ live' \cap (spent \cup {c}) = {}
    /\ spent' = spent \cup {c}
    /\ uses' = uses + 1

\* Codes are handed out or withdrawn: none that was used comes back.
Renew ==
    /\ live' \cap spent = {}
    /\ UNCHANGED <<spent, uses>>

Next == (\E c \in Code : Accept(c) \/ Enrol(c)) \/ Renew

Spec == Init /\ [][Next]_vars

=============================================================================
