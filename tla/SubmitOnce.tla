------------------------------ MODULE SubmitOnce ------------------------------
(***************************************************************************)
(* What the broker path promises for one order identity: whatever the      *)
(* callers do, the broker is asked at most once, it decides the order at   *)
(* most once, and nobody is told a decision the broker did not take.       *)
(***************************************************************************)
EXTENDS Naturals

CONSTANT Clients

VARIABLES
    asked,    \* how often each client's call made the broker be asked
    order,    \* what the broker made of the order
    told      \* what each client was last told

once == <<asked, order, told>>

OnceInit ==
    /\ asked = [c \in Clients |-> 0]
    /\ order = "none"
    /\ told = [c \in Clients |-> "nothing"]

Ask(c) ==
    /\ \A d \in Clients : asked[d] = 0
    /\ asked' = [asked EXCEPT ![c] = 1]
    /\ UNCHANGED <<order, told>>

Decide ==
    /\ order = "none" /\ \E c \in Clients : asked[c] = 1
    /\ order' \in {"open", "refused"}
    /\ UNCHANGED <<asked, told>>

\* Permitted(c, answer): an acceptance or a rejection is the broker's, and a
\* client told that its call was refused made nobody ask.
Permitted(c, answer) ==
    \/ answer = "accepted" /\ order = "open"
    \/ answer = "rejected" /\ order = "refused"
    \/ answer = "refused" /\ asked[c] = 0
    \/ answer \in {"unknown", "nothing"}

Tell(c) ==
    /\ \E answer \in {"accepted", "rejected", "refused", "unknown", "nothing"} :
         Permitted(c, answer) /\ told' = [told EXCEPT ![c] = answer]
    /\ UNCHANGED <<asked, order>>

OnceNext == Decide \/ \E c \in Clients : Ask(c) \/ Tell(c)

OnceSpec == OnceInit /\ [][OnceNext]_once
===============================================================================
