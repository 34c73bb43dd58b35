------------------------------ MODULE MCPaper ------------------------------
(* Paper execution, and the tables of a submission to a provider, for TLC.   *)
(* A behaviour exercises one component: `focus` says which and never changes. *)
EXTENDS PaperExecution, MutationLedger, TLC

CONSTANTS s1, s2, c1, c2    \* model values: setups and calls

MCSetup == {s1, s2}
MCCaller == {c1, c2}
MCWithdrawable == {"kill"}

\* Setups and calls are interchangeable.
MCSymmetry == Permutations(MCSetup) \cup Permutations(MCCaller)

VARIABLE focus

mcVars == <<vars, ledgerVars, focus>>

-----------------------------------------------------------------------------
(* The tables of one submission: every kind of answer a provider function    *)
(* can give, one reconciler and one operator.                                *)

Reply == [shape |-> "object", forbidden |-> FALSE, extra |-> FALSE, client |-> "same",
          key |-> "absent", account |-> "same", ticket |-> "ok", status |-> "accepted"]
Replies ==
    {Reply} \cup
    {[Reply EXCEPT !.status = s] : s \in {"market_closed", "canceled"}} \cup
    {[Reply EXCEPT !.shape = "thrown", !.status = "timeout"], [Reply EXCEPT !.shape = "nothing"],
     [Reply EXCEPT !.key = "other"], [Reply EXCEPT !.ticket = "absent"],
     [Reply EXCEPT !.status = "rejected", !.ticket = "absent"]}
Seen == [outcome : {"matched"}, status : {"none", "submitted", "filled", "cancelled"}, unsure : BOOLEAN]
        \cup [outcome : {"not_found"}, status : {"none"}, unsure : BOOLEAN]
Verdict(answer, note) ==
    [resolution |-> answer, evidence |-> "operator_resolution", by |-> "ann",
     reference |-> "ok", note |-> note]
Decided == {Verdict("provider_accepted", "none"), Verdict("provider_rejected", "none"),
            Verdict("provider_absent", "none"), Verdict("provider_absent", "empty")}

ASSUME LedgerAssumption

-----------------------------------------------------------------------------
OrderInit ==
    /\ focus \in {"paper", "ledger"}
    /\ Init /\ LedgerInit
    /\ focus # "paper" => off = {}

OrderNext ==
    \/ focus = "paper" /\ Next /\ UNCHANGED <<ledgerVars, focus>>
    \/ focus = "ledger" /\ LedgerNext /\ UNCHANGED <<vars, focus>>
    \* The tables of a submission end where their bounds do.
    \/ focus = "ledger" /\ UNCHANGED mcVars

OrderSpec == OrderInit /\ [][OrderNext]_mcVars

\* Paper execution alone.
PaperOnlySpec == (OrderInit /\ focus = "paper") /\ [][OrderNext]_mcVars
=============================================================================
