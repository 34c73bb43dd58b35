------------------------ MODULE MCProviderMutations ------------------------
(* Instance of ProviderMutations for TLC.                                   *)
EXTENDS ProviderMutations, TLC
CONSTANTS i1, i2, i3, w1, w2, r1, o1

MCIntentId == {i1, i2}
MCIntentId3 == {i1, i2, i3}
MCWorker == {w1, w2}
MCResolver == {r1}
NoResolver == {}
MCOrder == {o1}

Req(cid, key, hash, order, risk, auth) ==
    [cid |-> cid, key |-> key, hash |-> hash, order |-> order, risk |-> risk, auth |-> auth]

\* Two submissions of one order with different identities, a replay of the
\* first idempotency key under a new client order id, and a request without
\* an order whose risk decision and authorization may already be spent.
MCRequest == {
    Req("c1", "k1", "h1", o1, "d1", "a1"),
    Req("c2", "k2", "h2", o1, "d2", "a1"),
    Req("c3", "k1", "h3", o1, "d3", "a2"),
    Req("c4", "k4", "h4", NoOrder, "d4", "a2")}

MCSymmetry == Permutations(IntentId) \cup Permutations(MCWorker)
=============================================================================
