----------------------------- MODULE AuthorityToken -----------------------------
(***************************************************************************)
(* What a cluster may rely on during planned handoffs: authority is a      *)
(* single token. A node holds it, gives it to its peer, and the peer takes *)
(* it and only then holds it. On the way it may be lost, and is never      *)
(* found again: no step brings back authority that is gone.                *)
(* PlannedHandoff implements it.                                           *)
(***************************************************************************)
CONSTANTS Node, Peer, Main

\* {<<place, node>>} while the token is somewhere, {} once it is lost.
VARIABLE token

Init == token = {<<"held", Main>>}

\* A node gives up its authority for its peer to take.
Give(n) == token = {<<"held", n>>} /\ token' = {<<"given", n>>}

\* The peer takes what it was given: from here on nobody else can.
Take(n) == token = {<<"given", n>>} /\ token' = {<<"taken", Peer[n]>>}

Accept(n) == token = {<<"taken", n>>} /\ token' = {<<"held", n>>}

\* What is on its way may be lost; what a node holds, it keeps until it gives it.
Lose(n) == token \in {{<<"given", n>>}, {<<"taken", n>>}} /\ token' = {}

Next == \E n \in Node : Give(n) \/ Take(n) \/ Accept(n) \/ Lose(n)

Spec == Init /\ [][Next]_token

=============================================================================
