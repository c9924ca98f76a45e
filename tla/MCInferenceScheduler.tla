------------------------ MODULE MCInferenceScheduler ------------------------
(* Small instances of InferenceScheduler for TLC.                           *)
EXTENDS InferenceScheduler, TLC

CONSTANTS t1, t2, t3, d1, d2, m1

\* Requests of different kinds.
KindPlainSse == t1 :> "completion" @@ t2 :> "chat_sse"
KindMixed    == t1 :> "chat" @@ t2 :> "completion_sse" @@ t3 :> "completion"

AllowedAll == [t \in Tasks |-> Devices]
ModelM1    == [t \in Tasks |-> m1]

Idle   == [authed |-> TRUE, cpu |-> 5, memory |-> 20, models |-> {}]
Busy   == [authed |-> TRUE, cpu |-> 90, memory |-> 80, models |-> {}]
Denied == [authed |-> FALSE, cpu |-> 5, memory |-> 5, models |-> {}]
InfosMC  == {Idle, Busy, Denied}
InfosTwo == {Idle, Denied}

\* One request that chooses between two devices of any load ...
OneRequest == \E t \in Tasks : \A u \in Tasks \ {t} : pc[u] = "new"

\* ... or a chat and an SSE completion that share an idle device.
SharedDevice ==
    /\ pc[t3] = "new" /\ clients[d2] = None
    /\ clients[d1] # None => clients[d1].authed /\ clients[d1].cpu = Idle.cpu

MixedSpec == Init /\ [][Next /\ (OneRequest' \/ SharedDevice')]_vars /\ Fairness
=============================================================================
