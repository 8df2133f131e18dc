----------------------------- MODULE MCStreaming -----------------------------
(* Streaming with three sockets on one host: two want an Android phone, which *)
(* is counted with everything, and one an iPhone, which is not counted.       *)
EXTENDS StreamHistory, TLC

CONSTANTS v1, v2, v3, android, iphone

MCKeyOf == v1 :> android @@ v2 :> android @@ v3 :> iphone
MCDeviceOf == [k \in Keys |-> k]
MCCountedWith == android :> Keys @@ iphone :> {}

\* The two viewers of the phone can be exchanged.
PhoneSymmetry == Permutations({v1, v2})
=============================================================================
