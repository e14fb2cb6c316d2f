---------------------------- MODULE InflightTable ----------------------------
(***************************************************************************)
(* What the broker promises of a client's outbound inflight table (spec    *)
(* 4.10, 4.11 and the ack handlers of 4.6-4.9): a QoS > 0 message sent to  *)
(* an online subscriber is recorded under a packet id that holds no other  *)
(* message, stays recorded, unchanged, until that client acknowledges the  *)
(* id, and is then forgotten.  One fan-out records the same message for    *)
(* every subscriber it goes to, at most one id each.                       *)
(***************************************************************************)
EXTENDS Naturals, FiniteSets

CONSTANTS Clients, Ids, Msgs, None

VARIABLE inflight   \* inflight[c][k]: the message recorded for c under id k, or None

Init == inflight = [c \in Clients |-> [k \in Ids |-> None]]

\* the ids of c whose entry a step changes
Changed(c) == {k \in Ids : inflight'[c][k] # inflight[c][k]}

\* one fan-out of message m: each changed entry was free and now holds m
Record(m) ==
  /\ inflight' # inflight
  /\ \A c \in Clients :
       /\ Cardinality(Changed(c)) <= 1
       /\ \A k \in Changed(c) : inflight[c][k] = None /\ inflight'[c][k] = m

\* the acknowledgement by c of id k forgets the message recorded there
Forget(c, k) ==
  /\ inflight[c][k] # None
  /\ inflight' = [inflight EXCEPT ![c][k] = None]

Next == (\E m \in Msgs : Record(m)) \/ (\E c \in Clients, k \in Ids : Forget(c, k))

Spec == Init /\ [][Next]_inflight

====
