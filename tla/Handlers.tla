------------------------------ MODULE Handlers ------------------------------
(***************************************************************************)
(* The broker's command-handling engine (src/unnamed/part_000, handlers.c):*)
(* the ten command handlers, the publish_message fan-out, the per-client   *)
(* inflight tables and the memory pool of PUBLISH packets.  Each handler   *)
(* runs to completion on the reactor thread, so each is one atomic action, *)
(* fired by the client on the other end of the connection sending the      *)
(* packet.  The clients follow MQTT 3.1.1; the reactor may drop a          *)
(* connection between any two handlers.                                    *)
(***************************************************************************)
EXTENDS Integers, Sequences, FiniteSets, SequencesExt

CONSTANTS
  Clients,        \* client sessions (model values)
  Publishers,     \* clients that PUBLISH
  Subscribing,    \* clients that SUBSCRIBE and UNSUBSCRIBE
  TopicStrs,      \* raw topic names clients PUBLISH to, as sequences of chars
  FilterStrs,     \* raw topic filters clients SUBSCRIBE / UNSUBSCRIBE with
  Wills,          \* Will options a CONNECT may carry (records, or Null)
  MaxMid,         \* last id of the broker's packet-id space (65535 in the code)
  PeerMids,       \* packet ids a client uses for its own QoS>0 PUBLISH
  PoolSize,       \* PUBLISH packets the memory pool holds
  MaxPub,         \* bound: PUBLISH messages the clients originate
  MaxConn,        \* bound: CONNECTs per client
  MaxWbuf,        \* bound: unread packets beyond which a client sends no request
  MaxTuples,      \* bound: tuples in one SUBSCRIBE or UNSUBSCRIBE
  AllowAnonymous, \* conf->allow_anonymous
  PubQoS,         \* QoS levels clients PUBLISH with
  SubQoS,         \* QoS levels clients SUBSCRIBE with
  RetainFlags,    \* retain flags clients PUBLISH with
  StackGarbage,   \* whether the uninitialised byte read by publish_handler may be '/'
  Null

QoS   == 0..2
Ids   == 0..MaxMid            \* indices of the 16-bit inflight arrays
Mids  == 1..MaxMid            \* ids next_free_mid hands out
Slots == 1..PoolSize
Msgs  == 0..MaxPub            \* 0 is the Will payload, 1..MaxPub publishes
NoSub == -1                   \* no entry for the client in t->subscribers

\* every PUBLISH and every re-sent PUBLISH allocates a packet; the pool is
\* large enough for all of them, so memorypool_alloc never fails here
ASSUME PeerMids \subseteq Mids /\ MaxPub * MaxConn <= PoolSize
ASSUME PubQoS \subseteq QoS /\ SubQoS \subseteq QoS /\ StackGarbage \in BOOLEAN
ASSUME RetainFlags \subseteq BOOLEAN
ASSUME Publishers \subseteq Clients /\ Subscribing \subseteq Clients
ASSUME \A w \in Wills : w = Null \/ w \in [topic: TopicStrs, qos: QoS, retain: BOOLEAN]

(***************************************************************************)
(* Topic names.  subscribe_handler (lines 390-397) strips the '#' of a     *)
(* trailing "/#" and otherwise appends a missing '/'.  publish_handler     *)
(* (lines 481-492) tests topic[topiclen], the uninitialised byte one past  *)
(* the copied name: when it is not '/' (the usual case) a '/' is appended  *)
(* even to a name that already ends in one; when it happens to be '/' the  *)
(* name is left unterminated and runs into stack garbage, written "?".    *)
(***************************************************************************)
EndsWildcard(f) == Len(f) >= 2 /\ SubSeq(f, Len(f) - 1, Len(f)) = <<"/", "#">>
SubTopic(f) == IF EndsWildcard(f) THEN Front(f)
               ELSE IF Last(f) # "/" THEN Append(f, "/") ELSE f
PubTopics(s) == {Append(s, "/")} \cup (IF StackGarbage THEN {s \o <<"/", "?">>} ELSE {})

TopicNames == {SubTopic(f) : f \in FilterStrs}
                \cup UNION {PubTopics(s) : s \in TopicStrs} \cup TopicStrs

PacketTypes == {"CONNACK", "PUBLISH", "PUBACK", "PUBREC", "PUBREL",
                "PUBCOMP", "SUBACK", "UNSUBACK", "PINGRESP"}
Packet == [type: PacketTypes, qos: QoS, id: Ids, msg: Msgs,
           topic: TopicStrs \cup {<<>>}]
Pkt(type, q, id, m, s) == [type |-> type, qos |-> q, id |-> id, msg |-> m, topic |-> s]
Ack(type, id) == Pkt(type, 0, id, 0, <<>>)

PeerStates == {"idle", "waitAck", "waitRec", "waitComp"}

VARIABLES
  \* struct client fields of each session
  online, clean, subscriptions, outgoing, iMsgs, iAcks, inIAcks,
  hasInflight, nextMid, wbuf,
  \* the global topic map and the memory pool
  topics, subs, retained, pool,
  \* the client on the other end of each connection
  pending,   \* its own QoS>0 PUBLISHes awaiting their handshake, by packet id
  owes,      \* acks it has to send for packets it has read
  got,       \* how often it has read each message at QoS 2 (saturating at 2)
  nPub, nConn

vars == <<online, clean, subscriptions, outgoing, iMsgs, iAcks, inIAcks,
          hasInflight, nextMid, wbuf, topics, subs, retained, pool,
          pending, owes, got, nPub, nConn>>

-----------------------------------------------------------------------------
(* Helpers of code outside src/, modelled from spec.md.                    *)

\* next_free_mid (spec 4.11): wrap-around counter skipping ids in use in
\* i_msgs or i_acks; when every id is in use it does not check (spec 9).
Busy(c, k) == iMsgs[c][k].inUse \/ iAcks[c][k].inUse
Succ(k) == (k % MaxMid) + 1
NextFreeMid(c) ==
  LET free == {d \in 1..MaxMid : ~Busy(c, ((nextMid[c] + d - 1) % MaxMid) + 1)}
  IN  IF free = {} THEN Succ(nextMid[c])
      ELSE ((nextMid[c] + Min(free) - 1) % MaxMid) + 1

\* memorypool_alloc: the first packet of the pool not in use
FreeSlots == {i \in Slots : ~pool[i].used}
Alloc == Min(FreeSlots)

\* memorypool_free of the packet an inflight slot points to (no in_use test)
FreeSlot(p, slot) == IF slot = Null THEN p ELSE [p EXCEPT ![slot].used = FALSE]

\* The PUBLISH a pooled packet encodes when packed by mqtt_pack
PoolPkt(slot) == Pkt("PUBLISH", pool[slot].qos, pool[slot].id, pool[slot].msg,
                     pool[slot].topic)

Teardown(c) ==
  /\ online' = [online EXCEPT ![c] = FALSE]
  /\ wbuf' = [wbuf EXCEPT ![c] = <<>>]

-----------------------------------------------------------------------------
(* publish_message (lines 74-160): the fan-out of the pooled packet `slot` *)
(* holding message m to every subscriber of topic t.  The loop mutates the *)
(* one shared packet for each subscriber in turn, so the pool keeps the    *)
(* QoS and id set for the last subscriber of the hashtable's iteration     *)
(* order, which is chosen by `last`.                                       *)
Subscribers(t) == {c \in Clients : subs[t][c] # NoSub}
EffQos(q, c, t) == IF q >= subs[t][c] THEN subs[t][c] ELSE q
Inflight(q, c, t) == online[c] /\ EffQos(q, c, t) > 0
MidFor(q, c, t) == IF Inflight(q, c, t) THEN NextFreeMid(c) ELSE 0

\* mutant: the in_use test dropped, an exhausted id space overwrites a slot
FanIMsgsOverwrite(slot, q, t) ==
  [c \in Clients |->
     IF c \in Subscribers(t) /\ Inflight(q, c, t)
     THEN [iMsgs[c] EXCEPT ![NextFreeMid(c)] = [inUse |-> TRUE, pkt |-> slot]]
     ELSE iMsgs[c]]
FanIMsgs(slot, q, t) ==
  [c \in Clients |->
     IF c \in Subscribers(t) /\ Inflight(q, c, t) /\ ~iMsgs[c][NextFreeMid(c)].inUse
     THEN [iMsgs[c] EXCEPT ![NextFreeMid(c)] = [inUse |-> TRUE, pkt |-> slot]]
     ELSE iMsgs[c]]
FanIAcks(q, t) ==
  [c \in Clients |->
     IF c \in Subscribers(t) /\ Inflight(q, c, t) /\ ~iAcks[c][NextFreeMid(c)].inUse
     THEN [iAcks[c] EXCEPT ![NextFreeMid(c)] =
             [inUse |-> TRUE, type |-> IF subs[t][c] = 1 THEN "PUBACK" ELSE "PUBREC"]]
     ELSE iAcks[c]]
FanWbuf(q, t, m, s) ==
  [c \in Clients |->
     IF c \in Subscribers(t) /\ online[c]
     THEN Append(wbuf[c], Pkt("PUBLISH", EffQos(q, c, t), MidFor(q, c, t), m, s))
     ELSE wbuf[c]]
FanOutgoing(slot, t) ==
  [c \in Clients |->
     IF c \in Subscribers(t) /\ ~online[c] /\ ~clean[c]
     THEN Append(outgoing[c], slot) ELSE outgoing[c]]
FanHasInflight(q, t) ==
  [c \in Clients |-> hasInflight[c] \/ (c \in Subscribers(t) /\ Inflight(q, c, t))]
\* mutant: the counter left one past the id handed out, never wrapped
FanNextMidNoWrap(q, t) ==
  [c \in Clients |-> IF c \in Subscribers(t) /\ Inflight(q, c, t)
                     THEN NextFreeMid(c) + 1 ELSE nextMid[c]]
FanNextMid(q, t) ==
  [c \in Clients |-> IF c \in Subscribers(t) /\ Inflight(q, c, t)
                     THEN NextFreeMid(c) ELSE nextMid[c]]
\* the pooled packet after the loop: header and id of the last subscriber
FanPacket(q, k, t, last) ==
  IF Subscribers(t) = {} THEN [qos |-> q, id |-> k]
  ELSE [qos |-> EffQos(q, last, t), id |-> MidFor(q, last, t)]

-----------------------------------------------------------------------------
(* The command handlers.  Each leaves the client-side variables to the    *)
(* client action that sends the packet.                                    *)

\* publish_handler (lines 463-542) with its call of publish_message
PublishHandler(c, s, q, r, k, m) ==
  \E t \in PubTopics(s) :
  \E last \in (IF Subscribers(t) = {} THEN {Null} ELSE Subscribers(t)) :
    LET slot == Alloc
        hdr  == FanPacket(q, k, t, last)
        wb   == FanWbuf(q, t, m, s)
    IN
    /\ FreeSlots # {}
    /\ topics' = topics \cup {t}
    /\ retained' = IF r THEN [retained EXCEPT ![t] = Pkt("PUBLISH", q, k, m, s)]
                   ELSE retained
    /\ pool' = [pool EXCEPT ![slot] = [used |-> TRUE, qos |-> hdr.qos,
                                       id |-> hdr.id, msg |-> m, topic |-> s]]
    /\ iMsgs' = FanIMsgs(slot, q, t)
    /\ iAcks' = FanIAcks(q, t)
    /\ outgoing' = FanOutgoing(slot, t)
    /\ nextMid' = FanNextMid(q, t)
    /\ inIAcks' = IF q = 2 THEN [inIAcks EXCEPT ![c][k] = TRUE] ELSE inIAcks
    /\ hasInflight' = [FanHasInflight(q, t) EXCEPT ![c] = @ \/ q = 2]
    /\ wbuf' = IF q = 0 THEN wb
               ELSE [wb EXCEPT ![c] = Append(@, Ack(IF q = 1 THEN "PUBACK" ELSE "PUBREC", k))]
    /\ UNCHANGED <<online, clean, subscriptions, subs>>

\* puback_handler (lines 544-553)
PubackHandler(c, k) ==
  /\ iMsgs' = [iMsgs EXCEPT ![c][k].inUse = FALSE]
  /\ pool' = FreeSlot(pool, iMsgs[c][k].pkt)
  /\ iAcks' = [iAcks EXCEPT ![c][k].inUse = FALSE]
  /\ hasInflight' = [hasInflight EXCEPT ![c] = FALSE]
  /\ UNCHANGED <<online, clean, subscriptions, outgoing, inIAcks, nextMid,
                 wbuf, topics, subs, retained>>

\* mutant: PUBREC taken as the end of the flow, releasing the packet
PubrecHandlerReleasing(c, k) ==
  /\ wbuf' = [wbuf EXCEPT ![c] = Append(@, Ack("PUBREL", k))]
  /\ iAcks' = IF iAcks[c][k].inUse THEN [iAcks EXCEPT ![c][k].type = "PUBREL"]
              ELSE iAcks
  /\ pool' = FreeSlot(pool, iMsgs[c][k].pkt)
  /\ UNCHANGED <<online, clean, subscriptions, outgoing, iMsgs, inIAcks,
                 hasInflight, nextMid, topics, subs, retained>>

\* pubrec_handler (lines 555-569)
PubrecHandler(c, k) ==
  /\ wbuf' = [wbuf EXCEPT ![c] = Append(@, Ack("PUBREL", k))]
  /\ iAcks' = IF iAcks[c][k].inUse THEN [iAcks EXCEPT ![c][k].type = "PUBREL"]
              ELSE iAcks
  /\ UNCHANGED <<online, clean, subscriptions, outgoing, iMsgs, inIAcks,
                 hasInflight, nextMid, topics, subs, retained, pool>>

\* mutant: PUBREL releases the inbound slot but stages no PUBCOMP
PubrelHandlerNoComp(c, k) ==
  /\ inIAcks' = [inIAcks EXCEPT ![c][k] = FALSE]
  /\ hasInflight' = [hasInflight EXCEPT ![c] = FALSE]
  /\ UNCHANGED <<online, clean, subscriptions, outgoing, iMsgs, iAcks,
                 nextMid, wbuf, topics, subs, retained, pool>>

\* pubrel_handler (lines 571-581)
PubrelHandler(c, k) ==
  /\ wbuf' = [wbuf EXCEPT ![c] = Append(@, Ack("PUBCOMP", k))]
  /\ inIAcks' = [inIAcks EXCEPT ![c][k] = FALSE]
  /\ hasInflight' = [hasInflight EXCEPT ![c] = FALSE]
  /\ UNCHANGED <<online, clean, subscriptions, outgoing, iMsgs, iAcks,
                 nextMid, topics, subs, retained, pool>>

\* mutant: PUBCOMP releases the ack slot and forgets the message slot
PubcompHandlerKeepsMsg(c, k) ==
  /\ iAcks' = [iAcks EXCEPT ![c][k].inUse = FALSE]
  /\ hasInflight' = [hasInflight EXCEPT ![c] = FALSE]
  /\ UNCHANGED <<online, clean, subscriptions, outgoing, iMsgs, inIAcks, nextMid,
                 wbuf, topics, subs, retained, pool>>

\* pubcomp_handler (lines 583-592)
PubcompHandler(c, k) ==
  /\ iAcks' = [iAcks EXCEPT ![c][k].inUse = FALSE]
  /\ iMsgs' = [iMsgs EXCEPT ![c][k].inUse = FALSE]
  /\ pool' = FreeSlot(pool, iMsgs[c][k].pkt)
  /\ hasInflight' = [hasInflight EXCEPT ![c] = FALSE]
  /\ UNCHANGED <<online, clean, subscriptions, outgoing, inIAcks, nextMid,
                 wbuf, topics, subs, retained>>

\* pingreq_handler (lines 594-601)
PingreqHandler(c) ==
  /\ wbuf' = [wbuf EXCEPT ![c] = Append(@, Ack("PINGRESP", 0))]
  /\ UNCHANGED <<online, clean, subscriptions, outgoing, iMsgs, iAcks, inIAcks,
                 hasInflight, nextMid, topics, subs, retained, pool>>

\* subscribe_handler (lines 364-437).  The loop keeps `wildcard` set once a
\* tuple ended in "/#"; a wildcard tuple installs the client, through
\* trie_prefix_map and recursive_sub (lines 350-362), on every existing topic
\* under the name, tracking them in the subscription list only when
\* clean_session is false; every tuple then installs it on the named topic,
\* and stages that topic's retained message.  SUBACK closes the reply.
RECURSIVE SubscribeTuples(_, _, _)
SubscribeTuples(c, tuples, st) ==
  IF tuples = <<>> THEN st
  ELSE
    LET f    == Head(tuples).filter
        q    == Head(tuples).qos
        wild == st.wild \/ EndsWildcard(f)
        t    == SubTopic(f)
        tps  == st.topics \cup {t}
        under == IF wild THEN {x \in tps : IsPrefix(t, x)} ELSE {}
    IN SubscribeTuples(c, Tail(tuples),
         [wild   |-> wild,
          topics |-> tps,
          subs   |-> [x \in TopicNames |->
                        IF x \in under \cup {t} THEN [st.subs[x] EXCEPT ![c] = q]
                        ELSE st.subs[x]],
          subl   |-> st.subl \cup {t} \cup (IF clean[c] THEN {} ELSE under),
          wbuf   |-> IF retained[t] # Null THEN Append(st.wbuf, retained[t])
                     ELSE st.wbuf])

SubscribeHandler(c, tuples) ==
  LET st == SubscribeTuples(c, tuples,
              [wild |-> FALSE, topics |-> topics, subs |-> subs,
               subl |-> subscriptions[c], wbuf |-> wbuf[c]])
  IN /\ topics' = st.topics
     /\ subs' = st.subs
     /\ subscriptions' = [subscriptions EXCEPT ![c] = st.subl]
     /\ wbuf' = [wbuf EXCEPT ![c] = Append(st.wbuf, Ack("SUBACK", 0))]
     /\ UNCHANGED <<online, clean, outgoing, iMsgs, iAcks, inIAcks, hasInflight,
                    nextMid, retained, pool>>

\* unsubscribe_handler (lines 439-461): the filter is looked up as sent,
\* without the normalisation subscribe_handler applies
UnsubscribeHandler(c, fs) ==
  /\ subs' = [x \in TopicNames |->
                IF x \in fs /\ x \in topics THEN [subs[x] EXCEPT ![c] = NoSub]
                ELSE subs[x]]
  /\ wbuf' = [wbuf EXCEPT ![c] = Append(@, Ack("UNSUBACK", 0))]
  /\ UNCHANGED <<online, clean, subscriptions, outgoing, iMsgs, iAcks, inIAcks,
                 hasInflight, nextMid, topics, retained, pool>>

\* disconnect_handler (lines 332-348); -ERRCLIENTDC makes the reactor close
\* the connection
DisconnectHandler(c) ==
  /\ subs' = IF clean[c]
             THEN [x \in TopicNames |->
                     IF x \in subscriptions[c] THEN [subs[x] EXCEPT ![c] = NoSub]
                     ELSE subs[x]]
             ELSE subs
  /\ Teardown(c)
  /\ UNCHANGED <<clean, subscriptions, outgoing, iMsgs, iAcks, inIAcks,
                 hasInflight, nextMid, topics, retained, pool>>

\* connect_handler (lines 181-330) with set_payload_connack (166-179).  A
\* rejected CONNECT leaves the session alone and the reactor closes the
\* connection.  The double-CONNECT test compares the stored and the new
\* client id with strncmp(...) == 1: equal ids give 0, and a generated id
\* differs from the stored one in a way that may or may not give 1.  On
\* acceptance the reactor records the session as online (spec 6).
Rejected(c) ==
  /\ Teardown(c)
  /\ UNCHANGED <<clean, subscriptions, outgoing, iMsgs, iAcks, inIAcks,
                 hasInflight, nextMid, topics, subs, retained, pool>>

ConnectHandler(c, cl, emptyId, cred, will) ==
  \/ /\ ~AllowAnonymous /\ cred # "good"                        \* bad_auth
     /\ Rejected(c)
  \/ /\ AllowAnonymous \/ cred = "good"
     /\ emptyId /\ ~cl                                         \* not_authorized
     /\ Rejected(c)
  \/ /\ AllowAnonymous \/ cred = "good"
     /\ ~(emptyId /\ ~cl)
     /\ LET queued == IF ~emptyId /\ ~cl
                      THEN [i \in 1..Len(outgoing[c]) |-> PoolPkt(outgoing[c][i])]
                      ELSE <<>>
        IN \E strncmpIsOne \in (IF emptyId THEN BOOLEAN ELSE {FALSE}) :
           \/ /\ online[c] /\ strncmpIsOne                     \* clientdc
              /\ Rejected(c)
           \/ /\ ~(online[c] /\ strncmpIsOne)
              /\ topics' = IF will # Null THEN topics \cup {will.topic} ELSE topics
              /\ retained' = IF will # Null /\ will.retain
                             THEN [retained EXCEPT ![will.topic] =
                                     Pkt("PUBLISH", will.qos, 0, 0, will.topic)]
                             ELSE retained
              /\ clean' = [clean EXCEPT ![c] = cl]
              /\ subscriptions' = IF cl THEN [subscriptions EXCEPT ![c] = {}]
                                  ELSE subscriptions
              /\ outgoing' = IF cl THEN [outgoing EXCEPT ![c] = <<>>] ELSE outgoing
              /\ wbuf' = [wbuf EXCEPT ![c] = (@ \o queued) \o <<Ack("CONNACK", 0)>>]
              /\ online' = [online EXCEPT ![c] = TRUE]
              /\ UNCHANGED <<iMsgs, iAcks, inIAcks, hasInflight, nextMid, subs, pool>>

-----------------------------------------------------------------------------
(* The clients.  A client sends a packet only on an open connection, and  *)
(* the broker's handler for it runs at once, the reactor reading each      *)
(* socket in order.  A client follows MQTT 3.1.1: it acknowledges what it  *)
(* reads and, on resuming a session (clean_session = 0), re-sends its      *)
(* unacknowledged PUBLISH and PUBREL once.  With Faulty it may also send a *)
(* second CONNECT and acks for ids it does not owe.                        *)
CONSTANT Faulty

IdlePending == [st |-> "idle", msg |-> 0, qos |-> 0, topic |-> <<>>,
                retain |-> FALSE, resend |-> FALSE]
AckTypes == {"PUBACK", "PUBREC", "PUBREL", "PUBCOMP"}
AckSpace == [type: AckTypes, id: Ids]
Creds == IF AllowAnonymous THEN {"none"} ELSE {"good", "bad"}
Tuples == UNION {[1..n -> [filter: FilterStrs, qos: SubQoS]] : n \in 1..MaxTuples}
Unsubs == {fs \in SUBSET FilterStrs : fs # {} /\ Cardinality(fs) <= MaxTuples}

\* the broker handler an ack the client sends runs
AckHandler(c, a) ==
  CASE a.type = "PUBACK"  -> PubackHandler(c, a.id)
    [] a.type = "PUBREC"  -> PubrecHandler(c, a.id)
    [] a.type = "PUBREL"  -> PubrelHandler(c, a.id)
    [] a.type = "PUBCOMP" -> PubcompHandler(c, a.id)

\* what the client does with the next packet it reads
Reads(c, p) ==
  /\ owes' = [owes EXCEPT ![c] =
        CASE p.type = "PUBLISH" /\ p.qos = 1 -> @ \cup {[type |-> "PUBACK", id |-> p.id]}
          [] p.type = "PUBLISH" /\ p.qos = 2 -> @ \cup {[type |-> "PUBREC", id |-> p.id]}
          [] p.type = "PUBREL" -> @ \cup {[type |-> "PUBCOMP", id |-> p.id]}
          [] p.type = "PUBREC" /\ p.id \in PeerMids
                /\ pending[c][p.id].st = "waitRec" -> @ \cup {[type |-> "PUBREL", id |-> p.id]}
          [] OTHER -> @]
  /\ pending' =
        IF p.id \in PeerMids /\
           \/ p.type = "PUBACK" /\ pending[c][p.id].st = "waitAck"
           \/ p.type = "PUBCOMP" /\ pending[c][p.id].st = "waitComp"
        THEN [pending EXCEPT ![c][p.id] = IdlePending]
        ELSE IF p.id \in PeerMids /\ p.type = "PUBREC" /\ pending[c][p.id].st = "waitRec"
        THEN [pending EXCEPT ![c][p.id].st = "waitComp"]
        ELSE pending

ClientReceive(c) ==
  /\ online[c] /\ wbuf[c] # <<>>
  /\ wbuf' = [wbuf EXCEPT ![c] = Tail(@)]
  /\ Reads(c, Head(wbuf[c]))
  /\ got' = IF Head(wbuf[c]).type = "PUBLISH" /\ Head(wbuf[c]).qos = 2
            THEN [got EXCEPT ![c][Head(wbuf[c]).msg] = IF @ < 2 THEN @ + 1 ELSE @]
            ELSE got
  /\ UNCHANGED <<online, clean, subscriptions, outgoing, iMsgs, iAcks, inIAcks,
                 hasInflight, nextMid, topics, subs, retained, pool, nPub, nConn>>

ClientConnect(c) ==
  /\ nConn[c] < MaxConn
  /\ ~online[c] \/ Faulty
  /\ nConn' = [nConn EXCEPT ![c] = @ + 1]
  /\ \E cl \in BOOLEAN, emptyId \in BOOLEAN, cred \in Creds, will \in Wills :
       /\ ConnectHandler(c, cl, emptyId, cred, will)
       /\ pending' = IF online'[c]
                     THEN [pending EXCEPT ![c] =
                             [k \in PeerMids |->
                                IF cl THEN IdlePending
                                ELSE [pending[c][k] EXCEPT !.resend = pending[c][k].st # "idle"]]]
                     ELSE pending
  /\ owes' = [owes EXCEPT ![c] = {}]
  /\ UNCHANGED <<got, nPub>>

ClientPublish(c) ==
  /\ c \in Publishers /\ online[c] /\ nPub < MaxPub /\ Len(wbuf[c]) < MaxWbuf
  /\ \E s \in TopicStrs, q \in PubQoS, r \in RetainFlags, k \in PeerMids :
       /\ q > 0 => pending[c][k].st = "idle"
       /\ PublishHandler(c, s, q, r, IF q = 0 THEN 0 ELSE k, nPub + 1)
       /\ pending' = IF q = 0 THEN pending
                     ELSE [pending EXCEPT ![c][k] =
                             [st |-> IF q = 1 THEN "waitAck" ELSE "waitRec",
                              msg |-> nPub + 1, qos |-> q, topic |-> s,
                              retain |-> r, resend |-> FALSE]]
  /\ nPub' = nPub + 1
  /\ UNCHANGED <<owes, got, nConn>>

ClientResend(c, k) ==
  /\ online[c] /\ pending[c][k].resend
  /\ LET e == pending[c][k] IN
     \/ /\ e.st \in {"waitAck", "waitRec"}
        /\ PublishHandler(c, e.topic, e.qos, e.retain, k, e.msg)
     \/ /\ e.st = "waitComp"
        /\ PubrelHandler(c, k)
  /\ pending' = [pending EXCEPT ![c][k].resend = FALSE]
  /\ UNCHANGED <<owes, got, nPub, nConn>>

ClientAck(c, a) ==
  /\ online[c]
  /\ a \in owes[c] \/ (Faulty /\ Len(wbuf[c]) < MaxWbuf)
  /\ AckHandler(c, a)
  /\ owes' = [owes EXCEPT ![c] = @ \ {a}]
  /\ UNCHANGED <<pending, got, nPub, nConn>>

ClientSubscribe(c) ==
  /\ c \in Subscribing /\ online[c] /\ Len(wbuf[c]) < MaxWbuf
  /\ \E tuples \in Tuples : SubscribeHandler(c, tuples)
  /\ UNCHANGED <<pending, owes, got, nPub, nConn>>

ClientUnsubscribe(c) ==
  /\ c \in Subscribing /\ online[c] /\ Len(wbuf[c]) < MaxWbuf
  /\ \E fs \in Unsubs : UnsubscribeHandler(c, fs)
  /\ UNCHANGED <<pending, owes, got, nPub, nConn>>

ClientPingreq(c) ==
  /\ online[c] /\ Len(wbuf[c]) < MaxWbuf
  /\ PingreqHandler(c)
  /\ UNCHANGED <<pending, owes, got, nPub, nConn>>

ClientDisconnect(c) ==
  /\ online[c]
  /\ DisconnectHandler(c)
  /\ pending' = IF clean[c] THEN [pending EXCEPT ![c] = [k \in PeerMids |-> IdlePending]]
                ELSE pending
  /\ owes' = [owes EXCEPT ![c] = {}]
  /\ UNCHANGED <<got, nPub, nConn>>

\* the reactor closes a connection on a socket error or a keepalive timeout
\* without running any handler (no Will is published)
ConnectionDrop(c) ==
  /\ online[c]
  /\ Teardown(c)
  /\ owes' = [owes EXCEPT ![c] = {}]
  /\ UNCHANGED <<clean, subscriptions, outgoing, iMsgs, iAcks, inIAcks,
                 hasInflight, nextMid, topics, subs, retained, pool,
                 pending, got, nPub, nConn>>

-----------------------------------------------------------------------------
Init ==
  /\ online = [c \in Clients |-> FALSE]
  /\ clean = [c \in Clients |-> FALSE]
  /\ subscriptions = [c \in Clients |-> {}]
  /\ outgoing = [c \in Clients |-> <<>>]
  /\ iMsgs = [c \in Clients |-> [k \in Ids |-> [inUse |-> FALSE, pkt |-> Null]]]
  /\ iAcks = [c \in Clients |-> [k \in Ids |-> [inUse |-> FALSE, type |-> "none"]]]
  /\ inIAcks = [c \in Clients |-> [k \in Ids |-> FALSE]]
  /\ hasInflight = [c \in Clients |-> FALSE]
  /\ nextMid = [c \in Clients |-> 0]
  /\ wbuf = [c \in Clients |-> <<>>]
  /\ topics = {}
  /\ subs = [t \in TopicNames |-> [c \in Clients |-> NoSub]]
  /\ retained = [t \in TopicNames |-> Null]
  /\ pool = [i \in Slots |-> [used |-> FALSE, qos |-> 0, id |-> 0, msg |-> 0,
                              topic |-> <<>>]]
  /\ pending = [c \in Clients |-> [k \in PeerMids |-> IdlePending]]
  /\ owes = [c \in Clients |-> {}]
  /\ got = [c \in Clients |-> [m \in Msgs |-> 0]]
  /\ nPub = 0
  /\ nConn = [c \in Clients |-> 0]

Next ==
  \E c \in Clients :
    \/ ClientConnect(c)
    \/ ClientPublish(c)
    \/ \E k \in PeerMids : ClientResend(c, k)
    \/ \E a \in AckSpace : ClientAck(c, a)
    \/ ClientSubscribe(c)
    \/ ClientUnsubscribe(c)
    \/ ClientPingreq(c)
    \/ ClientDisconnect(c)
    \/ ClientReceive(c)
    \/ ConnectionDrop(c)

\* A connected client keeps reading its socket, sends the acks it owes and
\* re-sends what MQTT 3.1.1 (4.4) obliges it to re-send on resuming.
Fairness ==
  \A c \in Clients :
    /\ WF_vars(ClientReceive(c))
    /\ WF_vars(\E a \in owes[c] : ClientAck(c, a))
    /\ WF_vars(\E k \in PeerMids : ClientResend(c, k))

Spec == Init /\ [][Next]_vars /\ Fairness

-----------------------------------------------------------------------------
TypeOK ==
  /\ online \in [Clients -> BOOLEAN]
  /\ clean \in [Clients -> BOOLEAN]
  /\ subscriptions \in [Clients -> SUBSET TopicNames]
  /\ outgoing \in [Clients -> Seq(Slots)]
  /\ iMsgs \in [Clients -> [Ids -> [inUse: BOOLEAN, pkt: Slots \cup {Null}]]]
  /\ iAcks \in [Clients -> [Ids -> [inUse: BOOLEAN, type: AckTypes \cup {"none"}]]]
  /\ inIAcks \in [Clients -> [Ids -> BOOLEAN]]
  /\ hasInflight \in [Clients -> BOOLEAN]
  /\ nextMid \in [Clients -> Ids]
  /\ wbuf \in [Clients -> Seq(Packet)]
  /\ topics \subseteq TopicNames
  /\ subs \in [TopicNames -> [Clients -> QoS \cup {NoSub}]]
  /\ retained \in [TopicNames -> Packet \cup {Null}]
  /\ pool \in [Slots -> [used: BOOLEAN, qos: QoS, id: Ids, msg: Msgs,
                         topic: TopicStrs \cup {<<>>}]]
  /\ pending \in [Clients -> [PeerMids -> [st: PeerStates, msg: Msgs, qos: QoS,
                     topic: TopicStrs \cup {<<>>}, retain: BOOLEAN, resend: BOOLEAN]]]
  /\ \A c \in Clients : owes[c] \subseteq AckSpace
  /\ got \in [Clients -> [Msgs -> 0..2]]
  /\ nPub \in 0..MaxPub
  /\ nConn \in [Clients -> 0..MaxConn]

-----------------------------------------------------------------------------
(* Properties                                                              *)

\* The pooled packet an outbound QoS 1/2 message is tracked by stays
\* allocated while its i_msgs slot is in use: no ack handler
\* (puback/pubrec/pubcomp, lines 544-592) nor a later allocation in
\* publish_handler releases or reuses the packet of a message the
\* subscriber has not yet acknowledged.
InflightPacketHeld ==
  \A c \in Clients, k \in Ids :
    iMsgs[c][k].inUse => iMsgs[c][k].pkt # Null /\ pool[iMsgs[c][k].pkt].used

\* A QoS 1 or 2 PUBLISH a client sends is carried through its handshake
\* (PUBACK, or PUBREC-PUBREL-PUBCOMP, from publish_handler, pubrel_handler)
\* unless the connection closes first.
PublisherHandshakeCompletes ==
  \A c \in Clients, k \in PeerMids :
    pending[c][k].st # "idle" /\ online[c]
      ~> pending[c][k].st = "idle" \/ ~online[c]

\* A QoS 1 or 2 PUBLISH the fan-out stages to a subscriber has its i_msgs
\* slot released by the subscriber's PUBACK or PUBCOMP (puback_handler,
\* pubrec_handler, pubcomp_handler) unless the connection closes first.
StagedPublish(c, k) ==
  \E i \in DOMAIN wbuf[c] : wbuf[c][i].type = "PUBLISH" /\ wbuf[c][i].id = k
                            /\ wbuf[c][i].qos > 0
OutboundReleased ==
  \A c \in Clients, k \in Mids :
    iMsgs[c][k].inUse /\ StagedPublish(c, k)
      ~> ~iMsgs[c][k].inUse \/ ~online[c]

\* Spec 8.3: a client of a persistent session (clean_session = 0) is
\* installed only on topics its subscription list tracks, the list
\* disconnect_handler walks.  connect_handler (lines 300-304) replaces the
\* list on a clean CONNECT without removing the client from the topics.
SubscriptionTracked ==
  \A t \in TopicNames, c \in Clients :
    subs[t][c] # NoSub /\ ~clean[c] => t \in subscriptions[c]

\* QoS 2 is exactly-once (MQTT 4.3.3): a message published without retain
\* reaches a subscriber at QoS 2 at most once, even when the publisher
\* re-sends it after a reconnect (publish_handler, lines 498-509) or the
\* subscriber resumes its session more than once (connect_handler, 223-233).
ExactlyOnceDelivery ==
  \A c \in Clients, m \in Msgs : got[c][m] <= 1

\* Spec 8.5 (effective QoS) and MQTT 3.8.4: a PUBLISH the broker stages for
\* a subscriber, sent at once by the fan-out (line 142) or flushed from its
\* offline queue by a resuming CONNECT (lines 223-233), never carries a QoS
\* above the one granted to that subscriber on the topic.
GrantedQoSRespected ==
  \A c \in Clients : \A i \in 1..Len(wbuf[c]) :
    LET p == wbuf[c][i]
        t == Append(p.topic, "/")
    IN  p.type = "PUBLISH" /\ t \in TopicNames /\ subs[t][c] # NoSub
          => p.qos <= subs[t][c]

\* Spec 5 (resource lifetimes): a packet publish_handler takes from the pool
\* (line 499) belongs to an inflight slot or an offline queue, whose
\* terminal ack or flush gives it back; a used packet nothing points to can
\* never be freed.
PoolOwned ==
  \A i \in Slots :
    pool[i].used =>
      \/ \E c \in Clients, k \in Ids : iMsgs[c][k].inUse /\ iMsgs[c][k].pkt = i
      \/ \E c \in Clients : i \in Range(outgoing[c])

\* Spec 8: a second CONNECT on a live session is a protocol violation that
\* connect_handler (lines 237-247) answers by disconnecting the client.
DoubleConnectRejected ==
  [][\A c \in Clients : online[c] /\ nConn'[c] = nConn[c] + 1 => ~online'[c]]_vars

-----------------------------------------------------------------------------
(* The outbound inflight tables implement InflightTable: the message an    *)
(* i_msgs slot records is the one in the pooled packet it points to.       *)
InflightOf == [c \in Clients |-> [k \in Ids |->
                 IF iMsgs[c][k].inUse THEN pool[iMsgs[c][k].pkt].msg ELSE Null]]

Table == INSTANCE InflightTable WITH inflight <- InflightOf, None <- Null

\* publish_message (lines 124-128) records a QoS > 0 message in i_msgs only
\* under a free id, the pool keeps the packet an i_msgs slot points to until
\* the ack handlers (lines 544-592) release both, and nothing else touches
\* them: every step of the handlers is a step of InflightTable.
InflightRefinement == Table!Spec

====
