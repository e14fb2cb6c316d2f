---------------------------- MODULE MCHandlers -----------------------------
(* Small instances of Handlers for TLC.                                    *)
EXTENDS Handlers, TLC

CONSTANTS c1, c2

MCClients == {c1, c2}
\* topic "a" as sent
MCTopicStrs == {<<"a">>}
\* the filter "a" alone
MCFilterA == {<<"a">>}
MCWills == {Null}
====
