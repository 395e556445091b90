------------------------------- MODULE MCService -------------------------------
(* Two watchers and a message; two sending processes, a primary and a fallback, and    *)
(* messages that ask for either or for a protocol that is not configured; three        *)
(* providers, of whom the last answers badly; a polled GPU pool, one that is not, and  *)
(* an entry of no pool; a type of providers that the schema refuses and one it takes.  *)
EXTENDS Service

CONSTANTS chat, mail, pager, a, b, c, gpu1, gpu2

Fallbacks == <<chat, mail>>
RosterABC == <<a, b, c>>
ShowsABC == [p \in {a, b, c} |-> IF p = c THEN {"leak", "slow"} ELSE {"clean"}]
PoolsInOrder == <<gpu1, gpu2>>
ChainABC == <<a, b, c>>
PoolsABC == [p \in {a, b, c} |-> CASE p = a -> gpu1 [] p = b -> gpu2 [] OTHER -> NoPool]
================================================================================
