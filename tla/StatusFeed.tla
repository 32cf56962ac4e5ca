----------------------------- MODULE StatusFeed -----------------------------
(***************************************************************************)
(* What the service promises the clients of one list, with no store, cache *)
(* or version in sight: a request is answered with the list as it was at   *)
(* some moment between the last write acknowledged before the request and  *)
(* the answer, until the list is past its retention period.                *)
(***************************************************************************)
EXTENDS Integers

CONSTANTS
    Clients,
    None            \* no request, no answer

VARIABLES
    retired,        \* past the retention period: nothing is promised any more
    writes,         \* the status writes made so far
    acked,          \* the latest one acknowledged
    need,           \* by client: acked when it made its request, or None
    got             \* by client: the writes in the answer it got, or None

feedVars == <<retired, writes, acked, need, got>>

Init ==
    /\ retired = FALSE
    /\ writes = 0
    /\ acked = 0
    /\ need = [c \in Clients |-> None]
    /\ got = [c \in Clients |-> None]

Write ==
    /\ writes' = writes + 1
    /\ UNCHANGED <<retired, acked, need, got>>

Acknowledge ==
    /\ acked' \in acked + 1 .. writes
    /\ UNCHANGED <<retired, writes, need, got>>

Ask(c) ==
    /\ need[c] = None
    /\ need' = [need EXCEPT ![c] = acked]
    /\ UNCHANGED <<retired, writes, acked, got>>

Answer(c, n) ==
    /\ need[c] # None
    /\ got[c] = None
    /\ need[c] <= n
    /\ got' = [got EXCEPT ![c] = n]
    /\ UNCHANGED <<retired, writes, acked, need>>

\* Clients go away, or the process that serves them does.
Leave(C) ==
    /\ need' = [c \in Clients |-> IF c \in C THEN None ELSE need[c]]
    /\ got' = [c \in Clients |-> IF c \in C THEN None ELSE got[c]]
    /\ UNCHANGED <<retired, writes, acked>>

Retire ==
    /\ retired' = TRUE
    /\ writes' = 0
    /\ acked' = 0
    /\ need' = [c \in Clients |-> None]
    /\ got' = [c \in Clients |-> None]

Next ==
    \/ ~retired /\ \/ Write \/ Acknowledge
                   \/ \E c \in Clients : Ask(c) \/ \E n \in 0 .. writes : Answer(c, n)
                   \/ \E C \in SUBSET Clients : Leave(C)
    \/ Retire

Spec == Init /\ [][Next]_feedVars
=============================================================================
