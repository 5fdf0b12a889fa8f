------------------------------- MODULE Queues -------------------------------
(* The VecDeque beside a HashMap that the session engine keeps twice: a    *)
(* sequence that lists the keys of the map in the order they arrived.      *)
EXTENDS Naturals, Sequences

\* A queue s holds exactly the elements of S, each once.
Orders(s, S) ==
    /\ \A i, j \in DOMAIN s : s[i] = s[j] => i = j
    /\ \A x \in S : \E i \in DOMAIN s : s[i] = x
    /\ \A i \in DOMAIN s : s[i] \in S

\* VecDeque::retain of every element but x.  The queues it is used on hold an
\* element at most once (they satisfy Orders), so at most one goes.
Without(s, x) ==
    IF \E i \in DOMAIN s : s[i] = x
    THEN LET k == CHOOSE i \in DOMAIN s : s[i] = x
         IN  [i \in 1..(Len(s) - 1) |-> IF i < k THEN s[i] ELSE s[i + 1]]
    ELSE s

=============================================================================
