-------------------------- MODULE ReliableStreams --------------------------
(***************************************************************************)
(* What remote control promises to the clients of the app server: each     *)
(* stream's envelopes reach its client once and in the order they were     *)
(* given out, whatever happens to the websocket.                           *)
(***************************************************************************)
EXTENDS Naturals, Sequences

CONSTANTS Streams, Envelopes

VARIABLES
    given,   \* given[s]: the envelopes given out for stream s
    got      \* got[s]: the envelopes its client has accepted

vars == <<given, got>>

Init ==
    /\ given = [s \in Streams |-> <<>>]
    /\ got = [s \in Streams |-> <<>>]

\* a message becomes one envelope or several
Give(s, q) ==
    /\ q \in Seq(Envelopes)
    /\ given' = [given EXCEPT ![s] = @ \o q]
    /\ UNCHANGED got

Accept(s) ==
    /\ Len(got[s]) < Len(given[s])
    /\ got' = [got EXCEPT ![s] = Append(@, given[s][Len(@) + 1])]
    /\ UNCHANGED given

Next == \E s \in Streams :
    \/ Accept(s)
    \/ Give(s, SubSeq(given'[s], Len(given[s]) + 1, Len(given'[s])))

\* once, in order and nothing else; and in the end all of them
SafeSpec == Init /\ [][Next]_vars
Spec == SafeSpec /\ \A s \in Streams : WF_vars(Accept(s))
=============================================================================
