-------------------------------- MODULE Fifo --------------------------------
(***************************************************************************)
(* What a message channel promises its two ends: each receives a prefix of *)
(* what the other has sent, message by message, whatever becomes of the    *)
(* connection.                                                             *)
(***************************************************************************)
EXTENDS Sequences, Naturals

CONSTANTS End, Message, Other(_)
VARIABLES sent, received

Init ==
    /\ sent = [e \in End |-> <<>>]
    /\ received = [e \in End |-> <<>>]

Send(e) ==
    /\ \E m \in Message : sent' = [sent EXCEPT ![e] = Append(@, m)]
    /\ UNCHANGED received

Receive(e) ==
    LET n == Len(received[e]) + 1
    IN  /\ n <= Len(sent[Other(e)])
        /\ received' = [received EXCEPT ![e] = Append(@, sent[Other(e)][n])]
        /\ UNCHANGED sent

Next == \E e \in End : Send(e) \/ Receive(e)

Spec == Init /\ [][Next]_<<sent, received>>
=============================================================================
