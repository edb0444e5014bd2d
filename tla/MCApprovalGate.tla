---------------------------- MODULE MCApprovalGate ----------------------------
(***************************************************************************)
(* Instances of ApprovalGate for TLC.                                      *)
(***************************************************************************)
EXTENDS ApprovalGate

CONSTANTS r1, r2, b1, b2, phone, tablet

MCOneRequest == {r1}
MCTwoRequests == {r1, r2}
MCTwoBrokers == {b1, b2}

\* The brokers of two devices.
MCTwoDevices == [b \in Brokers |-> IF b = b1 THEN phone ELSE tablet]

MCMixed == {"default", "acceptEdits"}

\* One hook with one trouble, or two hooks and a broker without any.
MCBounds ==
    {[hooks |-> {r1}, brokers |-> {b1, b2}, kills |-> 1, updates |-> 0, losses |-> 0],
     [hooks |-> {r1}, brokers |-> {b1}, kills |-> 0, updates |-> 0, losses |-> 1],
     [hooks |-> {r1}, brokers |-> {b1, b2}, kills |-> 0, updates |-> 1, losses |-> 0],
     [hooks |-> {r1, r2}, brokers |-> {b1}, kills |-> 0, updates |-> 0, losses |-> 0]}
=============================================================================
