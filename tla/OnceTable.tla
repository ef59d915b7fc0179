------------------------------ MODULE OnceTable ------------------------------
(***************************************************************************)
(* What a request table promises its users: while it is open an id may      *)
(* enter it, an id enters at most once, whoever removes it (a response, a    *)
(* timeout, the caller, the shutdown) does so alone, and once it is closed   *)
(* nothing enters any more.                                                 *)
(***************************************************************************)
CONSTANT Ids

VARIABLES status, open

Init == /\ status = [i \in Ids |-> "new"]
        /\ open = TRUE

Enter(i) == /\ open
            /\ status[i] = "new"
            /\ status' = [status EXCEPT ![i] = "waiting"]
            /\ UNCHANGED open

\* A shutdown may settle several ids in one step.
Settle(S) == /\ \A i \in S : status[i] = "waiting"
             /\ status' = [i \in Ids |-> IF i \in S THEN "settled" ELSE status[i]]
             /\ UNCHANGED open

Close == /\ open
         /\ open' = FALSE
         /\ UNCHANGED status

Next == \/ \E i \in Ids : Enter(i)
        \/ \E S \in SUBSET Ids : Settle(S)
        \/ Close

Spec == Init /\ [][Next]_<<status, open>>
=============================================================================
