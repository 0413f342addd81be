------------------------------- MODULE Lease -------------------------------
(***************************************************************************)
(* What the job table of the memories database promises: each job has at   *)
(* most one holder, and its product changes only in the hands of the       *)
(* holder.  A holder whose lease has lapsed may be superseded; until that  *)
(* happens it may still finish, afterwards it can change nothing.  The     *)
(* table keeps this promise with ownership tokens, which do not appear     *)
(* here.                                                                   *)
(***************************************************************************)
CONSTANTS
    Jobs, Actors,
    Products, NoProduct,
    Free,      \* the job has no holder
    Lost       \* its holder has crashed

VARIABLES
    holder,    \* per job: Free, Lost or the actor that may finish it
    lapsed,    \* jobs whose lease has run out
    product    \* per job, what its last holder made

leaseVars == <<holder, lapsed, product>>

Init ==
    /\ holder = [j \in Jobs |-> Free]
    /\ lapsed = {}
    /\ product = [j \in Jobs |-> NoProduct]

Grant(j, a) ==
    /\ holder[j] = Free \/ j \in lapsed
    /\ \A i \in Jobs : holder[i] # a
    /\ holder' = [holder EXCEPT ![j] = a]
    /\ lapsed' = lapsed \ {j}
    /\ UNCHANGED product

\* A new product of job j.
Makes(j) ==
    /\ product'[j] \in Products
    /\ product' = [product EXCEPT ![j] = product'[j]]

\* The holder changes the product and keeps the job.
Write(j) ==
    /\ holder[j] \in Actors
    /\ Makes(j)
    /\ UNCHANGED <<holder, lapsed>>

\* The holder gives the job back, with a new product or without one.
Finish(j) ==
    /\ holder[j] \in Actors
    /\ holder' = [holder EXCEPT ![j] = Free]
    /\ lapsed' = lapsed \ {j}
    /\ Makes(j)

Crash(a) ==
    /\ holder' = [j \in Jobs |-> IF holder[j] = a THEN Lost ELSE holder[j]]
    /\ UNCHANGED <<lapsed, product>>

Lapse(j) ==
    /\ holder[j] # Free
    /\ lapsed' = lapsed \cup {j}
    /\ UNCHANGED <<holder, product>>

Renew(j) ==
    /\ holder[j] \in Actors
    /\ lapsed' = lapsed \ {j}
    /\ UNCHANGED <<holder, product>>

\* The user withdraws jobs, or products, whoever holds them.
Withdraw ==
    /\ \A j \in Jobs :
          /\ holder'[j] \in {holder[j], Free}
          /\ product'[j] \in {product[j], NoProduct}
    /\ lapsed' = {j \in lapsed : holder'[j] # Free}

Next ==
    \/ \E j \in Jobs :
          \/ \E a \in Actors : Grant(j, a)
          \/ Write(j) \/ Finish(j) \/ Lapse(j) \/ Renew(j)
    \/ \E a \in Actors : Crash(a)
    \/ Withdraw

Spec == Init /\ [][Next]_leaseVars
=============================================================================
