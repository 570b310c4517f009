------------------------------ MODULE MCDetection ------------------------------
(* Small graphs for the three detectors, with the code's own limits.          *)
EXTENDS Detection

Customers(n) == [a \in 1..n |-> [kind |-> "C", device_id |-> None]]

Pay(from, to, amount) ==
  [from |-> from, to |-> to, amount |-> amount, step |-> 1, type |-> "PAYMENT"]

Transfer(from, to, step) ==
  [from |-> from, to |-> to, amount |-> 10, step |-> step, type |-> "TRANSFER"]

\* Any part of: triangles, squares and pairs that share accounts.
Flows ==
  {Pay(1, 2, 10), Pay(2, 3, 10), Pay(3, 1, 20), Pay(3, 4, 10), Pay(4, 1, 10),
   Pay(2, 1, 40), Pay(1, 3, 0), Pay(4, 2, 0)}

\* The same with two transactions between two accounts and one from an account to
\* itself.
Parallels ==
  {Pay(1, 2, 10), Pay(1, 2, 40), Pay(2, 3, 10), Pay(3, 1, 20), Pay(2, 1, 10), Pay(3, 3, 10)}

\* A ring of n accounts, with a chord.
Round(n) == {Pay(i, (i % n) + 1, 10) : i \in 1..n} \cup {Pay(3, 1, 10)}

\* Any part of: ten transfers of five accounts, at the limits of the windows.
FanIn ==
  {Transfer(1, 5, 1), Transfer(1, 5, 2), Transfer(2, 5, 1), Transfer(2, 5, 16),
   Transfer(3, 5, 17), Transfer(4, 5, 1), Transfer(4, 5, 61),
   Transfer(1, 5, 62), Transfer(3, 5, 3), Transfer(5, 5, 1)}

Merchant(n, m) == [Customers(n) EXCEPT ![m].kind = "M"]

FanGraphs == [accounts : {Customers(5), Merchant(5, 5)}, tx : SUBSET FanIn]

MCGraphs ==
  [accounts : {Customers(4)}, tx : SUBSET Flows \cup SUBSET Parallels]
    \cup {[accounts |-> Customers(n), tx |-> Round(n)] : n \in 5..7}
    \cup FanGraphs
    \cup [accounts : [1..4 -> [kind : {"C"}, device_id : {None, 11, 12}]], tx : {{}}]
================================================================================
