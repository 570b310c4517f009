------------------------------- MODULE MCPipeline -------------------------------
(* Commands over two very small plans that share an account.                   *)
EXTENDS Pipeline

Node(account, device) == [account_id |-> account, kind |-> "C", device_id |-> device]

\* Two accounts and a transaction; one of the accounts, on a device.
Pair ==
  [nodes |-> <<Node(1, None), Node(2, None)>>,
   edges |-> <<[from |-> 1, to |-> 2, amount |-> 10, step |-> 1, type |-> "PAYMENT",
                ring_id |-> None]>>,
   rings |-> <<>>]
Single == [nodes |-> <<Node(1, "d")>>, edges |-> <<>>, rings |-> <<>>]

MCPlans == {Pair, Single}
================================================================================
