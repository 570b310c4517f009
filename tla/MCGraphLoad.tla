------------------------------ MODULE MCGraphLoad ------------------------------
(* Loads of three small planted graphs into one database.                     *)
EXTENDS GraphLoad

Customer(account)       == [account_id |-> account, kind |-> "C", device_id |-> None]
OnDevice(account, ring) == [account_id |-> account, kind |-> "C", device_id |-> ring]
Merchant(account)       == [account_id |-> account, kind |-> "M", device_id |-> None]

Leg(from, to, type, ring) ==
  [from |-> from, to |-> to, amount |-> 10, step |-> 1, type |-> type, ring_id |-> ring]

Ring(id, type, difficulty, members, split) ==
  [ring_id |-> id, ring_type |-> type, difficulty |-> difficulty, members |-> members,
   split |-> split]

\* One payment, and a payout ring of 1, 2 and 3 into the new account 9, of which
\* account 1 also belongs to a device ring planted before.
Reused ==
  [nodes |-> <<OnDevice(1, "d"), OnDevice(4, "d"), OnDevice(5, "d"), Customer(2), Customer(3),
               Customer(9)>>,
   edges |-> <<Leg(1, 4, "PAYMENT", None), Leg(1, 9, "TRANSFER", "p"),
               Leg(2, 9, "TRANSFER", "p"), Leg(3, 9, "TRANSFER", "p")>>,
   rings |-> <<Ring("d", "shared_device", "subtle", {1, 4, 5}, "train"),
               Ring("p", "shared_payout", "obvious", {1, 2, 3, 9}, "test")>>]

\* Another sample: the same first payment, another ring, an account less.
Other ==
  [nodes |-> <<Customer(1), Customer(4), Customer(2), Merchant(7)>>,
   edges |-> <<Leg(1, 4, "PAYMENT", None), Leg(1, 7, "PAYMENT", "l"),
               Leg(4, 7, "PAYMENT", "l"), Leg(2, 7, "PAYMENT", "l")>>,
   rings |-> <<Ring("l", "legit_cluster", None, {1, 4, 2, 7}, "test")>>]

\* The same transaction twice in the data.
Parallel ==
  [nodes |-> <<Customer(1), Customer(2)>>,
   edges |-> <<Leg(1, 2, "PAYMENT", None), Leg(1, 2, "PAYMENT", None)>>,
   rings |-> <<>>]

MCPlans == {Reused, Other, Parallel}
================================================================================
