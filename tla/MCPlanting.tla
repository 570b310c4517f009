------------------------------ MODULE MCPlanting -------------------------------
(* Small graphs and schedules for plant_rings, and detection on them.          *)
EXTENDS PlantedDetection

Tx(from, to, type) == [from |-> from, to |-> to, amount |-> 60, step |-> 20, type |-> type]

\* Six customers and a merchant.
MCTransactions ==
  {Tx(1, 2, "TRANSFER"), Tx(2, 9, "PAYMENT"), Tx(3, 4, "PAYMENT"), Tx(5, 6, "TRANSFER"),
   Tx(4, 5, "TRANSFER")}
MCMerchants    == {9}

MCKinds ==
  <<<<"shared_device", "obvious">>, <<"shared_device", "obvious">>,
    <<"shared_payout", "subtle">>, <<"circular_flow", "subtle">>>>
DeviceKinds ==
  <<<<"shared_device", "subtle">>, <<"shared_payout", "obvious">>,
    <<"circular_flow", "obvious">>>>

\* Of the sorted customers: the first, the last, or those after the first, backwards.
MCDraw(customers, size) ==
  LET n      == Cardinality(customers)
      sorted == [i \in 1..n |-> CHOOSE a \in customers :
                                  Cardinality({b \in customers : b < a}) = i - 1]
  IN  IF size >= n THEN {}
      ELSE {SubSeq(sorted, 1, size), SubSeq(sorted, n - size + 1, n),
            Reverse(SubSeq(sorted, 2, size + 1))}

\* The low end, or either end of what matters to detection: the delays and the
\* factors of a subtle ring (from 0, and a range of 13), and the size.
MCRandInt(lo, hi) ==
  IF (lo = 0 /\ hi >= 60) \/ hi - lo \in {9, 13} THEN {lo, hi} ELSE {lo}
================================================================================
