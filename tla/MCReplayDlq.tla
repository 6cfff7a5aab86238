----------------------------- MODULE MCReplayDlq -----------------------------
(* A small instance of ReplayDlq for TLC: rows of every sort.              *)
EXTENDS ReplayDlq

CONSTANTS VendorA, b1

MCVendorMap == 1 :> VendorA

Good == [vendor |-> 1, pickup |-> 1, dropoff |-> 2, location |-> 1,
         passengers |-> 1, money |-> 1]

MCRawRows ==
  {Good,
   \* the same trip with more passengers than the column takes
   [Good EXCEPT !.passengers = 5],
   \* rejected by the schema, and by the domain as well
   [Good EXCEPT !.dropoff = 0],
   [Good EXCEPT !.money = Text],
   \* rejected by the schema, but not by the domain
   [Good EXCEPT !.location = -1],
   \* the schema check raises
   [Good EXCEPT !.location = Null],
   \* accepted, but not by the inserter
   [Good EXCEPT !.location = 4],
   [Good EXCEPT !.money = 4],
   \* unknown vendor, refund, too long, too early, in the future
   [Good EXCEPT !.vendor = 9],
   [Good EXCEPT !.money = -1],
   [Good EXCEPT !.dropoff = 6],
   [Good EXCEPT !.pickup = 0],
   [Good EXCEPT !.pickup = 4, !.dropoff = 5]}

OneBatch == {b1}

Either == BOOLEAN
AlwaysSame == {TRUE}

AllFaults == FaultKinds
NoFaults  == {}
=============================================================================
