---------------------------- MODULE MCTripProducer ----------------------------
(* A small instance of TripProducer for TLC: a batch with a repeated trip, a *)
(* row the schema rejects and more trips than the queue holds beside the     *)
(* repeated one, then a batch without valid trips; and a file whose second   *)
(* batch has a row without a location id.                                    *)
EXTENDS TripProducer

CONSTANTS v1, v2, v3, s1, d1, n1, t1, t2

MCRows  == {v1, v2, v3, s1, d1, n1}
MCTrips == {t1, t2}

MCFile     == << <<v1, s1, v2, v3>>, <<d1>> >>
MCNullFile == << <<s1, v3>>, <<n1, v1>> >>

BothFiles == {MCFile, MCNullFile}
CleanFile == {MCFile}
NullFile  == {MCNullFile}

MCKind == [r \in MCRows |->
             CASE r = s1 -> "schema"
               [] r = d1 -> "domain"
               [] r = n1 -> "null"
               [] OTHER  -> "valid"]

\* v2 repeats the trip of v1.
MCTripOf == [r \in MCRows |-> IF r \in {v1, v2} THEN t1 ELSE t2]

AllFaults == FaultKinds
NoFaults  == {}
=============================================================================
