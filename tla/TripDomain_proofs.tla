--------------------------- MODULE TripDomain_proofs ---------------------------
(***************************************************************************)
(* What the domain pipeline promises for every row, clock and limit: the   *)
(* facts about Outcome and TripOf that the proofs about the replay rest on.*)
(***************************************************************************)
EXTENDS TripDomain, TLAPS

\* The passenger count of a trip is a positive number.
LEMMA PassengerCountType ==
  ASSUME NEW v
  PROVE  PassengerCount(v) \in Int /\ PassengerCount(v) > 0
BY DEF PassengerCount

\* Normalisation touches the vendor and the passenger count only.
LEMMA NormalizeFields ==
  ASSUME NEW row \in Row
  PROVE  /\ Normalize(row) \in Row
         /\ Normalize(row).vendor = VendorName(row.vendor)
         /\ Normalize(row).passengers = PassengerCount(row.passengers)
         /\ Normalize(row).pickup = row.pickup
         /\ Normalize(row).dropoff = row.dropoff
         /\ Normalize(row).location = row.location
         /\ Normalize(row).money = row.money
<1>1. VendorName(row.vendor) \in Labels
  BY DEF VendorName, Labels
<1>2. PassengerCount(row.passengers) \in Value
  BY PassengerCountType DEF Value
<1> QED
  BY <1>1, <1>2 DEF Normalize, Row

\* The fields of the trip that is built from a row.
LEMMA TripFields ==
  ASSUME NEW row \in Row
  PROVE  /\ TripOf(row).vendor = VendorName(row.vendor)
         /\ TripOf(row).pickup = row.pickup
         /\ TripOf(row).dropoff = row.dropoff
         /\ TripOf(row).duration = row.dropoff - row.pickup
         /\ TripOf(row).location = row.location
         /\ TripOf(row).passengers = PassengerCount(row.passengers)
         /\ TripOf(row).money = Amount(row.money)
BY NormalizeFields DEF TripOf, BuildTrip

\* What a valid row is, in terms of its own fields.
ValidRow(row, now) ==
  /\ row.pickup \in Int /\ row.dropoff \in Int /\ row.location \in Int
  /\ row.money \in Int \cup {Null}
  /\ Amount(row.money) >= 0
  /\ row.dropoff - row.pickup > 0 /\ row.dropoff - row.pickup < MaxDuration
  /\ PassengerCount(row.passengers) >= 1
  /\ PassengerCount(row.passengers) <= MaxPassengers
  /\ row.pickup >= MinDate /\ row.pickup - now <= Tolerance

LEMMA ValidOutcome ==
  ASSUME NEW row \in Row, NEW now \in Int
  PROVE  Outcome(row, now) = "valid" <=> ValidRow(row, now)
<1>1. Parses(Normalize(row)) <=>
        /\ row.pickup \in Int /\ row.dropoff \in Int /\ row.location \in Int
        /\ row.money \in Int \cup {Null}
  BY NormalizeFields DEF Parses
<1>2. DurationInRange(TripOf(row)) <=>
        row.dropoff - row.pickup > 0 /\ row.dropoff - row.pickup < MaxDuration
  BY TripFields DEF DurationInRange
<1>3. PassengersInRange(TripOf(row)) <=>
        /\ PassengerCount(row.passengers) >= 1
        /\ PassengerCount(row.passengers) <= MaxPassengers
  BY TripFields DEF PassengersInRange
<1>4. PickupInRange(TripOf(row), now) <=>
        row.pickup >= MinDate /\ row.pickup - now <= Tolerance
  BY TripFields DEF PickupInRange
<1>5. Amount(Normalize(row).money) = Amount(row.money)
  BY NormalizeFields
<1>6. Outcome(row, now) = "valid" <=>
        /\ Parses(Normalize(row)) /\ Amount(Normalize(row).money) >= 0
        /\ DurationInRange(TripOf(row)) /\ PassengersInRange(TripOf(row))
        /\ PickupInRange(TripOf(row), now)
  BY DEF Outcome, TripOf
<1> QED
  BY <1>1, <1>2, <1>3, <1>4, <1>5, <1>6 DEF ValidRow

\* A row that is not valid is rejected by the parser or by the validators.
LEMMA OutcomeType ==
  ASSUME NEW row, NEW now
  PROVE  Outcome(row, now) \in {"valid", "parsing", "validation"}
BY DEF Outcome

\* The clock never turns a valid row into a rejected one: a message that waits
\* in a dead-letter file does not go stale.
THEOREM OutcomeMonotone ==
  ASSUME NEW row \in Row, NEW now \in Int, NEW later \in Int, later >= now,
         Outcome(row, now) = "valid"
  PROVE  Outcome(row, later) = "valid"
<1>1. ValidRow(row, now)
  BY ValidOutcome
<1>2. row.pickup - later <= Tolerance
  BY <1>1, DomainAssumption DEF ValidRow
<1>3. ValidRow(row, later)
  BY <1>1, <1>2 DEF ValidRow
<1> QED
  BY <1>3, ValidOutcome

\* to_dict() of a trip that was built from a valid row is a row again, and a
\* valid one, so a replayed duplicate is never rejected.
THEOREM ToDictStaysValid ==
  ASSUME NEW row \in Row, NEW now \in Int, Outcome(row, now) = "valid"
  PROVE  /\ ToDict(TripOf(row)) \in Row
         /\ Outcome(ToDict(TripOf(row)), now) = "valid"
<1> DEFINE d == ToDict(TripOf(row))
<1>1. ValidRow(row, now)
  BY ValidOutcome
<1>2. /\ d.vendor = VendorName(row.vendor) /\ d.pickup = row.pickup
      /\ d.dropoff = row.dropoff /\ d.location = row.location
      /\ d.passengers = PassengerCount(row.passengers)
      /\ d.money = Amount(row.money)
  BY TripFields DEF ToDict
<1>3. d \in Row
  <2>1. VendorName(row.vendor) \in Labels
    BY DEF VendorName, Labels
  <2>2. PassengerCount(row.passengers) \in Value /\ Amount(row.money) \in Value
    BY PassengerCountType DEF Amount, Value
  <2> QED
    BY <2>1, <2>2, TripFields DEF ToDict, Row
<1>4. PassengerCount(d.passengers) = PassengerCount(row.passengers)
  BY <1>2, PassengerCountType DEF PassengerCount
<1>5. d.money \in Int /\ Amount(d.money) = Amount(row.money)
  BY <1>2 DEF Amount
<1>6. ValidRow(d, now)
  BY <1>1, <1>2, <1>4, <1>5 DEF ValidRow
<1> QED
  BY <1>3, <1>6, ValidOutcome

\* What the validators let through fits the columns of the table, except for
\* the two things that they do not bound: the location id and the amount.
THEOREM ValidFits ==
  ASSUME NEW row \in Row, NEW now \in Int, Outcome(row, now) = "valid",
         TripOf(row).location \in 0 .. MaxUInt16, TripOf(row).money <= MaxAmount
  PROVE  Insertable(TripOf(row))
<1>1. ValidRow(row, now)
  BY ValidOutcome
<1>2. row.dropoff - row.pickup \in 0 .. MaxUInt32
  BY <1>1, DomainAssumption DEF ValidRow
<1>3. PassengerCount(row.passengers) \in 0 .. MaxUInt8
  BY <1>1, DomainAssumption, PassengerCountType DEF ValidRow
<1>4. TripOf(row).money \in -MaxAmount .. MaxAmount
  <2>1. TripOf(row).money \in Int /\ TripOf(row).money >= 0
    BY <1>1, TripFields DEF ValidRow, Amount
  <2> QED
    BY <2>1, DomainAssumption
<1> QED
  BY <1>2, <1>3, <1>4, TripFields DEF Insertable
=============================================================================
