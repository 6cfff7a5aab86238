------------------------------ MODULE TripDomain ------------------------------
(***************************************************************************)
(* What the pipeline makes of one raw row: the schema check of             *)
(* RawTripSchema, and the normalise, build, enrich, validate and           *)
(* deduplicate steps of TripDomainService.process_batch.                   *)
(*                                                                         *)
(* A raw row carries one field of each sort: vendor code, pickup and       *)
(* dropoff times, one location id for both, the passenger count and one    *)
(* money amount for all nine.  A value is an integer, Null when it is      *)
(* missing, or Text when it is there and no number.  Times are integers    *)
(* of any unit.  Enrichment is left out: an unknown zone becomes           *)
(* "Unknown", it never rejects a row and no other step looks at it.        *)
(***************************************************************************)
EXTENDS Integers, FiniteSets, SequencesExt

CONSTANTS
  Null,          \* a missing value
  Text,          \* a value that does not convert to a number
  VendorMap,     \* vendor codes and their names
  Unknown,       \* the label of a code without a name
  MinDate,       \* TLC_MIN_DATE
  MaxDuration,   \* MAX_TRIP_DURATION_SECONDS
  Tolerance,     \* how far a pickup may lie in the future
  MaxPassengers, \* MAX_PASSENGER_COUNT
  MaxUInt8,      \* the largest passenger_count of the Arrow schema
  MaxUInt16,     \* the largest location id of the Arrow schema
  MaxUInt32,     \* the largest trip_duration_seconds of the Arrow schema
  MaxAmount      \* the largest amount of the Decimal(9, 2) columns

ASSUME DomainAssumption ==
  /\ Null \notin Int /\ Text \notin Int
  /\ MinDate \in Int /\ Tolerance \in Nat
  /\ MaxDuration \in Nat /\ MaxPassengers \in Nat
  /\ MaxUInt8 \in Nat /\ MaxUInt16 \in Nat /\ MaxUInt32 \in Nat /\ MaxAmount \in Nat
  /\ MaxPassengers <= MaxUInt8
  /\ MaxDuration <= MaxUInt32

Value == Int \cup {Null, Text}

\* Raw rows, and what Trip.to_dict makes of a trip: the vendor may be a name.
Labels == {VendorMap[v] : v \in DOMAIN VendorMap} \cup {Unknown}

Row == [vendor : Value \cup Labels, pickup : Value, dropoff : Value,
        location : Value, passengers : Value, money : Value]

-----------------------------------------------------------------------------
(* ValidationService: runs in the producer, before the domain pipeline. *)

\* location_id_positive converts with int(), which raises TypeError for None.
\* That is no ValidationError: it leaves validate_batch, and the run fails.
SchemaRaises(row) == row.location = Null

\* For a row that does not raise: whether it goes on to the domain pipeline.
SchemaValid(row) ==
  /\ row.pickup \in Int /\ row.dropoff \in Int
  /\ row.dropoff >= row.pickup
  /\ row.location \in Int /\ row.location > 0
  /\ row.passengers \in Int \cup {Null}
  /\ row.money \in Int \cup {Null}

-----------------------------------------------------------------------------
(* TripNormalizer. *)

\* A vendor that is not one of the codes, its own name included, is unknown.
VendorName(v) == IF v \in DOMAIN VendorMap THEN VendorMap[v] ELSE Unknown

PassengerCount(v) == IF v \in Int /\ v > 0 THEN v ELSE 1

Normalize(row) ==
  [row EXCEPT !.vendor = VendorName(@), !.passengers = PassengerCount(@)]

-----------------------------------------------------------------------------
(* _build_trip, on a normalised row. *)

Parses(n) ==
  /\ n.pickup \in Int /\ n.dropoff \in Int /\ n.location \in Int
  /\ n.money \in Int \cup {Null}

Amount(v) == IF v \in Int THEN v ELSE 0

\* generate_trip_id: the natural key, of which the code takes the SHA-256.
TripId(n) == <<n.vendor, n.pickup, n.dropoff, n.location>>

BuildTrip(n) ==
  [id         |-> TripId(n),
   vendor     |-> n.vendor,
   pickup     |-> n.pickup,
   dropoff    |-> n.dropoff,
   duration   |-> n.dropoff - n.pickup,
   location   |-> n.location,
   passengers |-> n.passengers,
   money      |-> Amount(n.money)]

\* Trip.to_dict, read as a raw row: the vendor is a name now.
ToDict(trip) ==
  [vendor |-> trip.vendor, pickup |-> trip.pickup, dropoff |-> trip.dropoff,
   location |-> trip.location, passengers |-> trip.passengers, money |-> trip.money]

-----------------------------------------------------------------------------
(* TripValidator. *)

DurationInRange(trip) == trip.duration > 0 /\ trip.duration < MaxDuration

\* Mutant: no upper bound.
MutantPassengersInRange(trip) == trip.passengers >= 1

PassengersInRange(trip) == trip.passengers >= 1 /\ trip.passengers <= MaxPassengers

\* Mutant: the difference is taken the other way round.
MutantPickupInRange(trip, now) ==
  trip.pickup >= MinDate /\ now - trip.pickup <= Tolerance

PickupInRange(trip, now) ==
  trip.pickup >= MinDate /\ trip.pickup - now <= Tolerance

-----------------------------------------------------------------------------
(* process_batch. The outcome of a row is "valid" or the stage that        *)
(* rejects it; it depends on the clock.                                    *)

Outcome(row, now) ==
  LET n    == Normalize(row)
      trip == BuildTrip(n)
  IN IF ~Parses(n) THEN "parsing"
     ELSE IF /\ Amount(n.money) >= 0
             /\ DurationInRange(trip) /\ PassengersInRange(trip)
             /\ PickupInRange(trip, now)
     THEN "valid" ELSE "validation"

TripOf(row) == BuildTrip(Normalize(row))

\* TripDeduplicator.deduplicate: the later rows of a trip_id.
Duplicates(rows, I) ==
  {i \in I : \E j \in I : j < i /\ TripOf(rows[j]).id = TripOf(rows[i]).id}

Accepted(rows, I, now) == {i \in I : Outcome(rows[i], now) = "valid"}

-----------------------------------------------------------------------------
(* The inserter: whether pa.Table.from_pylist takes a row of the trip, and *)
(* whether its columns in taxi.trips take the amounts.                     *)

Insertable(trip) ==
  /\ trip.money \in -MaxAmount .. MaxAmount
  /\ trip.location \in 0 .. MaxUInt16
  /\ trip.passengers \in 0 .. MaxUInt8
  /\ trip.duration \in 0 .. MaxUInt32
=============================================================================
