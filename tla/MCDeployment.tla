------------------------------ MODULE MCDeployment ------------------------------
(* A small instance of Deployment for TLC. *)
EXTENDS Deployment

CONSTANTS r1, r2, r3, m1, m2, m2edited, m3, db, tracking, trips, target, view, newview, lateview,
          main, dlq, t1

MCRunners  == {r1, r2, r3}
MCContents == {m1, m2, m2edited, m3}
MCObjects  == {db, tracking, trips, target, view, newview, lateview}
MCViews    == {view, newview, lateview}
MCTrips    == {t1}
MCTopics   == {main, dlq}

\* r1 and r3 run the same image; r2 runs a later one, whose second file has been
\* edited and which has a third.
MCFilesOf == [r \in MCRunners |-> IF r = r2 THEN <<m1, m2edited, m3>> ELSE <<m1, m2>>]

\* One statement of each sort: 001 creates the table (its statements for
\* the database, the tracking table and the zones are left out: the first two
\* are there when it runs), 002 a target table and its view.
MCScript ==
  [c \in MCContents |->
     CASE c = m1 -> <<trips>>
       [] c = m2 -> <<target, view>>
       [] c = m3 -> <<lateview>>
       [] OTHER  -> <<target, newview>>]

MCNeeds ==
  [o \in MCObjects |->
     CASE o = db        -> {}
       [] o \in MCViews -> {trips, target}
       [] OTHER         -> {db}]

MCDefaultTopics == {main, dlq}

\* Two runs of one image, two runs of different images, a run and a producer,
\* two producers.
Play(p, q, a, b) == [r \in MCRunners |-> IF r = p THEN a ELSE IF r = q THEN b ELSE "off"]
MCRoles == {Play(r1, r3, "schema", "schema"), Play(r1, r2, "schema", "schema"),
            Play(r1, r2, "schema", "producer"), Play(r1, r2, "producer", "producer")}
=============================================================================
