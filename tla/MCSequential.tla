---------------------------- MODULE MCSequential ----------------------------
(* The parts of the driver and the core that one thread executes from the  *)
(* beginning to the end: the hash repository, the utilities of the driver  *)
(* and the serialization. They do not share anything: each behaviour is    *)
(* one of one part, and the others stay in their initial states.           *)
EXTENDS DriverUtilities, MeasurementHashRepository, TLC

CONSTANTS
  o1, o2, o3, Object, Root, Null, Text, MaxValues,
  m1, m2, m3, m4, m5, m6, h1, h2,
  Parts             \* the parts of a run

VARIABLES
  part,
  heap

repository == vars

Entities == INSTANCE Serialization

\* Four measurements with one core, and two with another.
MCTrueCore == [m \in Measurement |-> IF m \in {m5, m6} THEN h2 ELSE h1]

\* Strings that contain what escape sequences are made of.
MCText == {<<"n">>, <<"\\", "n">>, <<"\n", "\\">>}
MCByte == {-61, -1, 65, 66}
\* The search from five points of the first space may miss its best point.
MCSpace == {<<<<1, 2, 3, 4, 5, 6, 7, 8>>>>, <<<<1, 2, 3>>, <<1, 2>>>>, <<<<1, 2>>, <<1, 2>>>>}

MCInit ==
  /\ part \in Parts
  /\ Init
  /\ Entities!Init /\ Stream!Init /\ Monitor!Init /\ Keys!Init /\ Search!Init
  /\ \/ part = "optimization"
     \/ comparison = "lessThan" /\ Len(space[1]) = 2 /\ \A p \in DOMAIN measured : measured[p] = 0
  /\ Len(space[1]) = 8 => comparison = "moreThan"

MCNext ==
  \/ part = "repository" /\ Next /\ UNCHANGED <<part, heap, stream, monitor, keys, search>>
  \/ part = "serialization" /\ Entities!Next /\ UNCHANGED <<part, repository, stream, monitor, keys, search>>
  \/ part = "stream" /\ Stream!Next /\ UNCHANGED <<part, repository, heap, monitor, keys, search>>
  \/ part = "monitor" /\ Monitor!Next /\ UNCHANGED <<part, repository, heap, stream, keys, search>>
  \/ part = "configuration" /\ Keys!Next /\ UNCHANGED <<part, repository, heap, stream, monitor, search>>
  \/ part = "optimization" /\ Search!Next /\ UNCHANGED <<part, repository, heap, stream, monitor, keys>>

MCSpec == MCInit /\ [][MCNext]_<<part, repository, heap, stream, monitor, keys, search>>

\* Of the serialization (see its module): graphs of entities are read as they were
\* written, and a run works on a copy of its measurement.
RoundTrip == Entities!RoundTrip
RunsOnCopy == Entities!RunsOnCopy

\* What comments and the report say, and the parts do not do: the driver reads
\* every graph that is written, and what is returned as the optimum is the best
\* point, at least if the search is not to be fast.
DriverReadsGraphs == Entities!DriverReadsGraphs

Alike == Permutations({o2, o3})
============================================================================
