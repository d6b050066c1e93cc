--------------------------- MODULE Serialization ---------------------------
(***************************************************************************)
(* How shared entities go from the driver to the core and back, and how    *)
(* the core copies them for a run. All classes are generated from the same *)
(* templates; the one here has a field of each kind, like the class the    *)
(* unit test of the serialization uses. A stream is a sequence of words    *)
(* and characters, with "\n" at the end of each line.                      *)
(***************************************************************************)
EXTENDS Integers, Sequences, SequencesExt, FiniteSets, TLC

CONSTANTS
  Object, Root,     \* the entities, and the one that is serialized
  Null,
  Text,             \* the strings a field is set to: sequences of characters
  MaxValues         \* bounds how many fields and elements are set

VARIABLE heap       \* the fields of each entity

Class == "MultiLanguageTestClass"

Values(o) == Len(heap[o].stringField) + Len(heap[o].referenceList)
             + (IF heap[o].referenceField = Null THEN 0 ELSE 1)
MayGrow == FoldFunction(+, 0, [o \in Object |-> Values(o)]) < MaxValues

Init == heap = [o \in Object |-> [stringField |-> <<>>, referenceField |-> Null,
                                  referenceList |-> <<>>]]

----------------------------------------------------------------------------
(* The generated accessors.                                                *)

SetStringField(o, t) == MayGrow /\ heap' = [heap EXCEPT ![o].stringField = t]
SetReferenceField(o, v) == MayGrow /\ heap' = [heap EXCEPT ![o].referenceField = v]
AddToReferenceList(o, v) == MayGrow /\ heap' = [heap EXCEPT ![o].referenceList = Append(@, v)]

Next ==
  \E o \in Object :
    \/ \E t \in Text : SetStringField(o, t)
    \/ \E v \in Object \cup {Null} : SetReferenceField(o, v) \/ AddToReferenceList(o, v)

----------------------------------------------------------------------------
(* Writing. The context is the entities that were written, in the order of *)
(* their indices.                                                          *)

\* Mutant: backslashes are not escaped.
EscapeNewlines(s) == FlattenSeq([i \in DOMAIN s |-> IF s[i] = "\n" THEN <<"\\", "n">> ELSE <<s[i]>>])

EscapeString(s) ==
  FlattenSeq([i \in DOMAIN s |-> CASE s[i] = "\n" -> <<"\\", "n">>
                                   [] s[i] = "\\" -> <<"\\", "\\">>
                                   [] OTHER -> <<s[i]>>])

Put(s, line) == [s EXCEPT !.stream = @ \o line \o <<"\n">>]

RECURSIVE Serialize(_, _)
SerializeFields(o, s) ==
  LET named == Put(Put(s, <<"stringField">>), EscapeString(heap[o].stringField))
      referred == Serialize(heap[o].referenceField, Put(named, <<"referenceField">>))
      counted == Put(Put(referred, <<"referenceList">>), <<ToString(Len(heap[o].referenceList))>>)
  IN FoldLeft(LAMBDA acc, v : Serialize(v, acc), counted, heap[o].referenceList)

Serialize(o, s) ==
  IF o = Null THEN Put(s, <<"<null>">>)
  ELSE IF Contains(s.map, o)
  THEN Put(s, <<"=> ", ToString((CHOOSE i \in DOMAIN s.map : s.map[i] = o) - 1)>>)
  ELSE SerializeFields(o, Put([s EXCEPT !.map = Append(@, o)], <<Class>>))

Written == Serialize(Root, [map |-> <<>>, stream |-> <<>>]).stream

----------------------------------------------------------------------------
(* Reading. What was read is a sequence of entities in the order they were *)
(* created, that refer to each other by their place in it, or to 0 (null). *)

New == [stringField |-> <<>>, referenceField |-> 0, referenceList |-> <<>>]

RECURSIVE DeEscapeString(_)
DeEscapeString(s) ==
  CASE s = <<>> -> <<>>
    [] s # <<>> /\ s[1] # "\\" -> <<s[1]>> \o DeEscapeString(Tail(s))
    [] OTHER -> <<IF s[2] = "n" THEN "\n" ELSE "\\">> \o DeEscapeString(Tail(Tail(s)))

\* Escape sequences are complete and known, or the string is refused.
Valid(s) ==
  LET Quoted[i \in 0 .. Len(s)] == i > 0 /\ s[i] = "\\" /\ ~ Quoted[i - 1]
  IN /\ ~ Quoted[Len(s)]
     /\ \A i \in DOMAIN s : Quoted[i - 1] => s[i] \in {"\\", "n"}

LineEnd(r) == SelectInSeq(r.stream, LAMBDA c : c = "\n")
Line(r) == SubSeq(r.stream, 1, LineEnd(r) - 1)
SkipLine(r) == [r EXCEPT !.stream = SubSeq(@, LineEnd(r) + 1, Len(@))]
Fail(r) == [r EXCEPT !.failed = TRUE]
Expect(r, line) == IF ~ r.failed /\ Line(r) = line THEN SkipLine(r) ELSE Fail(r)

ReadString(r, n) ==
  IF r.failed \/ ~ Valid(Line(r)) THEN Fail(r)
  ELSE SkipLine([r EXCEPT !.objects[n].stringField = DeEscapeString(Line(r))])

RECURSIVE DeSerialize(_), ReadElements(_, _, _)
ReadReference(r, n) ==
  LET q == DeSerialize(r) IN [q EXCEPT !.objects[n].referenceField = q.value]

ReadElements(r, n, count) ==
  IF r.failed \/ count = 0 THEN r
  ELSE LET q == DeSerialize(r)
       IN ReadElements([q EXCEPT !.objects[n].referenceList = Append(@, q.value)], n, count - 1)

Number(line) == CHOOSE i \in 0 .. MaxValues : ToString(i) = line

ReadList(r, n) ==
  IF r.failed THEN r ELSE ReadElements(SkipLine(r), n, Number(Line(r)[1]))

\* The object is known by its index before its fields are read.
DeSerializeFields(r) ==
  LET n == Len(r.objects) + 1
      named == ReadString(Expect([r EXCEPT !.objects = Append(@, New)], <<"stringField">>), n)
      referred == ReadReference(Expect(named, <<"referenceField">>), n)
  IN [ReadList(Expect(referred, <<"referenceList">>), n) EXCEPT !.value = n]

\* The scanner of the driver never finds the pattern "=> ", since it looks
\* for it in a word: to the driver a reference is an unknown class.
DeSerialize(r) ==
  CASE r.failed -> r
    [] ~ r.failed /\ Line(r) = <<"<null>">> -> [SkipLine(r) EXCEPT !.value = 0]
    [] ~ r.failed /\ Line(r)[1] = "=> " /\ r.reader = "core" ->
         [SkipLine(r) EXCEPT !.value = Number(Line(r)[2]) + 1]
    [] ~ r.failed /\ Line(r) = <<Class>> -> DeSerializeFields(SkipLine(r))
    [] OTHER -> Fail(r)

ReadBy(reader) ==
  DeSerialize([stream |-> Written, objects |-> <<>>, value |-> 0, failed |-> FALSE,
               reader |-> reader])

----------------------------------------------------------------------------
(* clone() and addAll(), by which the core makes the copy of a measurement *)
(* a run works on, and finds the entities in it that events are told to.   *)

\* Mutant: null elements are left out.
CloneNoElement(s, n) == s

\* push_back(NULL)
CloneNullElement(s, n) == [s EXCEPT !.objects[n].referenceList = Append(@, 0)]

RECURSIVE Clone(_, _)
CloneReference(o, s, n) ==
  IF heap[o].referenceField = Null THEN s
  ELSE LET q == Clone(heap[o].referenceField, s) IN [q EXCEPT !.objects[n].referenceField = q.value]

CloneElement(s, n, v) ==
  IF v = Null THEN CloneNullElement(s, n)
  ELSE LET q == Clone(v, s) IN [q EXCEPT !.objects[n].referenceList = Append(@, q.value)]

CloneFrom(o, s, n) ==
  FoldLeft(LAMBDA acc, v : CloneElement(acc, n, v),
           CloneReference(o, [s EXCEPT !.objects[n].stringField = heap[o].stringField], n),
           heap[o].referenceList)

Clone(o, s) ==
  IF Contains(s.map, o) THEN [s EXCEPT !.value = CHOOSE i \in DOMAIN s.map : s.map[i] = o]
  ELSE LET n == Len(s.objects) + 1
           made == [s EXCEPT !.map = Append(@, o), !.objects = Append(@, New)]
       IN [CloneFrom(o, made, n) EXCEPT !.value = n]

Cloned == Clone(Root, [map |-> <<>>, objects |-> <<>>, value |-> 0])

\* Elements are not checked for null, nor entities for having been visited: the
\* core crashes on either, on a circle because its stack is full.
RECURSIVE AddAll(_, _)
AddAll(o, callers) ==
  IF o = Null \/ o \in callers THEN [result |-> {}, crashed |-> TRUE]
  ELSE LET called == ({heap[o].referenceField} \ {Null}) \cup ToSet(heap[o].referenceList)
           parts == {AddAll(v, callers \cup {o}) : v \in called}
       IN [result |-> {o} \cup UNION {p.result : p \in parts},
           crashed |-> \E p \in parts : p.crashed]

----------------------------------------------------------------------------
(* Properties.                                                             *)

References(o) == <<heap[o].referenceField>> \o heap[o].referenceList
RECURSIVE ReachableFrom(_)
ReachableFrom(S) ==
  LET T == S \cup UNION {ToSet(References(o)) \ {Null} : o \in S}
  IN IF T = S THEN S ELSE ReachableFrom(T)
Reachable == ReachableFrom({Root})

\* The objects are Root and what it refers to, with the same fields, and refer
\* to each other the same way.
IsCopy(objects) ==
  \E f \in [Reachable \cup {Null} -> 0 .. Len(objects)] :
    /\ IsInjective(f) /\ DOMAIN objects = {f[o] : o \in Reachable}
    /\ f[Null] = 0 /\ f[Root] = 1
    /\ \A o \in Reachable :
         objects[f[o]] = [stringField |-> heap[o].stringField,
                          referenceField |-> f[heap[o].referenceField],
                          referenceList |-> [i \in DOMAIN heap[o].referenceList |->
                                               f[heap[o].referenceList[i]]]]

\* No object is referred to twice: as many references as there are objects besides Root.
IsTree ==
  Cardinality({<<o, i>> \in Reachable \X (1 .. MaxValues + 1) :
                 i \in DOMAIN References(o) /\ References(o)[i] # Null})
    = Cardinality(Reachable) - 1

ReadsBack(reader) ==
  LET r == ReadBy(reader) IN ~ r.failed /\ r.stream = <<>> /\ IsCopy(r.objects)

\* What is written is read back whole, strings with line ends and backslashes
\* included: by the core any graph of entities, also with circles, and by the
\* driver those in which no entity is referred to twice.
RoundTrip == ReadsBack("core") /\ (IsTree => ReadsBack("driver"))

\* Both languages read every graph of entities that can be written, as the
\* report says of the service that is generated for them.
DriverReadsGraphs == ReadsBack("driver")

\* The copy for a run has the shape of the measurement, and each of its entities
\* is told the events, unless it refers back to itself or has an empty place.
IsCircular == \E o \in Reachable : o \in ReachableFrom(ToSet(References(o)) \ {Null})
HasHole == \E o \in Reachable : Contains(heap[o].referenceList, Null)
RunsOnCopy ==
  /\ IsCopy(Cloned.objects)
  /\ IF IsCircular \/ HasHole THEN AddAll(Root, {}).crashed
     ELSE AddAll(Root, {}) = [result |-> Reachable, crashed |-> FALSE]
============================================================================
