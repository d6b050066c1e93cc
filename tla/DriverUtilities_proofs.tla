----------------------- MODULE DriverUtilities_proofs -----------------------
(***************************************************************************)
(* Theorems about four classes of the driver: pop() restores the           *)
(* Configuration, the UpdatingFileOutputStream leaves in the file what was *)
(* written to it, the RuntimeMonitor charges all time, and the             *)
(* OptimizationService finds nothing worse than it had to.                 *)
(***************************************************************************)
EXTENDS DriverUtilities, SequenceTheorems, FiniteSetTheorems, WellFoundedInduction, TLAPS

----------------------------------------------------------------------------
(* Configuration: for any keys, values and nesting.                        *)

Values == Value \cup {Unset}
OldValues == UNION {[S -> Values] : S \in SUBSET Key}

Typed ==
  /\ data \in [Key -> Values]
  /\ oldValuesStack \in Seq(OldValues)
  /\ pushed \in Seq([Key -> Values])
  /\ Len(pushed) = Len(oldValuesStack)

\* What the configuration is below a level of the stack: what was pushed next.
Above(i) == IF i = Len(oldValuesStack) THEN data ELSE pushed[i + 1]

\* The values a level saved, put over what was pushed next, are what was pushed.
Undone ==
  \A i \in 1..Len(oldValuesStack) : \A k \in Key :
    pushed[i][k] = IF k \in DOMAIN oldValuesStack[i] THEN oldValuesStack[i][k] ELSE Above(i)[k]

IInv == Typed /\ Undone

LEMMA SavedType ==
  ASSUME Typed, NEW old \in OldValues, NEW key \in Key
  PROVE  /\ Keys!Saved(old, key) \in OldValues
         /\ DOMAIN Keys!Saved(old, key) = DOMAIN old \cup {key}
         /\ \A k \in DOMAIN Keys!Saved(old, key) :
              Keys!Saved(old, key)[k] = IF k \in DOMAIN old THEN old[k] ELSE data[k]
<1>1. PICK S \in SUBSET Key : old \in [S -> Values]  BY DEF OldValues
<1>2. Keys!Saved(old, key) \in [S \cup {key} -> Values]  BY <1>1 DEF Keys!Saved, Typed
<1>3. S \cup {key} \in SUBSET Key  OBVIOUS
<1> QED  BY <1>1, <1>2, <1>3 DEF OldValues, Keys!Saved

LEMMA InitIInv == Keys!Init => IInv
BY DEF Keys!Init, IInv, Typed, Undone, Values

LEMMA SetStep ==
  ASSUME IInv, NEW key \in Key, NEW value \in Value, Keys!SetUntyped(key, value)
  PROVE  IInv'
<1> DEFINE n == Len(oldValuesStack)
<1>0. Typed /\ Undone /\ n \in Nat  BY DEF IInv, Typed
<1>1. data' \in [Key -> Values] /\ data' = [data EXCEPT ![key] = value]
  BY <1>0 DEF Typed, Keys!SetUntyped, Values
<1>2. CASE n = 0
  <2>1. oldValuesStack = <<>>  BY <1>0, <1>2 DEF Typed
  <2>2. oldValuesStack' = <<>> /\ pushed' = pushed  BY <2>1 DEF Keys!SetUntyped
  <2>3. Typed'  BY <1>0, <1>1, <2>1, <2>2 DEF Typed
  <2> QED  BY <2>2, <2>3 DEF IInv, Undone
<1>3. CASE n > 0
  <2> DEFINE top == Keys!Saved(oldValuesStack[n], key)
  <2>0. n \in DOMAIN oldValuesStack /\ oldValuesStack # <<>> /\ oldValuesStack[n] \in OldValues
    BY <1>0, <1>3 DEF Typed
  <2>1. oldValuesStack' = [oldValuesStack EXCEPT ![n] = top] /\ pushed' = pushed
    BY <2>0 DEF Keys!SetUntyped
  <2>2. /\ top \in OldValues
        /\ DOMAIN top = DOMAIN oldValuesStack[n] \cup {key}
        /\ \A k \in DOMAIN top : top[k] = IF k \in DOMAIN oldValuesStack[n]
                                         THEN oldValuesStack[n][k] ELSE data[k]
    BY <1>0, <2>0, SavedType
  <2> HIDE DEF top
  <2>3. oldValuesStack' \in Seq(OldValues) /\ Len(oldValuesStack') = n
    BY <1>0, <2>0, <2>1, <2>2 DEF Typed
  <2>4. Typed'  BY <1>0, <1>1, <2>1, <2>3 DEF Typed
  <2>5. ASSUME NEW i \in 1..n, NEW k \in Key
        PROVE  pushed'[i][k] = IF k \in DOMAIN oldValuesStack'[i] THEN oldValuesStack'[i][k] ELSE Above(i)'[k]
    <3>0. pushed[i][k] = IF k \in DOMAIN oldValuesStack[i] THEN oldValuesStack[i][k] ELSE Above(i)[k]
      BY <1>0 DEF Undone
    <3>1. CASE i = n
      <4>1. oldValuesStack'[i] = top /\ Above(i)' = data' /\ Above(i) = data
        BY <1>0, <2>0, <2>1, <2>3, <3>1 DEF Above, Typed
      <4>2. CASE k \in DOMAIN oldValuesStack[n]  BY <2>1, <2>2, <3>0, <3>1, <4>1, <4>2
      <4>3. CASE k \notin DOMAIN oldValuesStack[n] /\ k = key
        BY <2>1, <2>2, <3>0, <3>1, <4>1, <4>3
      <4>4. CASE k \notin DOMAIN oldValuesStack[n] /\ k # key
        <5>1. data'[k] = data[k]  BY <1>0, <1>1, <4>4 DEF Typed
        <5> QED  BY <2>1, <2>2, <3>0, <3>1, <4>1, <4>4, <5>1
      <4> QED  BY <4>2, <4>3, <4>4
    <3>2. CASE i # n
      <4>1. oldValuesStack'[i] = oldValuesStack[i]  BY <1>0, <2>0, <2>1, <3>2 DEF Typed
      <4>2. Above(i)' = Above(i)  BY <2>1, <2>3, <3>2 DEF Above
      <4> QED  BY <2>1, <3>0, <4>1, <4>2
    <3> QED  BY <3>1, <3>2
  <2> QED  BY <2>3, <2>4, <2>5 DEF IInv, Undone
<1> QED  BY <1>0, <1>2, <1>3

LEMMA PushStep == ASSUME IInv, Keys!Push PROVE IInv'
<1> DEFINE n == Len(oldValuesStack)
<1> DEFINE fresh == [k \in {} |-> Unset]
<1>0. Typed /\ Undone /\ n \in Nat  BY DEF IInv, Typed
<1>1. /\ oldValuesStack' = Append(oldValuesStack, fresh)
      /\ pushed' = Append(pushed, data) /\ data' = data
  BY DEF Keys!Push
<1>2. fresh \in [{} -> Values] /\ {} \in SUBSET Key  OBVIOUS
<1>3. fresh \in OldValues /\ DOMAIN fresh = {}  BY <1>2 DEF OldValues
<1> HIDE DEF fresh
<1>4. /\ oldValuesStack' \in Seq(OldValues) /\ Len(oldValuesStack') = n + 1
      /\ pushed' \in Seq([Key -> Values]) /\ Len(pushed') = n + 1
  BY <1>0, <1>1, <1>3 DEF Typed
<1>5. Typed'  BY <1>0, <1>1, <1>4 DEF Typed
<1>6. ASSUME NEW i \in 1..(n + 1), NEW k \in Key
      PROVE  pushed'[i][k] = IF k \in DOMAIN oldValuesStack'[i] THEN oldValuesStack'[i][k] ELSE Above(i)'[k]
  <2>1. CASE i = n + 1
    <3>1. oldValuesStack'[i] = fresh /\ pushed'[i] = data  BY <1>0, <1>1, <2>1 DEF Typed
    <3>2. Above(i)' = data  BY <1>1, <1>4, <2>1 DEF Above
    <3> QED  BY <1>3, <3>1, <3>2
  <2>2. CASE i \in 1..n
    <3>1. oldValuesStack'[i] = oldValuesStack[i] /\ pushed'[i] = pushed[i]
      BY <1>0, <1>1, <2>2 DEF Typed
    <3>2. Above(i)' = Above(i)
      <4>1. CASE i = n
        <5>1. pushed'[i + 1] = data  BY <1>0, <1>1, <4>1 DEF Typed
        <5> QED  BY <1>0, <1>4, <4>1, <5>1 DEF Above
      <4>2. CASE i # n
        <5>1. pushed'[i + 1] = pushed[i + 1]  BY <1>0, <1>1, <2>2, <4>2 DEF Typed
        <5> QED  BY <1>0, <1>4, <2>2, <4>2, <5>1 DEF Above
      <4> QED  BY <4>1, <4>2
    <3> QED  BY <1>0, <2>2, <3>1, <3>2 DEF Undone
  <2> QED  BY <1>0, <2>1, <2>2
<1> QED  BY <1>4, <1>5, <1>6 DEF IInv, Undone

\* One pop() takes a level from the stack and what was pushed with it.
LEMMA PopStep == ASSUME IInv, Keys!Pop PROVE IInv' /\ data' = Keys!Last(pushed)
<1> DEFINE n == Len(oldValuesStack)
<1>0. Typed /\ Undone /\ n \in Nat  BY DEF IInv, Typed
<1>1. n > 0  BY <1>0 DEF Keys!Pop, Typed
<1>2. /\ Keys!Last(pushed) = pushed[n] /\ Keys!Last(oldValuesStack) = oldValuesStack[n]
      /\ pushed[n] \in [Key -> Values]
  BY <1>0, <1>1 DEF Typed, Keys!Last
<1>3. data' = [k \in Key |-> IF k \in DOMAIN oldValuesStack[n] THEN oldValuesStack[n][k] ELSE data[k]]
  BY <1>2 DEF Keys!Pop
<1>4. \A k \in Key : pushed[n][k] = IF k \in DOMAIN oldValuesStack[n] THEN oldValuesStack[n][k] ELSE data[k]
  BY <1>0, <1>1 DEF Undone, Above
<1>5. data' = pushed[n]  BY <1>2, <1>3, <1>4
<1>6. /\ oldValuesStack' = [i \in 1..(n - 1) |-> oldValuesStack[i]]
      /\ pushed' = [i \in 1..(n - 1) |-> pushed[i]]
  <2>1. oldValuesStack' = Keys!Front(oldValuesStack) /\ pushed' = Keys!Front(pushed)  BY DEF Keys!Pop
  <2> QED  BY <1>0, <1>1, <2>1 DEF Keys!Front, Typed
<1>7. /\ oldValuesStack' \in Seq(OldValues) /\ Len(oldValuesStack') = n - 1
      /\ pushed' \in Seq([Key -> Values]) /\ Len(pushed') = n - 1
  BY <1>0, <1>1, <1>6 DEF Typed
<1>8. Typed'  BY <1>2, <1>5, <1>7 DEF Typed
<1>9. ASSUME NEW i \in 1..(n - 1), NEW k \in Key
      PROVE  pushed'[i][k] = IF k \in DOMAIN oldValuesStack'[i] THEN oldValuesStack'[i][k] ELSE Above(i)'[k]
  <2>1. oldValuesStack'[i] = oldValuesStack[i] /\ pushed'[i] = pushed[i]  BY <1>6
  <2>2. Above(i)' = pushed[i + 1]
    <3>1. CASE i = n - 1  BY <1>0, <1>5, <1>7, <3>1 DEF Above
    <3>2. CASE i # n - 1  BY <1>0, <1>6, <1>7, <3>2 DEF Above
    <3> QED  BY <3>1, <3>2
  <2>3. Above(i) = pushed[i + 1]  BY <1>0 DEF Above
  <2> QED  BY <1>0, <2>1, <2>2, <2>3 DEF Undone
<1> QED  BY <1>2, <1>5, <1>7, <1>8, <1>9 DEF IInv, Undone

LEMMA IInvStep == IInv /\ [Keys!Next]_Keys!vars => IInv'
<1> SUFFICES ASSUME IInv, [Keys!Next]_Keys!vars PROVE IInv'  OBVIOUS
<1>1. CASE \E key \in Key, value \in Value : Keys!SetUntyped(key, value)  BY <1>1, SetStep
<1>2. CASE Keys!Push  BY <1>2, PushStep
<1>3. CASE Keys!Pop  BY <1>3, PopStep
<1>4. CASE UNCHANGED Keys!vars  BY <1>4 DEF Keys!vars, IInv, Typed, Undone, Above
<1> QED  BY <1>1, <1>2, <1>3, <1>4 DEF Keys!Next

\* pop() gives back what its push() found (Configuration.java:57-66, 90-110):
\* for any keys and values, and however deep the pushes are nested.
THEOREM PopRestoresPushed == Keys!Spec => PopRestores
<1>1. ASSUME IInv, [Keys!Next]_Keys!vars
      PROVE  [Len(oldValuesStack') < Len(oldValuesStack) => data' = Keys!Last(pushed)]_Keys!vars
  <2>1. CASE \E key \in Key, value \in Value : Keys!SetUntyped(key, value)
    <3>1. Len(oldValuesStack') = Len(oldValuesStack)
      BY <1>1, <2>1 DEF IInv, Typed, Keys!SetUntyped
    <3> QED  BY <1>1, <3>1 DEF IInv, Typed
  <2>2. CASE Keys!Push
    <3>1. Len(oldValuesStack') = Len(oldValuesStack) + 1
      BY <1>1, <2>2 DEF IInv, Typed, Keys!Push
    <3> QED  BY <1>1, <3>1 DEF IInv, Typed
  <2>3. CASE Keys!Pop  BY <1>1, <2>3, PopStep
  <2> QED  BY <1>1, <2>1, <2>2, <2>3 DEF Keys!Next
<1> QED  BY InitIInv, IInvStep, <1>1, PTL DEF Keys!Spec, PopRestores, Keys!PopRestores

----------------------------------------------------------------------------
(* UpdatingFileOutputStream: for any files and anything written to them.   *)

File == Seq(0 .. 255)

StreamTypes ==
  /\ file \in File \cup {NoFile} /\ before \in File \cup {NoFile}
  /\ written \in Seq(Byte) /\ position \in Nat
  /\ open \in BOOLEAN /\ writing \in BOOLEAN
  /\ open \/ writing => file # NoFile
  /\ file # NoFile => position <= Len(file)

\* No byte was written that looks like the end of the file.
NoEnd == \A i \in DOMAIN written : written[i] # -1

\* What makes the stream say that it changed the file.
Changed ==
  \/ before = NoFile
  \/ \E i \in DOMAIN written : written[i] < 0
  \/ \E i \in 1 .. position : i > Len(before) \/ file[i] # before[i]
  \/ ~ open /\ Len(before) > position

\* The file up to the position is what was written, and nobody has touched the
\* rest of it unless the stream knows.
WrittenOK ==
  NoEnd =>
    /\ position = Len(written)
    /\ file # NoFile => \A i \in 1 .. position : file[i] = Stream!Unsigned(written[i])
    /\ ~ writing => file = before
    /\ writing => Changed
    /\ ~ open /\ file # NoFile => Len(file) = position

StreamInv == StreamTypes /\ WrittenOK

\* A signed byte and the byte that stands for it in the file.
LEMMA UnsignedByte ==
  ASSUME NEW b \in -128 .. 127
  PROVE  Stream!Unsigned(b) \in 0 .. 255 /\ (b >= 0 => Stream!Unsigned(b) = b)
BY DEF Stream!Unsigned

\* The bytes of a file.
LEMMA FileBytes ==
  ASSUME NEW f \in File
  PROVE  /\ Len(f) \in Nat /\ DOMAIN f = 1 .. Len(f)
         /\ \A i \in 1 .. Len(f) : f[i] \in 0 .. 255
<1>1. PICK B : B = 0 .. 255
  OBVIOUS
<1>2. f \in Seq(B)
  BY <1>1 DEF File
<1>3. Len(f) \in Nat /\ DOMAIN f = 1 .. Len(f) /\ \A i \in 1 .. Len(f) : f[i] \in B
  BY <1>2
<1> QED
  BY <1>1, <1>3

LEMMA EmptyFile == <<>> \in File /\ Len(<<>>) = 0 /\ <<>> \in Seq(Byte)
<1>1. <<>> \in Seq(0 .. 255)
  OBVIOUS
<1>2. Len(<<>>) = 0
  OBVIOUS
<1>3. <<>> \in Seq(Byte)
  OBVIOUS
<1> QED
  BY <1>1, <1>2, <1>3 DEF File

\* The first n bytes of a file, and a byte put after them.
LEMMA CutOff ==
  ASSUME NEW f \in File, NEW n \in 0 .. Len(f)
  PROVE  /\ SubSeq(f, 1, n) \in File /\ Len(SubSeq(f, 1, n)) = n
         /\ \A i \in 1 .. n : SubSeq(f, 1, n)[i] = f[i]
         /\ n = Len(f) => SubSeq(f, 1, n) = f
<1>1. Len(f) \in Nat /\ f \in Seq(0 .. 255) /\ DOMAIN f = 1 .. Len(f)
  BY DEF File
<1>2. PICK g : g = SubSeq(f, 1, n)
  OBVIOUS
<1>3. \A i \in 1 .. n : f[i] \in 0 .. 255
  BY <1>1
<1>4. g \in Seq(0 .. 255) /\ Len(g) = n /\ DOMAIN g = 1 .. n /\ \A i \in 1 .. n : g[i] = f[i]
  BY <1>1, <1>2, <1>3
<1>5. n = Len(f) => g = f
  <2>1. g = [i \in 1 .. n |-> g[i]] /\ f = [i \in 1 .. Len(f) |-> f[i]]
    BY <1>1, <1>4
  <2> QED
    BY <1>4, <2>1
<1> QED
  BY <1>2, <1>4, <1>5 DEF File

\* A file g of the first n bytes of f and the byte x.
Longer(g, f, n, x) ==
  g \in File /\ Len(g) = n + 1 /\ g[n + 1] = x /\ \A i \in 1 .. n : g[i] = f[i]

LEMMA PutAfter ==
  ASSUME NEW f \in File, NEW n \in 0 .. Len(f), NEW x \in 0 .. 255,
         NEW g, g = Append(SubSeq(f, 1, n), x)
  PROVE  Longer(g, f, n, x)
<1>1. PICK h : h = SubSeq(f, 1, n)
  OBVIOUS
<1>2. h \in File /\ Len(h) = n /\ \A i \in 1 .. n : h[i] = f[i]
  BY <1>1, CutOff
<1>3. g = Append(h, x)
  BY <1>1
<1>4. g \in File /\ Len(g) = n + 1 /\ g[n + 1] = x /\ \A i \in 1 .. n : g[i] = h[i]
  <2>1. PICK B : B = 0 .. 255
    OBVIOUS
  <2>2. h \in Seq(B) /\ x \in B /\ Len(h) \in Nat /\ Len(h) = n
    BY <1>2, <2>1 DEF File
  <2>3. /\ Append(h, x) \in Seq(B) /\ Len(Append(h, x)) = Len(h) + 1
        /\ \A i \in 1 .. Len(h) : Append(h, x)[i] = h[i]
        /\ Append(h, x)[Len(h) + 1] = x
    BY <2>2, AppendProperties
  <2>4. g \in File
    BY <1>3, <2>1, <2>3 DEF File
  <2> QED
    BY <1>3, <2>2, <2>3, <2>4
<1> QED
  BY <1>2, <1>4 DEF Longer

LEMMA OpenKeeps ==
  ASSUME StreamInv, NoFile \notin File, Stream!Open
  PROVE  StreamInv'
<1>1. /\ open' = TRUE /\ before' = file /\ written' = <<>> /\ position' = 0
      /\ writing' = (file = NoFile) /\ file' = IF file = NoFile THEN <<>> ELSE file
  BY DEF Stream!Open
<1>2. PICK e : e = <<>>
  OBVIOUS
<1>3. e \in File /\ e # NoFile /\ Len(e) = 0 /\ e \in Seq(Byte)
  BY <1>2, EmptyFile
<1>4. file' \in File /\ file' # NoFile /\ (file = NoFile => file' = e)
  BY <1>1, <1>2, <1>3 DEF StreamInv, StreamTypes
<1>5. Len(file') \in Nat
  BY <1>4 DEF File
<1>6. /\ before' \in File \cup {NoFile} /\ written' = e /\ position' = 0
      /\ writing' \in BOOLEAN /\ open' = TRUE
  BY <1>1, <1>2 DEF StreamInv, StreamTypes
<1>7. StreamTypes'
  BY <1>3, <1>4, <1>5, <1>6 DEF StreamTypes
<1>8. /\ writing' => before' = NoFile
      /\ ~ writing' => file' = before'
  BY <1>1
<1>9. WrittenOK'
  <2>1. position' = Len(written') /\ \A i \in 1 .. position' : FALSE
    BY <1>3, <1>6
  <2> QED
    BY <1>6, <1>8, <2>1 DEF WrittenOK, Changed
<1> QED
  BY <1>7, <1>9 DEF StreamInv

LEMMA WriteKeeps ==
  ASSUME StreamInv, NoFile \notin File, Byte \subseteq -128 .. 127,
         NEW b \in Byte, Stream!Write(b)
  PROVE  StreamInv'
<1> DEFINE u == Stream!Unsigned(b)
<1>1. /\ open = TRUE /\ open' = TRUE /\ before' = before /\ written' = Append(written, b)
      /\ file \in File /\ position \in 0 .. Len(file) /\ Len(file) \in Nat
      /\ written \in Seq(Byte) /\ Len(written) \in Nat /\ b \in -128 .. 127
      /\ writing \in BOOLEAN
  BY DEF Stream!Write, StreamInv, StreamTypes, File
<1>2. u \in 0 .. 255 /\ (b >= 0 => u = b)
  BY <1>1, UnsignedByte
<1>3. /\ written' \in Seq(Byte) /\ Len(written') = Len(written) + 1
      /\ DOMAIN written' = 1 .. (Len(written) + 1) /\ DOMAIN written = 1 .. Len(written)
      /\ written'[Len(written) + 1] = b /\ \A i \in 1 .. Len(written) : written'[i] = written[i]
  BY <1>1
<1>4. Stream!Read = IF position < Len(file) THEN file[position + 1] ELSE -1
  BY DEF Stream!Read, Stream!End
<1>5. position < Len(file) => file[position + 1] \in 0 .. 255
  <2> SUFFICES ASSUME position < Len(file)
               PROVE  file[position + 1] \in 0 .. 255
    OBVIOUS
  <2>1. position + 1 \in 1 .. Len(file)
    BY <1>1
  <2> QED
    BY <1>1, <2>1, FileBytes
<1>6. NoEnd' => NoEnd /\ b # -1
  BY <1>1, <1>3 DEF NoEnd
<1>7. ASSUME NoEnd'
      PROVE  /\ position = Len(written)
             /\ \A i \in 1 .. position : file[i] = Stream!Unsigned(written[i])
             /\ ~ writing => file = before
             /\ writing => Changed
  BY <1>1, <1>6, <1>7 DEF StreamInv, WrittenOK
<1>8. CASE writing \/ Stream!Different(b)
  <2>1. /\ writing' = TRUE /\ position' = position + 1
        /\ file' = Append(SubSeq(file, 1, position), u)
    BY <1>8 DEF Stream!Write
  <2>2. /\ file' \in File /\ Len(file') = position + 1 /\ file'[position + 1] = u
        /\ \A i \in 1 .. position : file'[i] = file[i]
    <3>1. PICK x : x = u
      OBVIOUS
    <3>2. PICK n : n = position
      OBVIOUS
    <3>3. PICK f : f = file
      OBVIOUS
    <3>4. x \in 0 .. 255 /\ f \in File /\ n \in 0 .. Len(f)
      BY <1>1, <1>2, <3>1, <3>2, <3>3
    <3>5. PICK g : g = Append(SubSeq(f, 1, n), x)
      OBVIOUS
    <3>6. Longer(g, f, n, x)
      BY <3>4, <3>5, PutAfter
    <3> HIDE DEF u
    <3>7. file' = g
      BY <2>1, <3>1, <3>2, <3>3, <3>5
    <3> QED
      BY <3>1, <3>2, <3>3, <3>6, <3>7 DEF Longer
  <2>3. StreamTypes'
    <3>0. file' # NoFile
      BY <2>2
    <3>1. position' \in Nat /\ position' <= Len(file')
      <4>1. position \in Nat /\ Len(file') = position + 1 /\ position' = position + 1
        BY <1>1, <2>1, <2>2
      <4> QED
        BY <4>1
    <3>2. before' \in File \cup {NoFile}
      BY <1>1 DEF StreamInv, StreamTypes
    <3> QED
      BY <1>1, <1>3, <2>1, <2>2, <3>0, <3>1, <3>2 DEF StreamTypes
  <2>4. ASSUME NoEnd'
        PROVE  /\ position' = Len(written')
               /\ \A i \in 1 .. position' : file'[i] = Stream!Unsigned(written'[i])
    <3>1. position' = Len(written')
      BY <1>3, <1>7, <2>1, <2>4
    <3>2. ASSUME NEW i \in 1 .. position'
          PROVE  file'[i] = Stream!Unsigned(written'[i])
      <4>1. CASE i = position + 1
        BY <1>3, <1>7, <2>2, <2>4, <4>1
      <4>2. CASE i \in 1 .. position
        BY <1>3, <1>7, <2>2, <2>4, <4>2
      <4>3. position \in Int /\ position' = position + 1
        BY <1>1, <2>1
      <4>4. i = position + 1 \/ i \in 1 .. position
        BY <3>2, <4>3
      <4> QED
        BY <4>1, <4>2, <4>4
    <3> QED
      BY <3>1, <3>2
  <2>5. ASSUME NoEnd'
        PROVE  Changed'
    <3>1. CASE writing
      <4>1. before = NoFile => before' = NoFile
        BY <1>1
      <4>2. (\E i \in DOMAIN written : written[i] < 0) => \E i \in DOMAIN written' : written'[i] < 0
        BY <1>1, <1>3
      <4>3. ASSUME NEW i \in 1 .. position, i > Len(before) \/ file[i] # before[i]
            PROVE  \E j \in 1 .. position' : j > Len(before') \/ file'[j] # before'[j]
        <5>1. i \in 1 .. position' /\ (i > Len(before') \/ file'[i] # before'[i])
          BY <1>1, <2>1, <2>2, <4>3
        <5> QED
          BY <5>1
      <4>4. Changed
        BY <1>7, <2>5, <3>1
      <4> QED
        BY <1>1, <4>1, <4>2, <4>3, <4>4 DEF Changed
    <3>2. CASE ~ writing
      <4>1. b # Stream!Read /\ file = before
        BY <1>7, <1>8, <2>5, <3>2 DEF Stream!Different
      <4>2. CASE b < 0
        <5>1. Len(written) + 1 \in DOMAIN written' /\ written'[Len(written) + 1] < 0
          BY <1>1, <1>3, <4>2
        <5> QED
          BY <5>1 DEF Changed
      <4>3. CASE b >= 0
        <5>1. position + 1 > Len(before) \/ file'[position + 1] # before[position + 1]
          BY <1>1, <1>2, <1>4, <2>2, <4>1, <4>3
        <5>2. position + 1 \in 1 .. position'
          BY <1>1, <2>1
        <5> QED
          BY <1>1, <5>1, <5>2 DEF Changed
      <4> QED
        BY <1>1, <4>2, <4>3
    <3> QED
      BY <1>1, <3>1, <3>2
  <2>6. WrittenOK'
    BY <1>1, <2>1, <2>4, <2>5 DEF WrittenOK
  <2> QED
    BY <2>3, <2>6 DEF StreamInv
<1>9. CASE ~ (writing \/ Stream!Different(b))
  <2>1. /\ b = Stream!Read /\ file' = file /\ writing' = FALSE /\ writing = FALSE
        /\ position' = IF Stream!Read = -1 THEN position ELSE position + 1
    BY <1>1, <1>9 DEF Stream!Write, Stream!Different, Stream!End
  <2>2. position' \in 0 .. Len(file)
    BY <1>1, <1>4, <1>5, <2>1
  <2>3. StreamTypes'
    <3>1. file' # NoFile /\ position' \in Nat /\ position' <= Len(file')
      BY <1>1, <2>1, <2>2
    <3>2. before' \in File \cup {NoFile} /\ file' \in File /\ writing' \in BOOLEAN
      BY <1>1, <2>1 DEF StreamInv, StreamTypes
    <3> QED
      BY <1>1, <1>3, <3>1, <3>2 DEF StreamTypes
  <2>4. ASSUME NoEnd'
        PROVE  /\ position' = Len(written')
               /\ \A i \in 1 .. position' : file'[i] = Stream!Unsigned(written'[i])
    <3>0. Stream!Read = b /\ b # -1
      BY <1>6, <2>1, <2>4
    <3>1. position < Len(file) /\ file[position + 1] = b /\ position' = position + 1 /\ b # -1
      <4>1. position' = position + 1
        BY <2>1, <3>0
      <4>2. position < Len(file)
        <5>1. ~ (position < Len(file)) => Stream!Read = -1
          BY <1>4
        <5> QED
          BY <3>0, <5>1
      <4>3. file[position + 1] = b
        <5>1. Stream!Read = file[position + 1]
          BY <1>4, <4>2
        <5> QED
          BY <3>0, <5>1
      <4> QED
        BY <3>0, <4>1, <4>2, <4>3
    <3>2. u = b
      <4>1. b \in 0 .. 255
        BY <1>5, <3>1
      <4> QED
        BY <1>2, <4>1
    <3>3. position' = Len(written')
      BY <1>3, <1>7, <2>4, <3>1
    <3>4. ASSUME NEW i \in 1 .. position'
          PROVE  file'[i] = Stream!Unsigned(written'[i])
      <4>1. CASE i = position + 1
        BY <1>3, <1>7, <2>1, <2>4, <3>1, <3>2, <4>1
      <4>2. CASE i \in 1 .. position
        BY <1>3, <1>7, <2>1, <2>4, <4>2
      <4>3. position \in Int /\ position' = position + 1
        BY <1>1, <3>1
      <4>4. i = position + 1 \/ i \in 1 .. position
        BY <3>4, <4>3
      <4> QED
        BY <4>1, <4>2, <4>4
    <3> QED
      BY <3>3, <3>4
  <2>5. WrittenOK'
    BY <1>1, <1>7, <2>1, <2>4 DEF WrittenOK
  <2> QED
    BY <2>3, <2>5 DEF StreamInv
<1> QED
  BY <1>8, <1>9

LEMMA CloseKeeps ==
  ASSUME StreamInv, NoFile \notin File, Stream!Close
  PROVE  StreamInv'
<1>1. /\ open = TRUE /\ open' = FALSE /\ file \in File /\ Len(file) \in Nat
      /\ position \in 0 .. Len(file) /\ writing \in BOOLEAN
      /\ writing' = (writing \/ Len(file) # position) /\ file' = SubSeq(file, 1, position)
      /\ position' = position /\ before' = before /\ written' = written
  BY DEF Stream!Close, StreamInv, StreamTypes, File
<1>2. /\ file' \in File /\ Len(file') = position /\ \A i \in 1 .. position : file'[i] = file[i]
      /\ position = Len(file) => file' = file
  BY <1>1, CutOff
<1>3. StreamTypes'
  <2>0. file' # NoFile /\ writing' \in BOOLEAN
    BY <1>1, <1>2
  <2>1. position' \in Nat /\ position' <= Len(file')
    <3>1. position \in Nat /\ Len(file') = position /\ position' = position
      BY <1>1, <1>2
    <3> QED
      BY <3>1
  <2>2. before' \in File \cup {NoFile} /\ written' \in Seq(Byte)
    BY <1>1 DEF StreamInv, StreamTypes
  <2> QED
    BY <1>1, <1>2, <2>0, <2>1, <2>2 DEF StreamTypes
<1>4. ASSUME NoEnd'
      PROVE  /\ position = Len(written)
             /\ \A i \in 1 .. position : file[i] = Stream!Unsigned(written[i])
             /\ ~ writing => file = before
             /\ writing => Changed
  BY <1>1, <1>4 DEF StreamInv, WrittenOK, NoEnd
<1>5. ASSUME NoEnd', writing'
      PROVE  Changed'
  <2>1. CASE writing
    <3>1. Changed
      BY <1>4, <1>5, <2>1
    <3> QED
      BY <1>1, <1>2, <3>1 DEF Changed
  <2>2. CASE ~ writing
    <3>1. Len(before) > position
      BY <1>1, <1>4, <1>5, <2>2
    <3> QED
      BY <1>1, <3>1 DEF Changed
  <2> QED
    BY <2>1, <2>2
<1>6. WrittenOK'
  BY <1>1, <1>2, <1>4, <1>5 DEF WrittenOK
<1> QED
  BY <1>3, <1>6 DEF StreamInv

\* A generated file is what was written to it, whatever it was before, and the
\* stream says that it changed whenever it did, and for text that is ASCII only
\* then (UpdatingFileOutputStream.java:57-86): for any bytes and any files.
THEOREM FilesAreUpdated ==
  ASSUME NoFile \notin Seq(0 .. 255), Byte \subseteq -128 .. 127
  PROVE  Stream!Spec => []FileIsUpdated
<1>0. NoFile \notin File
  BY DEF File
<1>1. Stream!Init => StreamInv
  <2> SUFFICES ASSUME Stream!Init
               PROVE  StreamInv
    OBVIOUS
  <2>1. <<>> \in Seq(Byte) /\ Len(<<>>) = 0
    OBVIOUS
  <2> QED
    BY <2>1 DEF Stream!Init, StreamInv, StreamTypes, WrittenOK
<1>2. StreamInv /\ [Stream!Next]_Stream!vars => StreamInv'
  <2> SUFFICES ASSUME StreamInv, [Stream!Next]_Stream!vars
               PROVE  StreamInv'
    OBVIOUS
  <2>1. CASE UNCHANGED Stream!vars
    BY <2>1 DEF Stream!vars, StreamInv, StreamTypes, WrittenOK, NoEnd, Changed
  <2> QED
    BY <1>0, <2>1, OpenKeeps, WriteKeeps, CloseKeeps DEF Stream!Next
<1>3. StreamInv => FileIsUpdated
  <2> SUFFICES ASSUME StreamInv, NoEnd
               PROVE  /\ ~ open /\ file # NoFile =>
                           file = [i \in DOMAIN written |-> Stream!Unsigned(written[i])]
                      /\ file # before => writing
                      /\ ~ open /\ writing => file # before \/ \E i \in DOMAIN written : written[i] < 0
    BY DEF FileIsUpdated, Stream!FileIsUpdated, Stream!End, NoEnd
  <2>1. /\ position = Len(written) /\ written \in Seq(Byte) /\ position \in Nat
        /\ file # NoFile => /\ file \in File
                            /\ \A i \in 1 .. position : file[i] = Stream!Unsigned(written[i])
        /\ ~ writing => file = before
        /\ writing => Changed /\ file # NoFile
        /\ ~ open /\ file # NoFile => Len(file) = position
    BY DEF StreamInv, StreamTypes, WrittenOK
  <2>2. ~ open /\ file # NoFile => file = [i \in DOMAIN written |-> Stream!Unsigned(written[i])]
    <3> SUFFICES ASSUME ~ open, file # NoFile
                 PROVE  file = [i \in DOMAIN written |-> Stream!Unsigned(written[i])]
      OBVIOUS
    <3>1. DOMAIN file = 1 .. position /\ DOMAIN written = 1 .. position
      BY <2>1 DEF File
    <3>2. file = [i \in 1 .. position |-> file[i]]
      BY <2>1, <3>1 DEF File
    <3> QED
      BY <2>1, <3>1, <3>2
  <2>3. ~ open /\ writing => file # before \/ \E i \in DOMAIN written : written[i] < 0
    <3> SUFFICES ASSUME ~ open, writing, file = before
                 PROVE  \E i \in DOMAIN written : written[i] < 0
      OBVIOUS
    <3>1. Len(before) = position /\ before # NoFile /\ Changed
      BY <2>1
    <3> QED
      BY <2>1, <3>1 DEF Changed
  <2> QED
    BY <2>1, <2>2, <2>3
<1> QED
  BY <1>1, <1>2, <1>3, PTL DEF Stream!Spec

----------------------------------------------------------------------------
(* RuntimeMonitor: for any categories and any nesting.                     *)

MonitorInv ==
  /\ stack \in Seq(Category) /\ now \in Int
  /\ start \in [Category -> Int] /\ categoryTime \in [Category -> Int] /\ spent \in [Category -> Int]
  /\ Monitor!TimeIsAccounted

\* The least of a set of numbers is one of them.
LEMMA LeastIsIn ==
  ASSUME NEW S \in SUBSET Nat, S # {}
  PROVE  Monitor!Min(S) \in S
<1>1. PICK x \in S : \A y \in S : ~ (<<y, x>> \in OpToRel(<, Nat))
  BY NatLessThanWellFounded, WFMin, Zenon
<1>2. \A y \in S : x <= y
  <2> SUFFICES ASSUME NEW y \in S
               PROVE  x <= y
    OBVIOUS
  <2>1. ~ (y < x)
    BY <1>1 DEF OpToRel
  <2> QED
    BY <2>1
<1> QED
  BY <1>2 DEF Monitor!Min

\* What is left of the stack is a stack.
LEMMA PopType ==
  ASSUME stack \in Seq(Category), NEW c \in Category, Monitor!Contains(stack, c)
  PROVE  Monitor!Pop(c) \in Seq(Category)
<1> DEFINE I == {i \in 1 .. Len(stack) : stack[i] = c}
<1>1. I # {} /\ I \in SUBSET Nat /\ Len(stack) \in Nat
  BY DEF Monitor!Contains
<1>2. Monitor!Min(I) \in I
  BY <1>1, LeastIsIn
<1>3. Monitor!Pop(c) = SubSeq(stack, Monitor!Min(I) + 1, Len(stack))
  BY <1>1 DEF Monitor!Pop, Monitor!SelectInSeq
<1>4. Monitor!Min(I) \in Nat
  BY <1>1, <1>2
<1> HIDE DEF I
<1> QED
  BY <1>1, <1>3, <1>4

\* Each category is charged the time it was the innermost one, also when it was
\* entered within itself, or left with others that an exception had left behind
\* (RuntimeMonitor.java:89-140): for any categories, clock and nesting.
THEOREM AllTimeIsCharged == Monitor!Spec => []TimeIsAccounted
<1>1. Monitor!Init => MonitorInv
  BY DEF Monitor!Init, MonitorInv, Monitor!TimeIsAccounted
<1>2. MonitorInv /\ [Monitor!Next]_Monitor!vars => MonitorInv'
  <2> SUFFICES ASSUME MonitorInv, [Monitor!Next]_Monitor!vars
               PROVE  MonitorInv'
    OBVIOUS
  <2>0. stack # <<>> => Head(stack) \in Category
    BY DEF MonitorInv
  <2>1. CASE Monitor!Tick
    <3>1. PICK h : h = Head(stack)
      OBVIOUS
    <3>2. /\ now' = now + 1 /\ UNCHANGED <<stack, start, categoryTime>>
          /\ spent' = IF stack = <<>> THEN spent ELSE [spent EXCEPT ![h] = @ + 1]
      BY <2>1, <3>1 DEF Monitor!Tick
    <3>3. spent \in [Category -> Int] /\ (stack # <<>> => h \in Category)
      BY <2>0, <3>1 DEF MonitorInv
    <3>4. spent' \in [Category -> Int]
      BY <3>2, <3>3
    <3>5. ASSUME NEW d \in Category
          PROVE  spent'[d] = categoryTime[d]
                   + (IF stack # <<>> /\ h = d THEN now + 1 - start[d] ELSE 0)
      <4>1. now \in Int /\ start[d] \in Int /\ categoryTime[d] \in Int /\ spent[d] \in Int
        BY DEF MonitorInv
      <4>2. spent[d] = categoryTime[d] + (IF stack # <<>> /\ h = d THEN now - start[d] ELSE 0)
        BY <3>1 DEF MonitorInv, Monitor!TimeIsAccounted
      <4>3. spent'[d] = IF stack # <<>> /\ h = d THEN spent[d] + 1 ELSE spent[d]
        BY <3>2, <3>3
      <4> QED
        BY <4>1, <4>2, <4>3
    <3>6. Monitor!TimeIsAccounted'
      <4>1. stack' = stack /\ Head(stack') = h /\ now' = now + 1 /\ start' = start
            /\ categoryTime' = categoryTime
        BY <3>1, <3>2
      <4>2. ASSUME NEW d \in Category
            PROVE  spent'[d] = categoryTime'[d]
                     + (IF stack' # <<>> /\ Head(stack') = d THEN now' - start'[d] ELSE 0)
        <5>1. spent'[d] = categoryTime[d]
                + (IF stack # <<>> /\ h = d THEN now + 1 - start[d] ELSE 0)
          BY <3>5
        <5>2. now' - start'[d] = now + 1 - start[d] /\ categoryTime'[d] = categoryTime[d]
          <6>1. now \in Int /\ start[d] \in Int
            BY DEF MonitorInv
          <6> QED
            BY <4>1, <6>1
        <5>3. stack' # <<>> /\ Head(stack') = d <=> stack # <<>> /\ h = d
          BY <4>1
        <5> QED
          BY <5>1, <5>2, <5>3
      <4> QED
        BY <4>2 DEF Monitor!TimeIsAccounted
    <3>7. /\ stack' \in Seq(Category) /\ now' \in Int
          /\ start' \in [Category -> Int] /\ categoryTime' \in [Category -> Int]
      BY <3>2 DEF MonitorInv
    <3> QED
      BY <3>4, <3>6, <3>7 DEF MonitorInv
  <2>2. ASSUME NEW c \in Category, Monitor!Enter(c)
        PROVE  MonitorInv'
    <3>1. /\ stack' \in Seq(Category) /\ stack' # <<>> /\ Head(stack') = c
          /\ start' = [start EXCEPT ![c] = now] /\ UNCHANGED <<now, spent>>
          /\ categoryTime' = IF stack = <<>> THEN categoryTime
               ELSE [categoryTime EXCEPT ![Head(stack)] = @ + now - start[Head(stack)]]
      BY <2>2 DEF MonitorInv, Monitor!Enter, Monitor!StartTimer, Monitor!StopTimer
    <3>2. PICK h : h = Head(stack)
      OBVIOUS
    <3>3. categoryTime' \in [Category -> Int] /\ start' \in [Category -> Int]
      <4>1. now \in Int /\ start \in [Category -> Int] /\ categoryTime \in [Category -> Int]
        BY DEF MonitorInv
      <4>2. \A d \in Category : [categoryTime EXCEPT ![d] = @ + now - start[d]] \in [Category -> Int]
        BY <4>1
      <4>3. start' \in [Category -> Int]
        BY <3>1, <4>1
      <4>4. CASE stack = <<>>
        BY <3>1, <4>1, <4>3, <4>4
      <4>5. CASE stack # <<>>
        <5>1. categoryTime' = [categoryTime EXCEPT ![h] = @ + now - start[h]] /\ h \in Category
          BY <2>0, <3>1, <3>2, <4>5
        <5> QED
          BY <4>2, <4>3, <5>1
      <4> QED
        BY <4>4, <4>5
    <3>4. ASSUME NEW d \in Category
          PROVE  spent'[d] = categoryTime'[d]
                   + (IF stack' # <<>> /\ Head(stack') = d THEN now' - start'[d] ELSE 0)
      <4>1. now \in Int /\ start[d] \in Int /\ categoryTime[d] \in Int
        BY DEF MonitorInv
      <4>2. spent[d] = categoryTime[d] + (IF stack # <<>> /\ h = d THEN now - start[d] ELSE 0)
        BY <3>2 DEF MonitorInv, Monitor!TimeIsAccounted
      <4>3. categoryTime'[d] = IF stack # <<>> /\ h = d THEN categoryTime[d] + now - start[d]
                                                        ELSE categoryTime[d]
        BY <2>0, <3>1, <3>2 DEF MonitorInv
      <4>4. c = d => now' - start'[d] = 0
        BY <3>1, <4>1 DEF MonitorInv
      <4> QED
        BY <3>1, <4>1, <4>2, <4>3, <4>4
    <3>5. Monitor!TimeIsAccounted'
      BY <3>4 DEF Monitor!TimeIsAccounted
    <3> QED
      BY <3>1, <3>3, <3>5 DEF MonitorInv
  <2>3. ASSUME NEW c \in Category, Monitor!Leave(c)
        PROVE  MonitorInv'
    <3>1. /\ Monitor!Contains(stack, c) /\ stack' = Monitor!Pop(c) /\ UNCHANGED <<now, spent>>
          /\ categoryTime' = [categoryTime EXCEPT ![Head(stack)] = @ + now - start[Head(stack)]]
          /\ start' = IF stack' = <<>> THEN start ELSE [start EXCEPT ![Head(stack')] = now]
      <4>1. Monitor!Contains(stack, c) /\ stack' = Monitor!Pop(c) /\ UNCHANGED <<now, spent>>
        BY <2>3 DEF Monitor!Leave
      <4>2. categoryTime' = [categoryTime EXCEPT ![Head(stack)] = @ + now - start[Head(stack)]]
        BY <2>3 DEF Monitor!Leave, Monitor!StopTimer
      <4>3. start' = IF stack' = <<>> THEN start ELSE [start EXCEPT ![Head(stack')] = now]
        BY <2>3, <4>1 DEF Monitor!Leave, Monitor!StartTimer
      <4> QED
        BY <4>1, <4>2, <4>3
    <3>2. stack' \in Seq(Category) /\ stack # <<>>
      <4>1. stack \in Seq(Category)
        BY DEF MonitorInv
      <4>2. stack' \in Seq(Category)
        BY <3>1, <4>1, PopType
      <4>3. stack # <<>>
        BY <3>1 DEF Monitor!Contains
      <4> QED
        BY <4>2, <4>3
    <3>3. stack' # <<>> => Head(stack') \in Category
      BY <3>2
    <3>4. PICK h : h = Head(stack)
      OBVIOUS
    <3>5. PICK g : g = Head(stack')
      OBVIOUS
    <3>6. categoryTime' \in [Category -> Int] /\ start' \in [Category -> Int]
      <4>1. now \in Int /\ start \in [Category -> Int] /\ categoryTime \in [Category -> Int]
        BY DEF MonitorInv
      <4>2. \A d \in Category : /\ [categoryTime EXCEPT ![d] = @ + now - start[d]] \in [Category -> Int]
                               /\ [start EXCEPT ![d] = now] \in [Category -> Int]
        BY <4>1
      <4>3. categoryTime' = [categoryTime EXCEPT ![h] = @ + now - start[h]] /\ h \in Category
        BY <2>0, <3>1, <3>2, <3>4
      <4>4. start' = IF stack' = <<>> THEN start ELSE [start EXCEPT ![g] = now]
        BY <3>1, <3>5
      <4>5. stack' # <<>> => g \in Category
        BY <3>3, <3>5
      <4> QED
        BY <4>1, <4>2, <4>3, <4>4, <4>5
    <3>7. ASSUME NEW d \in Category
          PROVE  spent'[d] = categoryTime'[d]
                   + (IF stack' # <<>> /\ Head(stack') = d THEN now' - start'[d] ELSE 0)
      <4>1. now \in Int /\ start[d] \in Int /\ categoryTime[d] \in Int
        BY DEF MonitorInv
      <4>2. spent[d] = categoryTime[d] + (IF h = d THEN now - start[d] ELSE 0)
        BY <3>2, <3>4 DEF MonitorInv, Monitor!TimeIsAccounted
      <4>3. categoryTime'[d] = IF h = d THEN categoryTime[d] + now - start[d] ELSE categoryTime[d]
        BY <2>0, <3>1, <3>4 DEF MonitorInv
      <4>4. stack' # <<>> /\ g = d => now' - start'[d] = 0
        BY <3>1, <3>5, <4>1 DEF MonitorInv
      <4> QED
        BY <3>1, <3>5, <4>1, <4>2, <4>3, <4>4
    <3>8. Monitor!TimeIsAccounted'
      BY <3>7 DEF Monitor!TimeIsAccounted
    <3> QED
      BY <3>1, <3>2, <3>6, <3>8 DEF MonitorInv
  <2>4. CASE UNCHANGED Monitor!vars
    BY <2>4 DEF Monitor!vars, MonitorInv, Monitor!TimeIsAccounted
  <2> QED
    BY <2>1, <2>2, <2>3, <2>4 DEF Monitor!Next
<1>3. MonitorInv => TimeIsAccounted
  BY DEF MonitorInv, TimeIsAccounted
<1> QED
  BY <1>1, <1>2, <1>3, PTL DEF Monitor!Spec

----------------------------------------------------------------------------
(* The search for optimal parameters: for any axes, values and quantities. *)

\* A space of finitely many values for finitely many axes has finitely many points.
LEMMA PointsAreFinite ==
  ASSUME NEW V, space \in Seq(Seq(V))
  PROVE  IsFiniteSet(Search!AllPoints)
<1> DEFINE D == DOMAIN space
           Image == {Search!Range(space[axis]) : axis \in D}
           U == UNION Image
           T == SUBSET (D \X U)
           h == [R \in T |-> [i \in D |-> CHOOSE u : <<i, u>> \in R]]
           H == {h[R] : R \in T}
<1>1. IsFiniteSet(D)
  <2>1. D = 1 .. Len(space) /\ Len(space) \in Nat
    OBVIOUS
  <2> QED
    BY <2>1, FS_Interval
<1>2. ASSUME NEW axis \in D
      PROVE  IsFiniteSet(Search!Range(space[axis]))
  <2>1. PICK s \in Seq(V) : s = space[axis]
    OBVIOUS
  <2>2. DOMAIN s = 1 .. Len(s) /\ Len(s) \in Nat
    BY <2>1
  <2>3. IsFiniteSet(DOMAIN s)
    BY <2>2, FS_Interval
  <2>4. s \in Surjection(DOMAIN s, Search!Range(s))
    <3>1. s = [i \in DOMAIN s |-> s[i]]
      BY <2>1
    <3> QED
      BY <3>1 DEF Search!Range, Surjection
  <2> QED
    BY <2>1, <2>3, <2>4, FS_Surjection
<1>3. IsFiniteSet(Image)
  <2> DEFINE g == [axis \in D |-> Search!Range(space[axis])]
  <2>1. g \in Surjection(D, Image)
    BY DEF Surjection
  <2> HIDE DEF g, D, Image
  <2> QED
    BY <1>1, <2>1, FS_Surjection
<1>4. IsFiniteSet(U)
  <2>1. \A S \in Image : IsFiniteSet(S)
    BY <1>2
  <2> HIDE DEF Image
  <2> QED
    BY <1>3, <2>1, FS_UNION
<1>5. IsFiniteSet(T)
  <2> HIDE DEF D, U
  <2>1. IsFiniteSet(D \X U)
    BY <1>1, <1>4, FS_Product
  <2> QED
    BY <2>1, FS_SUBSET
<1>6. IsFiniteSet(H)
  <2>1. h \in Surjection(T, H)
    BY DEF Surjection
  <2> HIDE DEF T, h, H
  <2> QED
    BY <1>5, <2>1, FS_Surjection
<1>7. [D -> U] \subseteq H
  <2> HIDE DEF D, U
  <2> SUFFICES ASSUME NEW p \in [D -> U]
               PROVE  p \in H
    OBVIOUS
  <2> DEFINE R == {<<i, p[i]>> : i \in D}
  <2>1. R \in T
    OBVIOUS
  <2>2. ASSUME NEW i \in D
        PROVE  (CHOOSE u : <<i, u>> \in R) = p[i]
    OBVIOUS
  <2>3. h[R] = p
    BY <2>1, <2>2
  <2> QED
    BY <2>1, <2>3
<1>8. Search!AllPoints \subseteq H
  <2>1. Search!AllPoints \subseteq [D -> U]
    BY DEF Search!AllPoints
  <2> QED
    BY <1>7, <2>1
<1> HIDE DEF H
<1> QED
  BY <1>6, <1>8, FS_Subset

\* A neighbor of a point is a point.
LEMMA NeighborsArePoints ==
  ASSUME NEW V, space \in Seq(Seq(V)), NEW p \in Search!AllPoints
  PROVE  Search!GetNeighbors(p) \subseteq Search!AllPoints
<1> SUFFICES ASSUME NEW axis \in DOMAIN space, NEW by \in {-1, 1}
             PROVE  Search!Moved(p, axis, by) \in Search!AllPoints
  BY DEF Search!GetNeighbors
<1> DEFINE U == UNION {Search!Range(space[a]) : a \in DOMAIN space}
<1>1. PICK s \in Seq(V) : s = space[axis]
  OBVIOUS
<1>2. p \in [DOMAIN space -> U] /\ \A a \in DOMAIN space : p[a] \in Search!Range(space[a])
  BY DEF Search!AllPoints
<1>3. PICK i : i = CHOOSE j \in DOMAIN s : s[j] = p[axis]
  OBVIOUS
<1>4. i \in DOMAIN s
  <2>1. \E j \in DOMAIN s : s[j] = p[axis]
    BY <1>1, <1>2 DEF Search!Range
  <2> QED
    BY <1>3, <2>1
<1>5. i \in 1 .. Len(s) /\ Len(s) \in Nat \ {0}
  BY <1>4
<1>6. PICK k : k = ((i - 1 + by) % Len(s)) + 1
  OBVIOUS
<1>7. k \in DOMAIN s
  <2>1. i - 1 + by \in Int
    BY <1>5
  <2>2. ((i - 1 + by) % Len(s)) \in 0 .. (Len(s) - 1)
    BY <1>5, <2>1
  <2> QED
    BY <1>5, <1>6, <2>2
<1>8. Search!Moved(p, axis, by) = [p EXCEPT ![axis] = s[k]]
  BY <1>1, <1>3, <1>6 DEF Search!Moved
<1>9. s[k] \in Search!Range(s)
  BY <1>7 DEF Search!Range
<1>10. s[k] \in U
  BY <1>1, <1>9
<1> HIDE DEF U
<1>11. PICK q : q = [p EXCEPT ![axis] = s[k]]
  OBVIOUS
<1>12. q \in [DOMAIN space -> U]
  BY <1>2, <1>10, <1>11
<1>13. \A a \in DOMAIN space : q[a] \in Search!Range(space[a])
  BY <1>1, <1>2, <1>9, <1>11
<1>14. q \in Search!AllPoints
  BY <1>12, <1>13 DEF Search!AllPoints, U
<1> QED
  BY <1>8, <1>11, <1>14

\* The types of the search: what is measured is a number, at every point.
SearchTyped(V) ==
  /\ space \in Seq(Seq(V))
  /\ measured \in [Search!AllPoints -> Int]

\* Being better is irreflexive and transitive, and so is being no better.
LEMMA BetterIsAnOrder ==
  ASSUME measured \in [Search!AllPoints -> Int],
         NEW p \in Search!AllPoints, NEW q \in Search!AllPoints, NEW r \in Search!AllPoints
  PROVE  /\ ~Search!BetterThan(p, p)
         /\ Search!BetterThan(p, q) /\ Search!BetterThan(q, r) => Search!BetterThan(p, r)
         /\ ~Search!BetterThan(p, q) /\ ~Search!BetterThan(q, r) => ~Search!BetterThan(p, r)
         /\ Search!BetterThan(p, q) => ~Search!BetterThan(q, p)
<1>1. measured[p] \in Int /\ measured[q] \in Int /\ measured[r] \in Int
  OBVIOUS
<1> QED
  BY <1>1 DEF Search!BetterThan

\* Of finitely many points, if there are any, one is the best.
LEMMA BestIsFound ==
  ASSUME measured \in [Search!AllPoints -> Int],
         NEW P \in SUBSET Search!AllPoints, IsFiniteSet(P), P # {}
  PROVE  Search!Best(P) # {}
<1> DEFINE Better(p) == {q \in P : Search!BetterThan(q, p)}
           R == StrictSubsetOrdering(P)
           F == FiniteSubsetsOf(P)
           T == {Better(p) : p \in P}
<1>1. IsWellFoundedOn(R, F)
  BY FS_StrictSubsetOrderingWellFounded
<1>2. F = SUBSET P
  BY FS_FiniteSubsetsOfFinite
<1>3. T \subseteq F /\ T # {}
  <2>1. T \subseteq SUBSET P
    OBVIOUS
  <2>2. T # {}
    OBVIOUS
  <2> HIDE DEF T, F
  <2> QED
    BY <1>2, <2>1, <2>2
<1>4. PICK x \in T : \A y \in T : <<y, x>> \notin R
  <2> HIDE DEF R, F, T
  <2> QED
    BY <1>1, <1>3, WFMin
<1>5. PICK p \in P : x = Better(p)
  OBVIOUS
<1>6. ASSUME NEW q \in P, Search!BetterThan(q, p)
      PROVE  FALSE
  <2>1. Better(q) \subseteq Better(p)
    <3> SUFFICES ASSUME NEW r \in P, Search!BetterThan(r, q)
                 PROVE  Search!BetterThan(r, p)
      OBVIOUS
    <3>1. p \in Search!AllPoints /\ q \in Search!AllPoints /\ r \in Search!AllPoints
      OBVIOUS
    <3> QED
      BY <1>6, <3>1, BetterIsAnOrder
  <2>2. q \in Better(p)
    BY <1>6
  <2>3. q \notin Better(q)
    BY BetterIsAnOrder
  <2>4. Better(q) \in SUBSET P /\ Better(p) \in SUBSET P /\ Better(q) \in T
    OBVIOUS
  <2> HIDE DEF Better, T
  <2>5. <<Better(q), Better(p)>> \in R
    BY <2>1, <2>2, <2>3, <2>4 DEF StrictSubsetOrdering
  <2> QED
    BY <1>4, <1>5, <2>4, <2>5
<1> QED
  BY <1>6 DEF Search!Best

\* NoOptimum of the points is better than p.
NoneBetter(points, p) == \A q \in points : ~Search!BetterThan(q, p)
Around(p) == Search!GetNeighbors(p) \cup {p}

\* A step leads to a point that nothing around where it started is better than.
LEMMA StepIsNoWorse ==
  ASSUME NEW V, SearchTyped(V), NEW p \in Search!AllPoints, NEW q \in Search!Step(p)
  PROVE  q \in Search!AllPoints /\ NoneBetter(Around(p), q)
<1> DEFINE N == Search!GetNeighbors(p)
<1>1. N \subseteq Search!AllPoints
  BY NeighborsArePoints DEF SearchTyped
<1>2. measured \in [Search!AllPoints -> Int]
  BY DEF SearchTyped
<1>3. q \in IF \E b \in Search!Best(N) : Search!BetterThan(b, p) THEN Search!Best(N) ELSE {p}
  BY DEF Search!Step
<1>4. Search!Best(N) \subseteq N /\ \A b \in Search!Best(N) : NoneBetter(N, b)
  BY DEF Search!Best, NoneBetter
<1>5. CASE \E b \in Search!Best(N) : Search!BetterThan(b, p)
  <2>1. PICK b \in Search!Best(N) : Search!BetterThan(b, p)
    BY <1>5
  <2>2. q \in N /\ NoneBetter(N, q) /\ b \in N
    BY <1>3, <1>4, <1>5
  <2>3. q \in Search!AllPoints /\ b \in Search!AllPoints
    BY <1>1, <2>2
  <2>4. ~Search!BetterThan(b, q)
    BY <2>2 DEF NoneBetter
  <2>5. ~Search!BetterThan(p, q)
    <3>1. ~Search!BetterThan(p, b)
      BY <1>2, <2>1, <2>3, BetterIsAnOrder
    <3> QED
      BY <1>2, <2>3, <2>4, <3>1, BetterIsAnOrder
  <2> QED
    BY <2>2, <2>3, <2>5 DEF NoneBetter, Around
<1>6. CASE ~ \E b \in Search!Best(N) : Search!BetterThan(b, p)
  <2>1. q = p
    BY <1>3, <1>6
  <2>2. ASSUME NEW n \in N, Search!BetterThan(n, p)
        PROVE  FALSE
    <3>1. IsFiniteSet(N)
      BY <1>1, PointsAreFinite, FS_Subset DEF SearchTyped
    <3>2. PICK b \in Search!Best(N) : TRUE
      BY <1>1, <1>2, <2>2, <3>1, BestIsFound
    <3>3. b \in N /\ ~Search!BetterThan(n, b) /\ ~Search!BetterThan(b, p)
      BY <1>4, <1>6, <2>2 DEF NoneBetter
    <3>4. n \in Search!AllPoints /\ b \in Search!AllPoints
      BY <1>1, <2>2, <3>3
    <3> QED
      BY <1>2, <2>2, <3>3, <3>4, BetterIsAnOrder
  <2>3. ~Search!BetterThan(p, p)
    BY <1>2, BetterIsAnOrder
  <2> QED
    BY <2>1, <2>2, <2>3 DEF NoneBetter, Around
<1> QED
  BY <1>5, <1>6

\* Where two steps lead nothing around the start is better either.
LEMMA ClimbIsNoWorse ==
  ASSUME NEW V, SearchTyped(V), NEW s \in Search!AllPoints, NEW q \in Search!Climb(s)
  PROVE  q \in Search!AllPoints /\ NoneBetter(Around(s), q)
<1>1. PICK m \in Search!Step(s) : q \in Search!Step(m)
  BY DEF Search!Climb
<1>2. m \in Search!AllPoints /\ NoneBetter(Around(s), m)
  BY StepIsNoWorse
<1>3. q \in Search!AllPoints /\ NoneBetter(Around(m), q)
  BY <1>1, <1>2, StepIsNoWorse
<1>4. ~Search!BetterThan(m, q)
  BY <1>3 DEF NoneBetter, Around
<1>5. Around(s) \subseteq Search!AllPoints
  BY NeighborsArePoints DEF Around, SearchTyped
<1>6. ASSUME NEW n \in Around(s)
      PROVE  ~Search!BetterThan(n, q)
  <2>1. ~Search!BetterThan(n, m) /\ n \in Search!AllPoints
    BY <1>2, <1>5 DEF NoneBetter
  <2>2. measured \in [Search!AllPoints -> Int]
    BY DEF SearchTyped
  <2> QED
    BY <1>2, <1>3, <1>4, <2>1, <2>2, BetterIsAnOrder
<1> QED
  BY <1>3, <1>6 DEF NoneBetter

\* How good a result is: what NothingTriedIsBetter says of the optimum.
GoodStarts(o) == {s \in Search!AllPoints : NoneBetter(Around(s), o)}
Good(o) == o \in Search!AllPoints /\ Cardinality(GoodStarts(o)) >= Search!Starts

\* The search counts as this module does.
LEMMA SameCardinality == \A S : Search!Cardinality(S) = Cardinality(S)
BY DEF Search!Cardinality, Cardinality, Search!IsFiniteSet, IsFiniteSet

\* A full search passes no point by.
LEMMA FullIsGood ==
  ASSUME NEW V, SearchTyped(V), NEW o \in Search!OptimizeFull
  PROVE  Good(o)
<1> DEFINE A == Search!AllPoints
<1>1. o \in A /\ NoneBetter(A, o)
  BY DEF Search!OptimizeFull, Search!Best, NoneBetter
<1>2. \A s \in A : Around(s) \subseteq A
  BY NeighborsArePoints DEF Around, SearchTyped
<1>3. GoodStarts(o) = A
  BY <1>1, <1>2 DEF GoodStarts, NoneBetter
<1>4. Cardinality(A) \in Nat
  BY PointsAreFinite, FS_CardinalityType DEF SearchTyped
<1>5. Search!Starts = IF Cardinality(A) < 5 THEN Cardinality(A) ELSE 5
  BY SameCardinality DEF Search!StartPoints, Search!Starts
<1> QED
  BY <1>1, <1>3, <1>4, <1>5 DEF Good

\* The points from which nothing better than the result was reached are among
\* those around which nothing is better.
LEMMA FastIsGood ==
  ASSUME NEW V, SearchTyped(V), NEW o \in Search!OptimizeFast
  PROVE  Good(o)
<1> DEFINE A == Search!AllPoints
           S == {s \in A : \E q \in Search!Climb(s) : ~Search!BetterThan(q, o)}
<1>1. /\ \E s \in A : o \in Search!Climb(s)
      /\ Cardinality(S) >= Search!Starts
  <2>1. /\ \E s \in A : o \in Search!Climb(s)
        /\ Search!Cardinality(S) >= Search!Starts
    BY DEF Search!OptimizeFast
  <2> QED
    BY <2>1, SameCardinality
<1>2. o \in A
  BY <1>1, ClimbIsNoWorse
<1>3. S \subseteq GoodStarts(o)
  <2> SUFFICES ASSUME NEW s \in A, NEW q \in Search!Climb(s), ~Search!BetterThan(q, o),
                      NEW n \in Around(s)
               PROVE  ~Search!BetterThan(n, o)
    BY DEF GoodStarts, NoneBetter
  <2>1. q \in A /\ ~Search!BetterThan(n, q)
    BY ClimbIsNoWorse DEF NoneBetter
  <2>2. n \in A
    BY NeighborsArePoints DEF Around, SearchTyped
  <2>3. measured \in [A -> Int]
    BY DEF SearchTyped
  <2> QED
    BY <1>2, <2>1, <2>2, <2>3, BetterIsAnOrder
<1>4. GoodStarts(o) \subseteq A
  BY DEF GoodStarts
<1> HIDE DEF S
<1>5. IsFiniteSet(A) /\ IsFiniteSet(GoodStarts(o)) /\ IsFiniteSet(S)
  BY <1>3, <1>4, PointsAreFinite, FS_Subset DEF SearchTyped
<1>6. /\ Cardinality(S) \in Nat /\ Cardinality(GoodStarts(o)) \in Nat /\ Cardinality(A) \in Nat
      /\ Cardinality(S) <= Cardinality(GoodStarts(o))
  <2>1. S \in SUBSET GoodStarts(o)
    BY <1>3
  <2>2. Cardinality(S) \in Nat /\ Cardinality(GoodStarts(o)) \in Nat /\ Cardinality(A) \in Nat
    BY <1>5, FS_CardinalityType
  <2>3. Cardinality(S) <= Cardinality(GoodStarts(o))
    BY <1>5, <2>1, FS_Subset
  <2> QED
    BY <2>2, <2>3
<1>7. Search!Starts = IF Cardinality(A) < 5 THEN Cardinality(A) ELSE 5
  BY SameCardinality DEF Search!StartPoints, Search!Starts
<1>8. Cardinality(GoodStarts(o)) >= Search!Starts
  BY <1>1, <1>6, <1>7
<1> QED
  BY <1>2, <1>8 DEF Good

SearchInv(V) == SearchTyped(V) /\ (optimum # NoOptimum => Good(optimum))

\* NothingTriedIsBetter in these terms.
LEMMA GoodIsGood == NothingTriedIsBetter <=> (optimum # NoOptimum => Good(optimum))
<1>1. \A o : {s \in Search!AllPoints : \A p \in Around(s) : ~Search!BetterThan(p, o)} = GoodStarts(o)
  BY DEF GoodStarts, NoneBetter
<1> QED
  BY <1>1, SameCardinality DEF NothingTriedIsBetter, Search!NothingTriedIsBetter, Good, NoneBetter, Around

\* The optimum is a point of the space, and as good as five points and all
\* around them, or as all points if there are less, whichever search found it.
\* For any axes and values, whatever is measured (OptimizationService.java:90-223).
THEOREM NoTriedPointIsBetter ==
  ASSUME NEW V, Space \subseteq Seq(Seq(V)), Quantity \subseteq Int
  PROVE  Search!Spec => []NothingTriedIsBetter
<1>1. Search!Init => SearchInv(V)
  <2> SUFFICES ASSUME Search!Init
               PROVE  SearchInv(V)
    OBVIOUS
  <2>1. space \in Seq(Seq(V)) /\ measured \in [Search!AllPoints -> Quantity] /\ optimum = NoOptimum
    BY DEF Search!Init
  <2>2. measured \in [Search!AllPoints -> Int]
    BY <2>1
  <2> QED
    BY <2>1, <2>2 DEF SearchInv, SearchTyped
<1>2. SearchInv(V) /\ [Search!Next]_Search!vars => SearchInv(V)'
  <2> SUFFICES ASSUME SearchInv(V), [Search!Next]_Search!vars
               PROVE  SearchInv(V)'
    OBVIOUS
  <2>1. UNCHANGED <<space, measured, comparison>>
    BY DEF Search!Next, Search!Optimize, Search!vars
  <2>2. Search!AllPoints' = Search!AllPoints
    BY <2>1 DEF Search!AllPoints
  <2>3. SearchTyped(V)'
    BY <2>1, <2>2 DEF SearchInv, SearchTyped
  <2>4. \A o : Good(o)' <=> Good(o)
    <3>1. \A p, q : Search!BetterThan(p, q)' <=> Search!BetterThan(p, q)
      BY <2>1 DEF Search!BetterThan
    <3>2. \A p : Around(p)' = Around(p)
      BY <2>1 DEF Around, Search!GetNeighbors, Search!Moved
    <3>3. \A o : GoodStarts(o)' = GoodStarts(o)
      BY <2>2, <3>1, <3>2 DEF GoodStarts, NoneBetter
    <3>4. Search!Starts' = Search!Starts
      BY <2>2 DEF Search!Starts, Search!StartPoints
    <3> QED
      BY <2>2, <3>3, <3>4 DEF Good
  <2>5. optimum' # NoOptimum => Good(optimum')
    <3>1. CASE UNCHANGED optimum
      BY <3>1 DEF SearchInv
    <3>2. CASE optimum' \in Search!OptimizeFast
      <4>1. PICK o : o = optimum'
        OBVIOUS
      <4> QED
        BY <3>2, <4>1, FastIsGood DEF SearchInv
    <3>3. CASE optimum' \in Search!OptimizeFull
      <4>1. PICK o : o = optimum'
        OBVIOUS
      <4> QED
        BY <3>3, <4>1, FullIsGood DEF SearchInv
    <3> QED
      BY <3>1, <3>2, <3>3 DEF Search!Next, Search!Optimize, Search!vars
  <2> QED
    BY <2>3, <2>4, <2>5 DEF SearchInv
<1>3. SearchInv(V) => NothingTriedIsBetter
  BY GoodIsGood DEF SearchInv
<1> QED
  BY <1>1, <1>2, <1>3, PTL DEF Search!Spec
=============================================================================
