---------------------- MODULE UpdatingFileOutputStream ----------------------
(***************************************************************************)
(* The stream through which the driver writes the generated files. It      *)
(* compares what is written with the file, and changes the file from the   *)
(* first difference on. Whether it did decides whether the core is         *)
(* compiled. A file is a sequence of bytes from 0 to 255; the bytes that   *)
(* are written are signed.                                                 *)
(***************************************************************************)
EXTENDS Integers, Sequences

CONSTANTS
  Byte,        \* the bytes that are written, of -128 .. 127
  MaxLength,   \* bounds the length of the file
  NoFile

VARIABLES
  file,        \* the bytes of the file
  open,        \* whether there is a stream
  position,    \* how far raf is in the file
  writing,     \* whether the last stream changed the file
  before,      \* the file when the stream was opened
  written      \* what was written to the stream

vars == <<file, open, position, writing, before, written>>

Init ==
  /\ file = NoFile /\ before = NoFile
  /\ open = FALSE /\ position = 0 /\ writing = FALSE /\ written = <<>>

Unsigned(b) == b % 256
End == -1                       \* what read() returns at the end of the file
Read == IF position < Len(file) THEN file[position + 1] ELSE End

Open ==
  /\ ~ open /\ open' = TRUE
  /\ before' = file /\ written' = <<>> /\ position' = 0
  /\ writing' = (file = NoFile)
  /\ file' = IF file = NoFile THEN <<>> ELSE file

\* Mutant: a byte after the end of the file is not noticed.
DifferentBeforeEnd(b) == Read # End /\ b # Read

\* The signed byte is compared with what read() returned.
Different(b) == b # Read

\* The file is cut off where the difference is.
Write(b) ==
  /\ open /\ Len(written) < MaxLength /\ written' = Append(written, b)
  /\ IF writing \/ Different(b)
     THEN /\ writing' = TRUE
          /\ file' = Append(SubSeq(file, 1, position), Unsigned(b))
          /\ position' = position + 1
     ELSE /\ position' = IF Read = End THEN position ELSE position + 1
          /\ UNCHANGED <<file, writing>>
  /\ UNCHANGED <<open, before>>

\* What is left of the old file is cut off.
Close ==
  /\ open /\ open' = FALSE
  /\ writing' = (writing \/ Len(file) # position)
  /\ file' = SubSeq(file, 1, position)
  /\ UNCHANGED <<position, before, written>>

Next == Open \/ (\E b \in Byte : Write(b)) \/ Close

Spec == Init /\ [][Next]_vars

----------------------------------------------------------------------------

\* Once the stream is closed, the file holds what was written, and the stream
\* says so if it holds something else than before. Byte 255 is excepted, which
\* no UTF-8 text has: at the end of the file it is taken for the end. The
\* stream may also say so for nothing, but only of text that is not ASCII.
FileIsUpdated ==
  (\A i \in DOMAIN written : written[i] # End) =>
    /\ ~ open /\ file # NoFile => file = [i \in DOMAIN written |-> Unsigned(written[i])]
    /\ file # before => writing
    /\ ~ open /\ writing => file # before \/ \E i \in DOMAIN written : written[i] < 0
=============================================================================
