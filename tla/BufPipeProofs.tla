---------------------------- MODULE BufPipeProofs ----------------------------
(***************************************************************************)
(* For a buffer and commands of any sizes that BufSizeAssumption allows    *)
(* and any interleaving of the two threads: the safety properties of       *)
(* BufPipe that MCBufPipe checks.                                          *)
(***************************************************************************)
EXTENDS BufPipe, TLAPS

\* What is used of the assumption about sizes, but for CommandSizes.
LEMMA Constants == BufSize \in Nat /\ MaxCommands \in Nat
BY BufSizeAssumption

USE Constants

(***************************************************************************)
(* The invariant.                                                          *)
(***************************************************************************)
\* How many commands have been written and executed.
Puts == Len(written)
Done == Len(executed)

Places == {"out", "room", "rewind", "copy", "count", "signal", "finish", "finish wake"}
WriterType ==
    [at : Places, cmd : Command \cup {NoCommand}, wasEmpty : BOOLEAN]

\* The last command in the buffer, which may not be counted yet, and the first one
\* that the reader has not given back.
LastCopied == IF WriterAt("count") THEN Puts + 1 ELSE Puts
FirstKept ==
    IF reader \in {"release", "ended"} THEN Done ELSE Done + 1
Lengths(w, c) == [n \in Nat |-> IF n \in 1..Len(w) THEN w[n].size ELSE c.size]
SizeOf == Lengths(written, writer.cmd)
Uncounted == IF WriterAt("count") THEN writer.cmd.size ELSE 0

\* The commands from first to last, which have these starts and sizes, fill the cells
\* from lo to hi - 1 of b, in order.
Run(start, size, b, first, last, lo, hi) ==
    /\ IF first > last THEN lo = hi
       ELSE start[first] = lo /\ start[last] + size[last] = hi
    /\ \A n \in first..last :
          /\ lo <= start[n] /\ start[n] + size[n] <= hi
          /\ \A i \in 1..size[n] : b[start[n] + i - 1] = Word(n, i)
          /\ \A m \in n + 1..last : start[n] + size[n] <= start[m]
          /\ n < last => start[n + 1] = start[n] + size[n]

\* The commands are in one piece ...
InOnePiece(start) ==
    /\ readPos <= writePos
    /\ cmdbufLen = writePos - readPos - Uncounted
    /\ Run(start, SizeOf, buf, FirstKept, LastCopied, readPos, writePos)
    /\ reader # "reset"
    /\ WriterAt("rewind") => /\ writePos < BufSize /\ buf[writePos] = Reset
                             /\ writer.cmd.size < readPos
    /\ WriterAt("copy") => writePos = 0

\* ... or those from the k-th are at the front, and the others before the end of
\* the buffer or the reset at e.
ResetLen(e) == IF e < BufSize THEN 1 ELSE 0
InTwoPieces(start, k, e) ==
    /\ k \in FirstKept..Puts + 1
    /\ readPos <= e /\ e <= BufSize /\ writePos + ResetLen(e) <= readPos
    /\ cmdbufLen = BufSize - readPos + writePos + ResetLen(e) - Uncounted
    /\ Run(start, SizeOf, buf, FirstKept, k - 1, readPos, e)
    /\ Run(start, SizeOf, buf, k, LastCopied, 0, writePos)
    /\ e < BufSize => buf[e] = Reset
    /\ reader = "reset" => readPos = e /\ e < BufSize
    /\ reader \in {"handle", "release", "ended"} => FirstKept < k
    /\ ~WriterAt("rewind")
    /\ WriterAt("copy") => writePos = 0 /\ writer.cmd.size + ResetLen(e) <= readPos

Laid(start) == InOnePiece(start) \/ \E k \in Nat, e \in 0..BufSize : InTwoPieces(start, k, e)

WriterSound ==
    /\ writer.at \in {"room", "rewind", "copy", "count"} =>
          writer.cmd \in Command /\ Puts < MaxCommands
    /\ Puts <= MaxCommands

\* The command that is handled has been counted.
ReaderSound ==
    /\ terminated <=> reader = "ended"
    /\ reader = "fetch" => cmdbufLen > 0
    /\ reader \in {"handle", "release", "ended"} => FirstKept <= Puts
    /\ reader \in {"release", "ended"} => Done > 0
    /\ ExecutedInOrder
    /\ FirstKept <= LastCopied + 1

IInv ==
    /\ TypeOK /\ writer \in WriterType
    /\ WriterSound /\ ReaderSound
    /\ \E start \in [Nat -> Nat] : Laid(start)

(***************************************************************************)
(* Runs of commands.                                                       *)
(***************************************************************************)
LEMMA RunEmpty ==
    ASSUME NEW start, NEW size, NEW b, NEW first \in Int, NEW last \in Int, NEW lo,
           first > last
    PROVE  Run(start, size, b, first, last, lo, lo)
BY DEF Run

\* A run is as it was when its cells and the commands in it are.
LEMMA RunKept ==
    ASSUME NEW start \in [Nat -> Nat], NEW start2 \in [Nat -> Nat],
           NEW size \in [Nat -> Nat], NEW size2 \in [Nat -> Nat], NEW b, NEW b2,
           NEW first \in Nat, NEW last \in Int, NEW lo \in Nat, NEW hi \in Nat,
           Run(start, size, b, first, last, lo, hi),
           \A n \in first..last : start2[n] = start[n] /\ size2[n] = size[n],
           \A p \in lo..hi - 1 : b2[p] = b[p]
    PROVE  Run(start2, size2, b2, first, last, lo, hi)
<1>1. \A n \in first..last : /\ n \in Nat /\ start[n] \in Nat /\ size[n] \in Nat
                             /\ lo <= start[n] /\ start[n] + size[n] <= hi
  BY DEF Run
<1>2. ASSUME NEW n \in first..last, NEW i \in 1..size2[n]
      PROVE  b2[start2[n] + i - 1] = Word(n, i)
  <2>1. start[n] + i - 1 \in lo..hi - 1 /\ i \in 1..size[n]
    BY <1>1
  <2>2. b[start[n] + i - 1] = Word(n, i)
    BY <2>1 DEF Run
  <2> QED BY <2>1, <2>2
<1>3. IF first > last THEN lo = hi
      ELSE start2[first] = lo /\ start2[last] + size2[last] = hi
  <2>1. CASE first > last
    BY <2>1 DEF Run
  <2>2. CASE ~(first > last)
    <3>1. first \in first..last /\ last \in first..last
      BY <2>2
    <3> QED BY <2>2, <3>1 DEF Run
  <2> QED BY <2>1, <2>2
<1>4. ASSUME NEW n \in first..last
      PROVE  /\ lo <= start2[n] /\ start2[n] + size2[n] <= hi
             /\ \A m \in n + 1..last : start2[n] + size2[n] <= start2[m]
             /\ n < last => start2[n + 1] = start2[n] + size2[n]
  <2>1. \A m \in n + 1..last : m \in first..last
    OBVIOUS
  <2>2. n < last => n + 1 \in first..last
    OBVIOUS
  <2> QED BY <1>1, <2>1, <2>2 DEF Run
<1> QED BY <1>2, <1>3, <1>4 DEF Run

\* The first command of a run starts it.
LEMMA RunHead ==
    ASSUME NEW start \in [Nat -> Nat], NEW size \in [Nat -> Nat], NEW b,
           NEW first \in Nat, NEW last \in Int, NEW lo \in Nat, NEW hi \in Nat,
           Run(start, size, b, first, last, lo, hi), first <= last
    PROVE  /\ start[first] = lo /\ lo + size[first] <= hi
           /\ first \in first..last
<1>1. first \in first..last /\ ~(first > last)
  OBVIOUS
<1> QED BY <1>1 DEF Run

LEMMA RunWords ==
    ASSUME NEW start, NEW size, NEW b, NEW first, NEW last, NEW lo, NEW hi,
           Run(start, size, b, first, last, lo, hi), NEW n \in first..last
    PROVE  \A i \in 1..size[n] : b[start[n] + i - 1] = Word(n, i)
BY Zenon DEF Run

\* The last command of a run begins where the others end.
LEMMA RunLast ==
    ASSUME NEW start \in [Nat -> Nat], NEW size \in [Nat -> Nat], NEW b,
           NEW first \in Nat, NEW last \in Int, NEW lo \in Nat, NEW hi \in Nat,
           Run(start, size, b, first, last, lo, hi), first <= last
    PROVE  /\ start[last] + size[last] = hi
           /\ first = last => hi = lo + size[last]
           /\ first < last => lo + size[first] + size[last] <= hi
<1>1. first \in first..last /\ last \in first..last /\ ~(first > last)
  OBVIOUS
<1>2. start[first] = lo /\ start[last] + size[last] = hi
  BY <1>1 DEF Run
<1>3. first < last => start[first] + size[first] <= start[last]
  <2>1. first < last => last \in first + 1..last
    BY <1>1
  <2> QED BY <1>1, <2>1 DEF Run
<1>4. first \in Nat /\ last \in Nat
  BY <1>1
<1> QED BY <1>2, <1>3, <1>4

\* A run of commands, which are not empty, is empty only if there are none.
LEMMA RunBounds ==
    ASSUME NEW start \in [Nat -> Nat], NEW size \in [Nat -> Nat], NEW b,
           NEW first \in Nat, NEW last \in Int, NEW lo \in Nat, NEW hi \in Nat,
           Run(start, size, b, first, last, lo, hi), first <= last => size[first] > 0
    PROVE  lo <= hi /\ (lo = hi <=> first > last)
<1>1. CASE first <= last
  <2>1. lo + size[first] <= hi
    BY <1>1, RunHead
  <2>2. size[first] \in Nat
    OBVIOUS
  <2> QED BY <1>1, <2>1, <2>2
<1>2. CASE first > last
  BY <1>2 DEF Run
<1> QED BY <1>1, <1>2

\* A run without its first command.
LEMMA RunTail ==
    ASSUME NEW start \in [Nat -> Nat], NEW size \in [Nat -> Nat], NEW b,
           NEW first \in Nat, NEW last \in Int, NEW lo \in Nat, NEW hi \in Nat,
           Run(start, size, b, first, last, lo, hi), first <= last
    PROVE  Run(start, size, b, first + 1, last, lo + size[first], hi)
<1>1. first \in first..last /\ last \in first..last /\ ~(first > last)
  OBVIOUS
<1>2. start[first] = lo /\ start[last] + size[last] = hi
  BY <1>1 DEF Run
<1>3. first < last => start[first + 1] = start[first] + size[first]
  BY <1>1 DEF Run
<1>4. first = last => lo + size[first] = hi
  BY <1>2
<1>5. \A n \in first + 1..last :
         /\ n \in first..last
         /\ start[first] + size[first] <= start[n]
  BY <1>1 DEF Run
<1>6. IF first + 1 > last THEN lo + size[first] = hi
      ELSE start[first + 1] = lo + size[first] /\ start[last] + size[last] = hi
  BY <1>1, <1>2, <1>3, <1>4
<1>7. \A n \in first + 1..last :
         /\ lo + size[first] <= start[n] /\ start[n] + size[n] <= hi
         /\ \A i \in 1..size[n] : b[start[n] + i - 1] = Word(n, i)
         /\ \A m \in n + 1..last : start[n] + size[n] <= start[m]
         /\ n < last => start[n + 1] = start[n] + size[n]
  BY <1>2, <1>5 DEF Run
<1> QED BY <1>6, <1>7 DEF Run

\* A run with one more command, copied behind it.
LEMMA RunExtended ==
    ASSUME NEW start \in [Nat -> Nat], NEW size \in [Nat -> Nat], NEW b,
           NEW first \in Nat, NEW last \in Nat, NEW lo \in Nat, NEW hi \in Nat,
           Run(start, size, b, first, last, lo, hi), first <= last + 1,
           \A i \in 1..size[last + 1] : b[hi + i - 1] = Word(last + 1, i)
    PROVE  Run([start EXCEPT ![last + 1] = hi], size, b, first, last + 1, lo,
               hi + size[last + 1])
<1> DEFINE start2 == [start EXCEPT ![last + 1] = hi]
<1>1. /\ start2 \in [Nat -> Nat] /\ start2[last + 1] = hi
      /\ \A n \in first..last : start2[n] = start[n]
  OBVIOUS
<1> HIDE DEF start2
<1>2. size[last + 1] \in Nat
  OBVIOUS
<1>3. \A n \in first..last :
         /\ n \in Nat /\ start[n] \in Nat /\ size[n] \in Nat
         /\ lo <= start[n] /\ start[n] + size[n] <= hi
         /\ \A i \in 1..size[n] : b[start[n] + i - 1] = Word(n, i)
         /\ \A m \in n + 1..last : start[n] + size[n] <= start[m]
         /\ n < last => start[n + 1] = start[n] + size[n]
  BY DEF Run
<1>4. first = last + 1 => lo = hi
  BY DEF Run
<1>5. first <= last => start[first] = lo /\ start[last] + size[last] = hi /\ lo <= hi
  <2>1. first <= last => first \in first..last /\ last \in first..last /\ ~(first > last)
    OBVIOUS
  <2> QED BY <1>3, <2>1 DEF Run
<1>6. IF first > last + 1 THEN lo = hi + size[last + 1]
      ELSE start2[first] = lo /\ start2[last + 1] + size[last + 1] = hi + size[last + 1]
  BY <1>1, <1>4, <1>5
<1>7. ASSUME NEW n \in first..last + 1
      PROVE  /\ lo <= start2[n] /\ start2[n] + size[n] <= hi + size[last + 1]
             /\ \A i \in 1..size[n] : b[start2[n] + i - 1] = Word(n, i)
             /\ \A m \in n + 1..last + 1 : start2[n] + size[n] <= start2[m]
             /\ n < last + 1 => start2[n + 1] = start2[n] + size[n]
  <2>1. CASE n = last + 1
    BY <1>1, <1>2, <1>4, <1>5, <2>1
  <2>2. CASE n \in first..last
    <3>1. \A m \in n + 1..last + 1 :
             m = last + 1 \/ (m \in first..last /\ m \in n + 1..last)
      BY <2>2
    <3>2. n = last \/ (n < last /\ n + 1 \in first..last)
      BY <2>2
    <3>3. /\ lo <= start2[n] /\ start2[n] + size[n] <= hi + size[last + 1]
          /\ \A i \in 1..size[n] : b[start2[n] + i - 1] = Word(n, i)
      BY <1>1, <1>2, <1>3, <2>2
    <3>4. \A m \in n + 1..last + 1 : start2[n] + size[n] <= start2[m]
      BY <1>1, <1>3, <2>2, <3>1
    <3>5. n < last + 1 => start2[n + 1] = start2[n] + size[n]
      <4>1. CASE n = last
        <5>1. start[last] + size[last] = hi /\ last \in first..last
          BY <1>5, <2>2, <4>1
        <5> QED BY <1>1, <4>1, <5>1
      <4>2. CASE n < last /\ n + 1 \in first..last
        BY <1>1, <1>3, <2>2, <4>2
      <4> QED BY <3>2, <4>1, <4>2
    <3> QED BY <3>3, <3>4, <3>5
  <2> QED BY <2>1, <2>2
<1> QED BY <1>6, <1>7 DEF Run, start2

(***************************************************************************)
(* What follows from the invariant in every state.                         *)
(***************************************************************************)

\* The numbers of the state.
Numbers ==
    /\ BufSize \in Nat /\ readPos \in Nat /\ readPos <= BufSize
    /\ writePos \in Nat /\ writePos <= BufSize
    /\ cmdbufLen \in Nat /\ cmdbufLen <= BufSize
    /\ Puts \in Nat /\ Done \in Nat
    /\ LastCopied \in Nat /\ FirstKept \in Nat /\ 1 <= FirstKept
    /\ Uncounted \in Nat

\* Those of the last command copied, if it is not counted.
Last ==
    \/ WriterAt("count") /\ LastCopied = Puts + 1
                         /\ SizeOf[LastCopied] = Uncounted
                         /\ Uncounted = writer.cmd.size /\ Uncounted > 0
    \/ ~WriterAt("count") /\ LastCopied = Puts /\ Uncounted = 0

LEMMA CommandSizes ==
    ASSUME NEW c \in Command
    PROVE  c.size \in Nat /\ c.size > 0 /\ 2 * c.size <= BufSize
BY BufSizeAssumption DEF Command

LEMMA LengthsOf ==
    ASSUME NEW w \in Seq(Command), NEW c \in Command \cup {NoCommand}
    PROVE  /\ Lengths(w, c) \in [Nat -> Nat]
           /\ \A n \in 1..Len(w) : Lengths(w, c)[n] = w[n].size
           /\ Lengths(w, c)[Len(w) + 1] = c.size
<1>1. \A n \in 1..Len(w) : w[n] \in Command /\ w[n].size \in Nat
  BY CommandSizes
<1>2. c.size \in Nat
  BY CommandSizes DEF NoCommand
<1>3. Len(w) \in Nat
  OBVIOUS
<1>4. Lengths(w, c) \in [Nat -> Nat]
  BY <1>1, <1>2 DEF Lengths
<1>5. \A n \in 1..Len(w) : Lengths(w, c)[n] = w[n].size
  BY <1>3 DEF Lengths
<1>6. Lengths(w, c)[Len(w) + 1] = c.size
  BY <1>3 DEF Lengths
<1> QED BY <1>4, <1>5, <1>6

LEMMA StateNumbers ==
    ASSUME IInv
    PROVE  /\ Numbers /\ Last
           /\ SizeOf \in [Nat -> Nat]
           /\ \A n \in 1..LastCopied : SizeOf[n] > 0 /\ 2 * SizeOf[n] <= BufSize
<1>1. /\ BufSize \in Nat /\ readPos \in 0..BufSize /\ writePos \in 0..BufSize
      /\ cmdbufLen \in 0..BufSize
      /\ written \in Seq(Command) /\ executed \in Seq(1..MaxCommands)
  BY DEF IInv, TypeOK
<1>2. Puts \in Nat /\ Done \in Nat
  BY <1>1 DEF Puts, Done
<1>3. writer.cmd \in Command \cup {NoCommand}
  BY DEF IInv, WriterType
<1>4. writer.cmd.size \in Nat
  BY <1>3, CommandSizes DEF NoCommand
<1>5. \A n \in 1..Puts : written[n] \in Command
  BY <1>1 DEF Puts
<1>6. SizeOf \in [Nat -> Nat]
  BY <1>1, <1>3, LengthsOf DEF SizeOf
<1>7. LastCopied \in Nat /\ FirstKept \in Nat /\ Uncounted \in Nat
  BY <1>2, <1>4 DEF LastCopied, FirstKept, Uncounted
<1>8. 1 <= FirstKept
  BY <1>2 DEF FirstKept, IInv, ReaderSound
<1>9. Numbers
  BY <1>1, <1>2, <1>7, <1>8 DEF Numbers
<1>10. \A n \in 1..Puts : SizeOf[n] > 0 /\ 2 * SizeOf[n] <= BufSize
  <2>1. \A n \in 1..Puts : SizeOf[n] = written[n].size
    BY <1>1, <1>3, LengthsOf DEF SizeOf, Puts
  <2> QED BY <1>5, <2>1, CommandSizes
<1>11. CASE WriterAt("count")
  <2>1. writer.cmd \in Command
    BY <1>11 DEF IInv, WriterSound, WriterAt
  <2>2. LastCopied = Puts + 1 /\ Uncounted = writer.cmd.size
    BY <1>11 DEF LastCopied, Uncounted
  <2>3. SizeOf[LastCopied] = writer.cmd.size
    BY <1>1, <1>3, <2>2, LengthsOf DEF SizeOf, Puts
  <2>4. writer.cmd.size > 0 /\ 2 * writer.cmd.size <= BufSize
    BY <2>1, CommandSizes
  <2>5. \A n \in 1..LastCopied : n \in 1..Puts \/ n = LastCopied
    BY <1>2, <2>2
  <2> QED BY <1>6, <1>9, <1>10, <1>11, <2>2, <2>3, <2>4, <2>5 DEF Last
<1>12. CASE ~WriterAt("count")
  BY <1>6, <1>9, <1>10, <1>12 DEF Last, LastCopied, Uncounted
<1> QED BY <1>11, <1>12

\* A command that is copied and not counted is at the end of the last run; with
\* nothing in that run, everything is counted.
LEMMA UncountedInRun ==
    ASSUME IInv, NEW start \in [Nat -> Nat], NEW k \in Nat, NEW lo \in Nat,
           k <= Puts + 1,
           Run(start, SizeOf, buf, k, LastCopied, lo, writePos)
    PROVE  /\ lo + Uncounted <= writePos
           /\ k <= Puts => lo + SizeOf[k] + Uncounted <= writePos
<1>1. SizeOf \in [Nat -> Nat]
  BY StateNumbers
<1>2. /\ LastCopied \in Nat /\ LastCopied \in Int
      /\ writePos \in Nat /\ Puts \in Nat /\ Uncounted \in Nat
  BY StateNumbers DEF Numbers
<1>3. /\ WriterAt("count") => /\ LastCopied = Puts + 1
                              /\ SizeOf[LastCopied] = Uncounted
      /\ ~WriterAt("count") => LastCopied = Puts /\ Uncounted = 0
  BY StateNumbers DEF Last
<1>4. CASE k <= LastCopied
  <2>1. start[k] = lo /\ lo + SizeOf[k] <= writePos
    BY <1>1, <1>2, <1>4, RunHead
  <2>2. k = LastCopied => writePos = lo + SizeOf[LastCopied]
    BY <1>1, <1>2, <1>4, RunLast
  <2>3. k < LastCopied => lo + SizeOf[k] + SizeOf[LastCopied] <= writePos
    BY <1>1, <1>2, <1>4, RunLast
  <2>4. SizeOf[k] \in Nat /\ SizeOf[LastCopied] \in Nat
    BY <1>1, <1>2
  <2>5. CASE WriterAt("count")
    BY <1>2, <1>3, <1>4, <2>1, <2>2, <2>3, <2>4, <2>5
  <2>6. CASE ~WriterAt("count")
    BY <1>2, <1>3, <1>4, <2>1, <2>2, <2>3, <2>4, <2>6
  <2> QED BY <2>5, <2>6
<1>5. CASE k > LastCopied
  <2>1. lo = writePos
    BY <1>5 DEF Run
  <2>2. Uncounted = 0 /\ LastCopied = Puts
    BY <1>2, <1>3, <1>5
  <2> QED BY <1>2, <1>5, <2>1, <2>2
<1> QED BY <1>2, <1>4, <1>5

\* What the reader finds: the command it handles is counted and whole.
LEMMA HeadIsWhole ==
    ASSUME IInv, reader \in {"handle", "release", "ended"}
    PROVE  /\ FirstKept \in 1..Puts
           /\ readPos + SizeOf[FirstKept] <= BufSize
           /\ \A i \in 1..SizeOf[FirstKept] : buf[readPos + i - 1] = Word(FirstKept, i)
           /\ SizeOf[FirstKept] <= cmdbufLen
<1>1. Numbers
  BY StateNumbers
<1>2. SizeOf \in [Nat -> Nat]
  BY StateNumbers
<1>3. PICK start \in [Nat -> Nat] : Laid(start)
  BY DEF IInv
<1>4. FirstKept <= Puts
  BY DEF IInv, ReaderSound
<1>5. /\ FirstKept \in 1..Puts /\ FirstKept \in Nat
      /\ Puts \in Nat /\ LastCopied \in Int
      /\ readPos \in Nat /\ writePos \in Nat /\ writePos <= BufSize
      /\ cmdbufLen \in Nat /\ Uncounted \in Nat
  BY <1>1, <1>4 DEF Numbers
<1>6. FirstKept <= LastCopied
  <2>1. LastCopied = Puts \/ LastCopied = Puts + 1
    BY StateNumbers DEF Last
  <2> QED BY <1>4, <1>5, <2>1
<1>7. SizeOf[FirstKept] \in Nat
  BY <1>2, <1>5
<1>8. CASE InOnePiece(start)
  <2>1. /\ Run(start, SizeOf, buf, FirstKept, LastCopied, readPos, writePos)
        /\ cmdbufLen = writePos - readPos - Uncounted
    BY <1>8 DEF InOnePiece
  <2>2. \A i \in 1..SizeOf[FirstKept] : buf[readPos + i - 1] = Word(FirstKept, i)
    <3>1. start[FirstKept] = readPos
      BY <1>2, <1>5, <1>6, <2>1, RunHead
    <3>2. FirstKept \in FirstKept..LastCopied
      BY <1>2, <1>5, <1>6, <2>1
    <3>3. \A i \in 1..SizeOf[FirstKept] : buf[start[FirstKept] + i - 1] = Word(FirstKept, i)
      BY <2>1, <3>2, RunWords
    <3> QED BY <3>1, <3>3
  <2>3. readPos + SizeOf[FirstKept] + Uncounted <= writePos
    <3>1. FirstKept <= Puts + 1
      BY <1>5
    <3> QED BY <1>4, <1>5, <2>1, <3>1, UncountedInRun
  <2> QED BY <1>5, <1>7, <2>1, <2>2, <2>3
<1>9. ASSUME NEW k \in Nat, NEW e \in 0..BufSize, InTwoPieces(start, k, e)
      PROVE  /\ readPos + SizeOf[FirstKept] <= BufSize
             /\ \A i \in 1..SizeOf[FirstKept] : buf[readPos + i - 1] = Word(FirstKept, i)
             /\ SizeOf[FirstKept] <= cmdbufLen
  <2>1. /\ Run(start, SizeOf, buf, FirstKept, k - 1, readPos, e)
        /\ FirstKept < k /\ k \in FirstKept..Puts + 1
        /\ cmdbufLen = BufSize - readPos + writePos + ResetLen(e) - Uncounted
    BY <1>9 DEF InTwoPieces
  <2>2. Run(start, SizeOf, buf, k, LastCopied, 0, writePos)
    BY <1>9 DEF InTwoPieces
  <2>3. k - 1 \in Int /\ FirstKept <= k - 1 /\ e \in Nat /\ e <= BufSize
    BY <1>5, <2>1
  <2>4. readPos + SizeOf[FirstKept] <= e
    BY <1>2, <1>5, <2>1, <2>3, RunHead
  <2>5. \A i \in 1..SizeOf[FirstKept] : buf[readPos + i - 1] = Word(FirstKept, i)
    <3>1. start[FirstKept] = readPos
      BY <1>2, <1>5, <2>1, <2>3, RunHead
    <3>2. FirstKept \in FirstKept..k - 1
      BY <1>2, <1>5, <2>1, <2>3
    <3>3. \A i \in 1..SizeOf[FirstKept] : buf[start[FirstKept] + i - 1] = Word(FirstKept, i)
      BY <2>1, <3>2, RunWords
    <3> QED BY <3>1, <3>3
  <2>6. 0 + Uncounted <= writePos
    <3>1. k <= Puts + 1 /\ 0 \in Nat
      BY <1>5, <2>1
    <3> QED BY <2>2, <3>1, UncountedInRun
  <2>7. ResetLen(e) \in 0..1
    BY DEF ResetLen
  <2>8. SizeOf[FirstKept] <= cmdbufLen /\ readPos + SizeOf[FirstKept] <= BufSize
    BY <1>5, <1>7, <2>1, <2>3, <2>4, <2>6, <2>7
  <2> QED BY <2>5, <2>8
<1> QED BY <1>3, <1>5, <1>8, <1>9 DEF Laid

(***************************************************************************)
(* Steps that leave the commands where they are.                           *)
(***************************************************************************)
SameLayout ==
    /\ UNCHANGED <<cmdbufLen, buf, writePos, readPos, written>>
    /\ FirstKept' = FirstKept
    /\ WriterAt("count")' <=> WriterAt("count")
    /\ WriterAt("rewind")' <=> WriterAt("rewind")
    /\ WriterAt("copy")' <=> WriterAt("copy")
    /\ writer.at \in {"rewind", "copy", "count"} => writer'.cmd = writer.cmd
    /\ writer' \in WriterType
    /\ reader' = "reset" => reader = "reset"
    /\ reader' \in {"handle", "release", "ended"} => reader \in {"handle", "release", "ended"}

LEMMA LaidAsBefore ==
    ASSUME IInv, SameLayout
    PROVE  \E start \in [Nat -> Nat] : Laid(start)'
<1>1. Numbers
  BY StateNumbers
<1>2. SizeOf \in [Nat -> Nat]
  BY StateNumbers
<1>3. /\ written \in Seq(Command) /\ written' = written
      /\ writer.cmd \in Command \cup {NoCommand}
      /\ writer'.cmd \in Command \cup {NoCommand}
  BY DEF IInv, TypeOK, WriterType, SameLayout
<1>4. SizeOf' \in [Nat -> Nat]
  BY <1>3, LengthsOf DEF SizeOf
<1>5. Puts' = Puts /\ LastCopied' = LastCopied
  BY DEF SameLayout, LastCopied, Puts
<1>6. Uncounted' = Uncounted
  BY DEF SameLayout, Uncounted, WriterAt
<1>7. \A n \in 1..LastCopied : SizeOf'[n] = SizeOf[n]
  <2>1. \A n \in 1..Puts : SizeOf'[n] = SizeOf[n]
    <3>1. \A n \in 1..Len(written) : SizeOf[n] = written[n].size
      BY <1>3, LengthsOf DEF SizeOf
    <3>2. \A n \in 1..Len(written) : SizeOf'[n] = written[n].size
      BY <1>3, LengthsOf DEF SizeOf
    <3> QED BY <3>1, <3>2 DEF Puts
  <2>2. CASE WriterAt("count")
    <3>1. writer'.cmd = writer.cmd
      BY <2>2 DEF SameLayout, WriterAt
    <3> QED BY <1>3, <3>1 DEF SizeOf
  <2>3. CASE ~WriterAt("count")
    BY <2>1, <2>3 DEF LastCopied
  <2> QED BY <2>2, <2>3
<1>8. PICK start \in [Nat -> Nat] : Laid(start)
  BY DEF IInv
<1>9. ASSUME NEW first \in Nat, NEW last \in Int, NEW lo \in Nat, NEW hi \in Nat,
             Run(start, SizeOf, buf, first, last, lo, hi), 1 <= first, last <= LastCopied
      PROVE  Run(start, SizeOf', buf', first, last, lo, hi)
  <2>1. \A n \in first..last : SizeOf'[n] = SizeOf[n]
    <3>1. \A n \in first..last : n \in 1..LastCopied
      BY <1>1, <1>9 DEF Numbers
    <3> QED BY <1>7, <3>1
  <2>2. buf' = buf
    BY DEF SameLayout
  <2> QED BY <1>2, <1>4, <1>9, <2>1, <2>2, RunKept
<1>10. /\ FirstKept' = FirstKept /\ readPos' = readPos /\ writePos' = writePos
       /\ cmdbufLen' = cmdbufLen /\ buf' = buf
       /\ FirstKept \in Nat /\ 1 <= FirstKept /\ LastCopied \in Int
       /\ readPos \in Nat /\ writePos \in Nat /\ 0 \in Nat /\ BufSize \in Nat
  BY <1>1 DEF SameLayout, Numbers
<1>11. CASE InOnePiece(start)
  <2>1. Run(start, SizeOf', buf', FirstKept', LastCopied', readPos', writePos')
    <3>1. Run(start, SizeOf, buf, FirstKept, LastCopied, readPos, writePos)
      BY <1>11 DEF InOnePiece
    <3> QED BY <1>1, <1>5, <1>9, <1>10, <3>1 DEF Numbers
  <2>2. /\ WriterAt("rewind")' => /\ writePos < BufSize /\ buf[writePos] = Reset
                                  /\ writer'.cmd.size < readPos
        /\ WriterAt("copy")' => writePos = 0
        /\ reader' # "reset"
    BY <1>11 DEF InOnePiece, SameLayout, WriterAt
  <2>3. readPos <= writePos /\ cmdbufLen = writePos - readPos - Uncounted
    BY <1>11 DEF InOnePiece
  <2>4. InOnePiece(start)'
    BY <1>6, <1>10, <2>1, <2>2, <2>3 DEF InOnePiece
  <2> QED BY <2>4 DEF Laid
<1>12. ASSUME NEW k \in Nat, NEW e \in 0..BufSize, InTwoPieces(start, k, e)
       PROVE  InTwoPieces(start, k, e)'
  <2>1. /\ k \in FirstKept..Puts + 1 /\ e \in Nat /\ k \in Nat /\ k - 1 \in Int
        /\ 1 <= k /\ k - 1 <= LastCopied
    <3>1. k \in FirstKept..Puts + 1
      BY <1>12 DEF InTwoPieces
    <3>2. LastCopied = Puts \/ LastCopied = Puts + 1
      BY DEF LastCopied
    <3> QED BY <1>1, <1>10, <3>1, <3>2 DEF Numbers
  <2>2. Run(start, SizeOf', buf', FirstKept', k - 1, readPos', e)
    <3>1. Run(start, SizeOf, buf, FirstKept, k - 1, readPos, e)
      BY <1>12 DEF InTwoPieces
    <3> QED BY <1>9, <1>10, <2>1, <3>1
  <2>3. Run(start, SizeOf', buf', k, LastCopied', 0, writePos')
    <3>1. Run(start, SizeOf, buf, k, LastCopied, 0, writePos)
      BY <1>12 DEF InTwoPieces
    <3>2. LastCopied <= LastCopied
      BY <1>10
    <3> QED BY <1>5, <1>9, <1>10, <2>1, <3>1, <3>2
  <2>4. /\ ~WriterAt("rewind")'
        /\ WriterAt("copy")' => writePos = 0 /\ writer'.cmd.size + ResetLen(e) <= readPos
        /\ reader' = "reset" => readPos = e /\ e < BufSize
        /\ reader' \in {"handle", "release", "ended"} => FirstKept < k
    BY <1>12 DEF InTwoPieces, SameLayout, WriterAt
  <2>5. /\ readPos <= e /\ e <= BufSize /\ writePos + ResetLen(e) <= readPos
        /\ cmdbufLen = BufSize - readPos + writePos + ResetLen(e) - Uncounted
        /\ e < BufSize => buf[e] = Reset
    BY <1>12 DEF InTwoPieces
  <2> QED BY <1>5, <1>6, <1>10, <2>1, <2>2, <2>3, <2>4, <2>5 DEF InTwoPieces
<1> QED BY <1>8, <1>11, <1>12 DEF Laid

LEMMA WriterMoves ==
    ASSUME writer \in WriterType, NEW place \in Places, WriterGoes(place)
    PROVE  /\ writer' \in WriterType
           /\ writer'.at = place /\ writer'.cmd = writer.cmd
BY DEF WriterType, WriterGoes

\* A step that only moves the writer, not to or from where it holds a command ...
LEMMA WriterQuiet ==
    ASSUME IInv, UNCHANGED <<flags, pipe, history>>,
           writer' \in WriterType,
           writer.at \notin {"rewind", "copy", "count"},
           writer'.at \notin {"rewind", "copy", "count"},
           writer'.at = "room" => writer'.cmd \in Command /\ Puts < MaxCommands,
           \/ reader' = reader
           \/ reader = "asleep" /\ reader' = "loop"
    PROVE  IInv'
<1>1. /\ cmdbufLen' = cmdbufLen /\ terminated' = terminated /\ buf' = buf
      /\ writePos' = writePos /\ readPos' = readPos
      /\ written' = written /\ executed' = executed
      /\ blockWrite' = blockWrite /\ timed' = timed
  BY DEF flags, pipe, history
<1>2. FirstKept' = FirstKept /\ Puts' = Puts /\ Done' = Done
  BY <1>1 DEF FirstKept, Puts, Done
<1>3. \E start \in [Nat -> Nat] : Laid(start)'
  <2>1. SameLayout
    BY <1>1, <1>2 DEF SameLayout, WriterAt
  <2> QED BY <2>1, LaidAsBefore
<1>4. TypeOK'
  <2>1. writer'.at \in Places
    BY DEF WriterType
  <2> QED BY <1>1, <2>1 DEF IInv, TypeOK, Places
<1>5. WriterSound'
  BY <1>2 DEF IInv, WriterSound
<1>6. LastCopied' = LastCopied
  BY <1>2 DEF LastCopied, WriterAt
<1>7. ReaderSound'
  <2>1. ExecutedInOrder'
    BY <1>1 DEF IInv, ReaderSound, ExecutedInOrder
  <2> QED BY <1>1, <1>2, <1>6, <2>1 DEF IInv, ReaderSound
<1> QED BY <1>3, <1>4, <1>5, <1>7 DEF IInv

LEMMA WriterQuietSteps ==
    ASSUME IInv, WriteCmd \/ Drop \/ Finish \/ FinishTest \/ FinishWake \/ Signal
    PROVE  IInv'
<1> USE DEF WriterAt
<1>1. CASE WriteCmd
  <2>1. PICK c \in Command :
           writer' = [at |-> "room", cmd |-> c, wasEmpty |-> cmdbufLen = 0]
    BY <1>1 DEF WriteCmd
  <2>2. writer' \in WriterType /\ writer'.at = "room" /\ writer'.cmd \in Command
    BY <2>1 DEF WriterType, Places
  <2>3. Puts < MaxCommands /\ writer.at = "out"
    BY <1>1 DEF WriteCmd, Puts
  <2> QED BY <1>1, <2>2, <2>3, WriterQuiet DEF WriteCmd
<1>2. CASE Drop
  <2>1. writer' \in WriterType /\ writer'.at = "out" /\ writer.at = "room"
    BY <1>2, WriterMoves DEF IInv, Drop, Places
  <2> QED BY <1>2, <2>1, WriterQuiet DEF Drop
<1>3. CASE Finish
  <2>1. writer' \in WriterType /\ writer'.at = "finish" /\ writer.at = "out"
    BY <1>3, WriterMoves DEF IInv, Finish, Places
  <2> QED BY <1>3, <2>1, WriterQuiet DEF Finish
<1>4. CASE FinishTest
  <2>1. /\ writer' \in WriterType /\ writer'.at \in {"out", "finish wake"}
        /\ writer.at = "finish"
    <3>1. CASE Handled
      BY <1>4, <3>1, WriterMoves DEF IInv, FinishTest, Places
    <3>2. CASE ~Handled
      BY <1>4, <3>2, WriterMoves DEF IInv, FinishTest, Places
    <3> QED BY <3>1, <3>2
  <2> QED BY <1>4, <2>1, WriterQuiet DEF FinishTest
<1>5. CASE FinishWake
  <2>1. writer' \in WriterType /\ writer'.at = "finish" /\ writer.at = "finish wake"
    BY <1>5, WriterMoves DEF IInv, FinishWake, Places
  <2>2. reader' = reader \/ (reader = "asleep" /\ reader' = "loop")
    BY <1>5 DEF FinishWake, Wake
  <2> QED BY <1>5, <2>1, <2>2, WriterQuiet DEF FinishWake
<1>6. CASE Signal
  <2>1. writer' \in WriterType /\ writer'.at = "out" /\ writer.at = "signal"
    BY <1>6, WriterMoves DEF IInv, Signal, Places
  <2>2. reader' = reader \/ (reader = "asleep" /\ reader' = "loop")
    BY <1>6 DEF Signal, Wake
  <2> QED BY <1>6, <2>1, <2>2, WriterQuiet DEF Signal
<1> QED BY <1>1, <1>2, <1>3, <1>4, <1>5, <1>6

\* A step that only moves the reader.
LEMMA ReaderQuietSteps ==
    ASSUME IInv, WaitTest \/ Sleep \/ WakesUnsignalled \/ ReadTest
    PROVE  IInv'
<1>1. /\ cmdbufLen' = cmdbufLen /\ terminated' = terminated /\ buf' = buf
      /\ writePos' = writePos /\ readPos' = readPos
      /\ written' = written /\ executed' = executed /\ writer' = writer
      /\ blockWrite' = blockWrite /\ timed' = timed
  BY DEF flags, pipe, history, WaitTest, Sleep, WakesUnsignalled, ReadTest
<1>2. /\ reader \notin {"handle", "release", "ended", "reset"}
      /\ reader' \in {"wait", "sleep", "asleep", "loop", "fetch"}
      /\ reader' = "fetch" => cmdbufLen # 0
      /\ ~terminated
  BY DEF IInv, ReaderSound, WaitTest, Sleep, WakesUnsignalled, ReadTest
<1>3. FirstKept' = FirstKept /\ Puts' = Puts /\ Done' = Done /\ LastCopied' = LastCopied
  BY <1>1, <1>2 DEF FirstKept, Puts, Done, LastCopied, WriterAt
<1>4. \E start \in [Nat -> Nat] : Laid(start)'
  <2>1. SameLayout
    BY <1>1, <1>2, <1>3 DEF SameLayout, WriterAt, IInv
  <2> QED BY <2>1, LaidAsBefore
<1>5. TypeOK'
  BY <1>1, <1>2 DEF IInv, TypeOK
<1>6. WriterSound'
  BY <1>1, <1>3 DEF IInv, WriterSound
<1>7. ReaderSound'
  <2>1. ExecutedInOrder'
    BY <1>1 DEF IInv, ReaderSound, ExecutedInOrder
  <2>2. cmdbufLen \in Nat
    BY StateNumbers DEF Numbers
  <2> QED BY <1>1, <1>2, <1>3, <2>1, <2>2 DEF IInv, ReaderSound
<1> QED BY <1>1, <1>4, <1>5, <1>6, <1>7 DEF IInv

(***************************************************************************)
(* The steps of the reader.                                                *)
(***************************************************************************)

\* The command that is handled is the next one.
LEMMA HandledIsNext ==
    ASSUME IInv, reader \in {"handle", "release", "ended"}
    PROVE  /\ Index = FirstKept /\ Index \in DOMAIN written
           /\ Current \in Command /\ Current.size = SizeOf[FirstKept]
           /\ Current.size > 0
<1>1. FirstKept \in 1..Puts
  BY HeadIsWhole
<1>2. /\ written \in Seq(Command) /\ writer.cmd \in Command \cup {NoCommand}
      /\ FirstKept \in Nat /\ readPos \in Nat
  BY StateNumbers DEF IInv, TypeOK, WriterType, Numbers
<1>3. FirstKept \in 1..Len(written) /\ FirstKept \in DOMAIN written
  BY <1>1, <1>2 DEF Puts
<1>4. written[FirstKept] \in Command
  BY <1>2, <1>3
<1>5. SizeOf[FirstKept] = written[FirstKept].size
  BY <1>2, <1>3, LengthsOf DEF SizeOf
<1>6. SizeOf[FirstKept] \in Nat /\ SizeOf[FirstKept] > 0
  BY <1>4, <1>5, CommandSizes
<1>7. buf[readPos] = Word(FirstKept, 1)
  <2>1. 1 \in 1..SizeOf[FirstKept]
    BY <1>6
  <2>2. buf[readPos + 1 - 1] = Word(FirstKept, 1)
    BY <2>1, HeadIsWhole
  <2>3. readPos + 1 - 1 = readPos
    BY <1>2
  <2> QED BY <2>2, <2>3
<1>8. Index = FirstKept
  BY <1>7 DEF Index, Word
<1>9. Current = written[FirstKept]
  BY <1>3, <1>8 DEF Current
<1> QED BY <1>3, <1>4, <1>5, <1>6, <1>8, <1>9

LEMMA HandleStep ==
    ASSUME IInv, Handle
    PROVE  IInv'
<1>1. /\ reader = "handle" /\ cmdbufLen' = cmdbufLen /\ buf' = buf
      /\ writePos' = writePos /\ readPos' = readPos
      /\ written' = written /\ writer' = writer
      /\ blockWrite' = blockWrite /\ timed' = timed
      /\ executed' = Append(executed, Index) /\ terminated' = Current.quits
      /\ reader' = IF Current.quits THEN "ended" ELSE "release"
  BY DEF flags, Handle
<1>2. FirstKept = Done + 1
  BY <1>1 DEF FirstKept
<1>3. /\ Index = FirstKept /\ Current \in Command /\ FirstKept \in 1..Puts
  BY <1>1, HandledIsNext, HeadIsWhole
<1>4. Current.quits \in BOOLEAN
  BY <1>3 DEF Command
<1>5. Puts <= MaxCommands /\ Puts \in Nat /\ Done \in Nat /\ FirstKept \in Nat
  BY StateNumbers DEF IInv, WriterSound, Numbers
<1>6. executed \in Seq(1..MaxCommands) /\ Index \in 1..MaxCommands
  <2>1. executed \in Seq(1..MaxCommands)
    BY DEF IInv, TypeOK
  <2>2. Index \in 1..MaxCommands
    BY <1>3, <1>5
  <2> QED BY <2>1, <2>2
<1>7. executed' \in Seq(1..MaxCommands) /\ Done' = Done + 1
  BY <1>1, <1>6 DEF Done
<1>8. Puts' = Puts /\ LastCopied' = LastCopied
  BY <1>1 DEF Puts, LastCopied, WriterAt
<1>9. reader' \in {"release", "ended"} /\ (terminated' <=> reader' = "ended")
  BY <1>1, <1>4
<1>10. FirstKept' = FirstKept
  BY <1>2, <1>7, <1>9 DEF FirstKept
<1>11. \E start \in [Nat -> Nat] : Laid(start)'
  <2>1. SameLayout
    BY <1>1, <1>9, <1>10 DEF SameLayout, WriterAt, IInv
  <2> QED BY <2>1, LaidAsBefore
<1>12. TypeOK'
  BY <1>1, <1>4, <1>7, <1>9 DEF IInv, TypeOK
<1>13. WriterSound'
  BY <1>1, <1>8 DEF IInv, WriterSound
<1>14. ExecutedInOrder'
  <2>1. executed = [n \in 1..Done |-> n]
    BY DEF IInv, ReaderSound, ExecutedInOrder, Done
  <2>2. executed' = Append(executed, Done + 1)
    BY <1>1, <1>2, <1>3
  <2>3. executed' = [n \in 1..Done + 1 |-> n]
    BY <1>5, <1>6, <2>1, <2>2 DEF Done
  <2>4. Len(executed') = Done + 1
    BY <1>7 DEF Done
  <2>5. Done + 1 <= Len(written')
    BY <1>1, <1>2, <1>3, <1>5 DEF Puts
  <2> QED BY <2>3, <2>4, <2>5 DEF ExecutedInOrder
<1>15. ReaderSound'
  BY <1>3, <1>5, <1>7, <1>8, <1>9, <1>10, <1>14 DEF IInv, ReaderSound
<1> QED BY <1>1, <1>11, <1>12, <1>13, <1>15 DEF IInv

\* ReadCmds fetches: the next command is counted and whole, or a reset.
LEMMA FetchStep ==
    ASSUME IInv, Fetch
    PROVE  IInv'
<1>1. /\ reader = "fetch" /\ cmdbufLen' = cmdbufLen /\ buf' = buf
      /\ terminated' = terminated /\ writePos' = writePos /\ readPos' = HeadPos
      /\ written' = written /\ executed' = executed /\ writer' = writer
      /\ blockWrite' = blockWrite /\ timed' = timed
      /\ reader' = IF buf[HeadPos] = Reset THEN "reset" ELSE "handle"
  BY DEF flags, history, Fetch
<1>2. Numbers
  BY StateNumbers
<1>3. SizeOf \in [Nat -> Nat]
  BY StateNumbers
<1>4. /\ FirstKept' = FirstKept /\ Done' = Done /\ Puts' = Puts
      /\ LastCopied' = LastCopied /\ SizeOf' = SizeOf /\ Uncounted' = Uncounted
      /\ WriterAt("rewind")' <=> WriterAt("rewind")
      /\ WriterAt("copy")' <=> WriterAt("copy")
  BY <1>1 DEF FirstKept, Done, Puts, LastCopied, SizeOf, Uncounted, WriterAt
<1>5. /\ readPos \in Nat /\ readPos <= BufSize /\ writePos \in Nat /\ writePos <= BufSize
      /\ cmdbufLen \in Nat /\ Uncounted \in Nat /\ Puts \in Nat /\ BufSize \in Nat
      /\ FirstKept \in Nat /\ 1 <= FirstKept /\ LastCopied \in Int /\ 0 \in Nat
      /\ cmdbufLen > 0
  BY <1>1, <1>2 DEF Numbers, IInv, ReaderSound
<1>6. \A n \in Nat : \A i : Word(n, i) = Reset => n = 0
  BY DEF Word, Reset
<1>7. \A n \in 1..LastCopied : SizeOf[n] > 0
  BY StateNumbers
<1>8. LastCopied = Puts \/ LastCopied = Puts + 1
  BY DEF LastCopied
<1>9. PICK start \in [Nat -> Nat] : Laid(start)
  BY DEF IInv
\* What follows once the commands are seen to be laid out in a run from the head.
<1>10. ASSUME NEW lo \in Nat, NEW hi \in Nat, NEW last \in Int, FirstKept <= last,
              last <= LastCopied, Run(start, SizeOf, buf, FirstKept, last, lo, hi)
       PROVE  buf[lo] # Reset /\ lo < hi
  <2>1. start[FirstKept] = lo /\ lo + SizeOf[FirstKept] <= hi
    BY <1>3, <1>5, <1>10, RunHead
  <2>2. FirstKept \in FirstKept..last /\ FirstKept \in 1..LastCopied
    BY <1>5, <1>10
  <2>3. SizeOf[FirstKept] \in Nat /\ SizeOf[FirstKept] > 0
    BY <1>3, <1>5, <1>7, <2>2
  <2>4. \A i \in 1..SizeOf[FirstKept] : buf[start[FirstKept] + i - 1] = Word(FirstKept, i)
    BY <1>10, <2>2, RunWords
  <2>5. 1 \in 1..SizeOf[FirstKept]
    BY <2>3
  <2>6. buf[start[FirstKept] + 1 - 1] = Word(FirstKept, 1)
    BY <2>4, <2>5
  <2>7. start[FirstKept] + 1 - 1 = lo
    BY <2>1
  <2>8. buf[lo] = Word(FirstKept, 1)
    BY <2>6, <2>7
  <2> QED BY <1>5, <1>6, <2>1, <2>3, <2>8
\* If they are in one piece from lo, the first one is counted.
<1>11. ASSUME NEW lo \in Nat, cmdbufLen = writePos - lo - Uncounted,
              Run(start, SizeOf, buf, FirstKept, LastCopied, lo, writePos)
       PROVE  FirstKept <= Puts
  <2>1. CASE FirstKept > LastCopied
    <3>1. lo = writePos
      BY <1>11, <2>1 DEF Run
    <3> QED BY <1>5, <1>11, <3>1
  <2>2. CASE FirstKept = LastCopied /\ WriterAt("count")
    <3>1. writePos = lo + SizeOf[LastCopied]
      BY <1>3, <1>5, <1>11, <2>2, RunLast
    <3>2. SizeOf[LastCopied] = Uncounted
      BY <2>2, StateNumbers DEF Last
    <3> QED BY <1>5, <1>11, <3>1, <3>2
  <2>3. CASE FirstKept = LastCopied /\ ~WriterAt("count")
    <3>1. LastCopied = Puts
      BY <2>3 DEF LastCopied
    <3> QED BY <1>5, <2>3, <3>1
  <2>4. CASE FirstKept < LastCopied
    BY <1>5, <1>8, <2>4
  <2> QED BY <1>5, <2>1, <2>2, <2>3, <2>4
<1>12. ASSUME InOnePiece(start)
       PROVE  /\ reader' \in {"reset", "handle"} /\ Laid(start)'
              /\ reader' = "handle" => FirstKept <= Puts
              /\ readPos' \in 0..BufSize
  <2>1. /\ cmdbufLen = writePos - readPos - Uncounted
        /\ Run(start, SizeOf, buf, FirstKept, LastCopied, readPos, writePos)
    BY <1>12 DEF InOnePiece
  <2>2. FirstKept <= Puts /\ FirstKept <= LastCopied
    <3>1. FirstKept <= Puts
      BY <1>5, <1>11, <2>1
    <3> QED BY <1>5, <1>8, <3>1
  <2>3. buf[readPos] # Reset
    BY <1>5, <1>10, <2>1, <2>2
  <2>4. HeadPos = readPos
    BY <1>5, <2>1 DEF HeadPos
  <2>5. reader' = "handle" /\ readPos' = readPos
    BY <1>1, <2>3, <2>4
  <2>6. InOnePiece(start)'
    BY <1>1, <1>4, <1>12, <2>5 DEF InOnePiece
  <2> QED BY <1>5, <2>2, <2>5, <2>6 DEF Laid
<1>13. ASSUME NEW k \in Nat, NEW e \in 0..BufSize, InTwoPieces(start, k, e)
       PROVE  /\ reader' \in {"reset", "handle"} /\ Laid(start)'
              /\ reader' = "handle" => FirstKept <= Puts
              /\ readPos' \in 0..BufSize
  <2>1. /\ k \in FirstKept..Puts + 1 /\ readPos <= e /\ e \in Nat /\ e <= BufSize
        /\ cmdbufLen = BufSize - readPos + writePos + ResetLen(e) - Uncounted
        /\ Run(start, SizeOf, buf, FirstKept, k - 1, readPos, e)
        /\ e < BufSize => buf[e] = Reset
    BY <1>5, <1>13 DEF InTwoPieces
  <2>2. /\ Run(start, SizeOf, buf, k, LastCopied, 0, writePos)
        /\ ~WriterAt("rewind") /\ (WriterAt("copy") => writePos = 0)
    BY <1>13 DEF InTwoPieces
  <2>3. k - 1 \in Int /\ k - 1 <= LastCopied /\ (FirstKept = k \/ FirstKept <= k - 1)
    BY <1>5, <1>8, <2>1
  <2>4. CASE readPos = BufSize
    <3>1. e = BufSize /\ HeadPos = 0
      BY <1>5, <2>1, <2>4 DEF HeadPos
    <3>2. FirstKept = k
      BY <1>5, <1>10, <2>1, <2>3, <2>4, <3>1
    <3>3. cmdbufLen = writePos - 0 - Uncounted
      BY <1>5, <2>1, <2>4, <3>1 DEF ResetLen
    <3>4. FirstKept <= Puts /\ FirstKept <= LastCopied
      <4>1. FirstKept <= Puts
        BY <1>5, <1>11, <2>2, <3>2, <3>3
      <4> QED BY <1>5, <1>8, <4>1
    <3>5. buf[0] # Reset
      BY <1>5, <1>10, <2>2, <3>2, <3>4
    <3>6. reader' = "handle" /\ readPos' = 0
      BY <1>1, <3>1, <3>5
    <3>7. InOnePiece(start)'
      <4>1. Run(start, SizeOf', buf', FirstKept', LastCopied', readPos', writePos')
        BY <1>1, <1>4, <2>2, <3>2, <3>6
      <4>2. /\ readPos' <= writePos' /\ cmdbufLen' = writePos' - readPos' - Uncounted'
            /\ reader' # "reset"
        BY <1>1, <1>4, <1>5, <3>3, <3>6
      <4>3. ~WriterAt("rewind")' /\ (WriterAt("copy")' => writePos' = 0)
        BY <1>1, <1>4, <2>2
      <4> QED BY <4>1, <4>2, <4>3 DEF InOnePiece
    <3> QED BY <1>5, <3>4, <3>6, <3>7 DEF Laid
  <2>5. CASE readPos # BufSize
    <3>1. HeadPos = readPos /\ readPos' = readPos
      BY <1>1, <2>5 DEF HeadPos
    <3>2. CASE FirstKept = k
      <4>1. readPos = e
        <5>1. FirstKept > k - 1
          BY <1>5, <3>2
        <5> QED BY <2>1, <5>1 DEF Run
      <4>2. e < BufSize /\ reader' = "reset"
        BY <1>1, <1>5, <2>1, <2>5, <3>1, <4>1
      <4>3. InTwoPieces(start, k, e)'
        BY <1>1, <1>4, <1>13, <3>1, <4>1, <4>2 DEF InTwoPieces
      <4> QED BY <1>5, <3>1, <4>2, <4>3 DEF Laid
    <3>3. CASE FirstKept <= k - 1
      <4>1. buf[readPos] # Reset
        BY <1>5, <1>10, <2>1, <2>3, <3>3
      <4>2. reader' = "handle" /\ FirstKept < k /\ FirstKept <= Puts
        BY <1>1, <1>5, <2>1, <3>1, <3>3, <4>1
      <4>3. InTwoPieces(start, k, e)'
        BY <1>1, <1>4, <1>13, <3>1, <4>2 DEF InTwoPieces
      <4> QED BY <1>5, <3>1, <4>2, <4>3 DEF Laid
    <3> QED BY <2>3, <3>2, <3>3
  <2> QED BY <2>4, <2>5
<1>14. /\ reader' \in {"reset", "handle"} /\ Laid(start)'
       /\ reader' = "handle" => FirstKept <= Puts
       /\ readPos' \in 0..BufSize
  BY <1>9, <1>12, <1>13 DEF Laid
<1>15. TypeOK'
  BY <1>1, <1>14 DEF IInv, TypeOK
<1>16. WriterSound'
  BY <1>1, <1>4 DEF IInv, WriterSound
<1>17. ReaderSound'
  <2>1. ExecutedInOrder'
    BY <1>1 DEF IInv, ReaderSound, ExecutedInOrder
  <2> QED BY <1>1, <1>4, <1>14, <2>1 DEF IInv, ReaderSound
<1> QED BY <1>1, <1>14, <1>15, <1>16, <1>17 DEF IInv

\* ReadCmds skips a reset: the commands are in one piece again.
LEMMA SkipResetStep ==
    ASSUME IInv, SkipReset
    PROVE  IInv'
<1>1. /\ reader = "reset" /\ reader' = "loop" /\ buf' = buf /\ readPos' = 0
      /\ cmdbufLen' = cmdbufLen - (1 + (BufSize - readPos))
      /\ terminated' = terminated /\ writePos' = writePos
      /\ written' = written /\ executed' = executed /\ writer' = writer
      /\ blockWrite' = blockWrite /\ timed' = timed
  BY DEF flags, history, SkipReset
<1>2. Numbers
  BY StateNumbers
<1>3. SizeOf \in [Nat -> Nat]
  BY StateNumbers
<1>4. /\ FirstKept' = FirstKept /\ Done' = Done /\ Puts' = Puts
      /\ LastCopied' = LastCopied /\ SizeOf' = SizeOf /\ Uncounted' = Uncounted
      /\ WriterAt("rewind")' <=> WriterAt("rewind")
      /\ WriterAt("copy")' <=> WriterAt("copy")
  BY <1>1 DEF FirstKept, Done, Puts, LastCopied, SizeOf, Uncounted, WriterAt
<1>5. /\ readPos \in Nat /\ readPos <= BufSize /\ writePos \in Nat /\ writePos <= BufSize
      /\ cmdbufLen \in Nat /\ Uncounted \in Nat /\ Puts \in Nat /\ BufSize \in Nat
      /\ FirstKept \in Nat /\ 1 <= FirstKept /\ LastCopied \in Int /\ 0 \in Nat
  BY <1>2 DEF Numbers
<1>6. PICK start \in [Nat -> Nat] : Laid(start)
  BY DEF IInv
<1>7. ~InOnePiece(start)
  BY <1>1 DEF InOnePiece
<1>8. PICK k \in Nat, e \in 0..BufSize : InTwoPieces(start, k, e)
  BY <1>6, <1>7 DEF Laid
<1>9. /\ k \in FirstKept..Puts + 1 /\ readPos = e /\ e < BufSize
      /\ cmdbufLen = BufSize - readPos + writePos + ResetLen(e) - Uncounted
      /\ Run(start, SizeOf, buf, FirstKept, k - 1, readPos, e)
      /\ Run(start, SizeOf, buf, k, LastCopied, 0, writePos)
      /\ ~WriterAt("rewind") /\ (WriterAt("copy") => writePos = 0)
  BY <1>1, <1>8 DEF InTwoPieces
<1>10. FirstKept = k
  <2>1. k - 1 \in Int /\ k \in Nat /\ k <= Puts + 1 /\ FirstKept <= k
    BY <1>5, <1>9
  <2>2. FirstKept <= k - 1 => SizeOf[FirstKept] > 0
    <3>1. LastCopied = Puts \/ LastCopied = Puts + 1
      BY DEF LastCopied
    <3>2. FirstKept <= k - 1 => FirstKept \in 1..LastCopied
      BY <1>5, <2>1, <3>1
    <3> QED BY <3>2, StateNumbers
  <2>3. FirstKept > k - 1
    BY <1>3, <1>5, <1>9, <2>1, <2>2, RunBounds
  <2> QED BY <1>5, <2>1, <2>3
<1>11. 0 + Uncounted <= writePos
  <2>1. k <= Puts + 1
    BY <1>5, <1>9
  <2> QED BY <1>5, <1>9, <2>1, UncountedInRun
<1>12. cmdbufLen' = writePos - 0 - Uncounted /\ cmdbufLen' \in 0..BufSize
  <2>1. ResetLen(e) = 1
    BY <1>9 DEF ResetLen
  <2>2. cmdbufLen' = writePos - Uncounted
    BY <1>1, <1>5, <1>9, <2>1
  <2> QED BY <1>5, <1>11, <2>2
<1>13. InOnePiece(start)'
  <2>1. Run(start, SizeOf', buf', FirstKept', LastCopied', readPos', writePos')
    BY <1>1, <1>4, <1>9, <1>10
  <2>2. /\ readPos' <= writePos' /\ cmdbufLen' = writePos' - readPos' - Uncounted'
        /\ reader' # "reset"
    BY <1>1, <1>4, <1>5, <1>12
  <2>3. ~WriterAt("rewind")' /\ (WriterAt("copy")' => writePos' = 0)
    BY <1>1, <1>4, <1>9
  <2> QED BY <2>1, <2>2, <2>3 DEF InOnePiece
<1>14. TypeOK'
  <2>1. readPos' \in 0..BufSize
    BY <1>1, <1>5
  <2> QED BY <1>1, <1>12, <2>1 DEF IInv, TypeOK
<1>15. WriterSound'
  BY <1>1, <1>4 DEF IInv, WriterSound
<1>16. ReaderSound'
  <2>1. ExecutedInOrder'
    BY <1>1 DEF IInv, ReaderSound, ExecutedInOrder
  <2> QED BY <1>1, <1>4, <2>1 DEF IInv, ReaderSound
<1> QED BY <1>1, <1>13, <1>14, <1>15, <1>16 DEF IInv, Laid

\* ReadCmds gives back the words of the command that was handled.
LEMMA ReleaseStep ==
    ASSUME IInv, Release
    PROVE  IInv'
<1>1. reader = "release"
  BY DEF Release
<1>2. Numbers
  BY StateNumbers
<1>3. SizeOf \in [Nat -> Nat]
  BY StateNumbers
<1>4. /\ FirstKept \in 1..Puts /\ readPos + SizeOf[FirstKept] <= BufSize
      /\ SizeOf[FirstKept] <= cmdbufLen /\ Current.size = SizeOf[FirstKept]
  BY <1>1, HeadIsWhole, HandledIsNext
<1>5. /\ reader' = "loop" /\ buf' = buf /\ readPos' = readPos + SizeOf[FirstKept]
      /\ cmdbufLen' = cmdbufLen - SizeOf[FirstKept]
      /\ terminated' = terminated /\ writePos' = writePos
      /\ written' = written /\ executed' = executed /\ writer' = writer
      /\ blockWrite' = blockWrite /\ timed' = timed
  <2>1. Counted
    BY <1>4 DEF Counted
  <2> QED BY <1>4, <2>1 DEF flags, history, Release
<1>6. /\ Done' = Done /\ Puts' = Puts
      /\ LastCopied' = LastCopied /\ SizeOf' = SizeOf /\ Uncounted' = Uncounted
      /\ WriterAt("rewind")' <=> WriterAt("rewind")
      /\ WriterAt("copy")' <=> WriterAt("copy")
  BY <1>5 DEF Done, Puts, LastCopied, SizeOf, Uncounted, WriterAt
<1>7. /\ readPos \in Nat /\ readPos <= BufSize /\ writePos \in Nat /\ writePos <= BufSize
      /\ cmdbufLen \in Nat /\ cmdbufLen <= BufSize /\ Uncounted \in Nat /\ Puts \in Nat
      /\ FirstKept \in Nat /\ 1 <= FirstKept /\ LastCopied \in Int /\ 0 \in Nat
      /\ BufSize \in Nat /\ Done \in Nat
  BY <1>2 DEF Numbers
<1>8. FirstKept' = FirstKept + 1
  BY <1>1, <1>5, <1>6 DEF FirstKept
<1>9. SizeOf[FirstKept] \in Nat
  BY <1>3, <1>7
<1>10. FirstKept <= LastCopied
  <2>1. LastCopied = Puts \/ LastCopied = Puts + 1
    BY DEF LastCopied
  <2> QED BY <1>4, <1>7, <2>1
<1>11. PICK start \in [Nat -> Nat] : Laid(start)
  BY DEF IInv
<1>12. ASSUME NEW last \in Int, NEW hi \in Nat, FirstKept <= last,
              Run(start, SizeOf, buf, FirstKept, last, readPos, hi)
       PROVE  /\ Run(start, SizeOf', buf', FirstKept', last, readPos', hi)
              /\ readPos' <= hi
  <2>1. Run(start, SizeOf, buf, FirstKept + 1, last, readPos + SizeOf[FirstKept], hi)
    BY <1>3, <1>7, <1>12, RunTail
  <2>2. readPos + SizeOf[FirstKept] <= hi
    BY <1>3, <1>7, <1>12, RunHead
  <2> QED BY <1>5, <1>6, <1>8, <2>1, <2>2
<1>13. ASSUME InOnePiece(start)
       PROVE  InOnePiece(start)'
  <2>1. /\ Run(start, SizeOf, buf, FirstKept, LastCopied, readPos, writePos)
        /\ cmdbufLen = writePos - readPos - Uncounted
        /\ WriterAt("rewind") => /\ writePos < BufSize /\ buf[writePos] = Reset
                                 /\ writer.cmd.size < readPos
        /\ WriterAt("copy") => writePos = 0
    BY <1>13 DEF InOnePiece
  <2>2. /\ Run(start, SizeOf', buf', FirstKept', LastCopied', readPos', writePos')
        /\ readPos' <= writePos'
    BY <1>5, <1>6, <1>7, <1>10, <1>12, <2>1
  <2>3. cmdbufLen' = writePos' - readPos' - Uncounted' /\ reader' # "reset"
    BY <1>5, <1>6, <1>7, <1>9, <2>1
  <2>4. /\ WriterAt("rewind")' => /\ writePos' < BufSize /\ buf'[writePos'] = Reset
                                  /\ writer'.cmd.size < readPos'
        /\ WriterAt("copy")' => writePos' = 0
    <3>1. WriterAt("rewind") => writer.cmd.size < readPos + SizeOf[FirstKept]
      <4>1. writer.cmd.size \in Nat
        BY CommandSizes DEF IInv, WriterType, NoCommand
      <4> QED BY <1>7, <1>9, <2>1, <4>1
    <3> QED BY <1>5, <1>6, <2>1, <3>1
  <2> QED BY <2>2, <2>3, <2>4 DEF InOnePiece
<1>14. ASSUME NEW k \in Nat, NEW e \in 0..BufSize, InTwoPieces(start, k, e)
       PROVE  InTwoPieces(start, k, e)'
  <2>1. /\ k \in FirstKept..Puts + 1 /\ FirstKept < k /\ e \in Nat /\ e <= BufSize
        /\ cmdbufLen = BufSize - readPos + writePos + ResetLen(e) - Uncounted
        /\ writePos + ResetLen(e) <= readPos
        /\ Run(start, SizeOf, buf, FirstKept, k - 1, readPos, e)
        /\ Run(start, SizeOf, buf, k, LastCopied, 0, writePos)
        /\ e < BufSize => buf[e] = Reset
        /\ ~WriterAt("rewind")
    BY <1>1, <1>7, <1>14 DEF InTwoPieces
  <2>2. WriterAt("copy") => writePos = 0 /\ writer.cmd.size + ResetLen(e) <= readPos
    BY <1>14 DEF InTwoPieces
  <2>3. ResetLen(e) \in Nat
    BY DEF ResetLen
  <2>4. /\ Run(start, SizeOf', buf', FirstKept', k - 1, readPos', e) /\ readPos' <= e
    <3>1. k - 1 \in Int /\ FirstKept <= k - 1
      BY <1>7, <2>1
    <3> QED BY <1>12, <2>1, <3>1
  <2>5. k \in FirstKept'..Puts' + 1
    BY <1>6, <1>7, <1>8, <2>1
  <2>6. Run(start, SizeOf', buf', k, LastCopied', 0, writePos')
    BY <1>5, <1>6, <2>1
  <2>7. /\ cmdbufLen' = BufSize - readPos' + writePos' + ResetLen(e) - Uncounted'
        /\ writePos' + ResetLen(e) <= readPos'
    BY <1>5, <1>6, <1>7, <1>9, <2>1, <2>3
  <2>8. WriterAt("copy")' => writePos' = 0 /\ writer'.cmd.size + ResetLen(e) <= readPos'
    <3>1. writer.cmd.size \in Nat
      BY CommandSizes DEF IInv, WriterType, NoCommand
    <3>2. WriterAt("copy") => writer.cmd.size + ResetLen(e) <= readPos + SizeOf[FirstKept]
      BY <1>7, <1>9, <2>2, <2>3, <3>1
    <3> QED BY <1>5, <1>6, <2>2, <3>2
  <2>9. /\ e < BufSize => buf'[e] = Reset
        /\ ~WriterAt("rewind")'
        /\ reader' = "loop" /\ e <= BufSize
    BY <1>5, <1>6, <2>1
  <2> QED BY <2>4, <2>5, <2>6, <2>7, <2>8, <2>9 DEF InTwoPieces
<1>15. Laid(start)'
  BY <1>11, <1>13, <1>14 DEF Laid
<1>16. TypeOK'
  <2>1. readPos' \in 0..BufSize /\ cmdbufLen' \in 0..BufSize
    BY <1>4, <1>5, <1>7, <1>9
  <2> QED BY <1>5, <2>1 DEF IInv, TypeOK
<1>17. WriterSound'
  BY <1>5, <1>6 DEF IInv, WriterSound
<1>18. ReaderSound'
  <2>1. ExecutedInOrder'
    BY <1>5 DEF IInv, ReaderSound, ExecutedInOrder
  <2>2. FirstKept' <= LastCopied' + 1
    BY <1>6, <1>7, <1>8, <1>10
  <2> QED BY <1>1, <1>5, <2>1, <2>2 DEF IInv, ReaderSound
<1> QED BY <1>5, <1>15, <1>16, <1>17, <1>18 DEF IInv

(***************************************************************************)
(* The steps of the writer.                                                *)
(***************************************************************************)

\* The commands are in one piece: nothing is copied behind them yet, so they are the
\* first of two pieces as well.
LEMMA SecondPieceStarts ==
    ASSUME IInv, NEW start \in [Nat -> Nat], InOnePiece(start), ~WriterAt("count"),
           UNCHANGED <<written, reader, executed, readPos>>,
           writePos' = 0, WriterAt("copy")',
           NEW e \in Nat, e = writePos, e <= BufSize, buf' = buf,
           writer'.at = "copy", writer'.cmd = writer.cmd,
           e < BufSize => buf[e] = Reset,
           writer.cmd.size + ResetLen(e) <= readPos,
           cmdbufLen' = BufSize - readPos + ResetLen(e)
    PROVE  InTwoPieces(start, Puts + 1, e)'
<1>1. Numbers
  BY StateNumbers
<1>2. /\ readPos \in Nat /\ readPos <= BufSize /\ writePos \in Nat
      /\ Puts \in Nat /\ BufSize \in Nat /\ FirstKept \in Nat
  BY <1>1 DEF Numbers
<1>3. LastCopied = Puts
  BY DEF LastCopied
<1>4. /\ Puts' = Puts /\ LastCopied' = Puts /\ FirstKept' = FirstKept /\ SizeOf' = SizeOf
      /\ Uncounted' = 0 /\ WriterAt("copy")' /\ ~WriterAt("rewind")'
  BY DEF Puts, LastCopied, FirstKept, Done, SizeOf, Uncounted, WriterAt
<1>5. /\ readPos <= writePos
      /\ Run(start, SizeOf, buf, FirstKept, LastCopied, readPos, writePos)
      /\ reader # "reset"
  BY DEF InOnePiece
<1>6. /\ FirstKept <= Puts + 1
      /\ reader \in {"handle", "release", "ended"} => FirstKept <= Puts
  BY <1>3 DEF IInv, ReaderSound
<1>7. ResetLen(e) \in Nat
  BY DEF ResetLen
<1>8. writer.cmd.size \in Nat
  BY CommandSizes DEF IInv, WriterType, NoCommand
<1>9. Run(start, SizeOf', buf', FirstKept', (Puts + 1) - 1, readPos', e)
  <2>1. (Puts + 1) - 1 = Puts
    BY <1>2
  <2> QED BY <1>3, <1>4, <1>5, <2>1
<1>10. Run(start, SizeOf', buf', Puts + 1, LastCopied', 0, writePos')
  <2>1. Puts + 1 \in Int /\ Puts \in Int /\ Puts + 1 > Puts
    BY <1>2
  <2>2. Run(start, SizeOf', buf', Puts + 1, Puts, 0, 0)
    BY <2>1, RunEmpty
  <2> QED BY <1>4, <2>2
<1>11. /\ Puts + 1 \in FirstKept'..Puts' + 1
       /\ readPos' <= e /\ e <= BufSize /\ writePos' + ResetLen(e) <= readPos'
       /\ cmdbufLen' = BufSize - readPos' + writePos' + ResetLen(e) - Uncounted'
       /\ reader' \in {"handle", "release", "ended"} => FirstKept' < Puts + 1
       /\ reader' # "reset"
  BY <1>2, <1>4, <1>5, <1>6, <1>7, <1>8
<1>12. WriterAt("copy")' => /\ writePos' = 0
                            /\ writer'.cmd.size + ResetLen(e) <= readPos'
  OBVIOUS
<1>13. (Puts + 1)' = Puts + 1
  BY <1>4
<1> QED BY <1>4, <1>9, <1>10, <1>11, <1>12, <1>13 DEF InTwoPieces

\* WriteCmd finds too little room before the end of the buffer.
LEMMA RewindStep ==
    ASSUME IInv, Rewind
    PROVE  IInv'
<1>1. /\ WriterAt("room") /\ Rewinds /\ Fits
      /\ cmdbufLen' = cmdbufLen /\ terminated' = terminated /\ readPos' = readPos
      /\ reader' = reader /\ written' = written /\ executed' = executed
      /\ blockWrite' = blockWrite /\ timed' = timed
  BY DEF flags, history, Rewind
<1>2. Numbers
  BY StateNumbers
<1>3. SizeOf \in [Nat -> Nat]
  BY StateNumbers
<1>4. /\ ~WriterAt("count") /\ writer.cmd \in Command /\ Puts < MaxCommands
      /\ writer.at = "room"
  BY <1>1 DEF IInv, WriterSound, WriterAt
<1>5. writer.cmd.size \in Nat /\ writer.cmd.size > 0
  BY <1>4, CommandSizes
<1>6. /\ readPos \in Nat /\ readPos <= BufSize /\ writePos \in Nat /\ writePos <= BufSize
      /\ cmdbufLen \in Nat /\ cmdbufLen <= BufSize /\ Puts \in Nat /\ BufSize \in Nat
      /\ FirstKept \in Nat /\ 1 <= FirstKept /\ Uncounted = 0 /\ LastCopied = Puts
      /\ LastCopied \in Int
  BY <1>2, <1>4 DEF Numbers, Uncounted, LastCopied
<1>7. PICK start \in [Nat -> Nat] : Laid(start)
  BY DEF IInv
<1>8. /\ writePos < BufSize => cmdbufLen + 1 + writer.cmd.size <= writePos
      /\ writePos = BufSize => cmdbufLen + writer.cmd.size <= BufSize
  <2>1. cmdbufLen + Needed <= BufSize
    BY <1>1 DEF Fits
  <2>2. writePos < BufSize => Needed = 1 + (BufSize - writePos) + writer.cmd.size
    BY <1>1, <1>6 DEF Needed, writeRemains
  <2>3. writePos = BufSize => Needed = writer.cmd.size
    BY <1>6 DEF Needed, writeRemains
  <2> QED BY <1>5, <1>6, <2>1, <2>2, <2>3
<1>9. InOnePiece(start)
  <2>1. ASSUME NEW k \in Nat, NEW e \in 0..BufSize, InTwoPieces(start, k, e)
        PROVE  FALSE
    <3>1. /\ readPos <= e /\ e <= BufSize /\ writePos + ResetLen(e) <= readPos
          /\ cmdbufLen = BufSize - readPos + writePos + ResetLen(e) - Uncounted
      BY <2>1 DEF InTwoPieces
    <3>2. ResetLen(e) \in Nat /\ e \in Nat
      BY <1>6 DEF ResetLen
    <3> QED BY <1>5, <1>6, <1>8, <3>1, <3>2
  <2> QED BY <1>7, <2>1 DEF Laid
<1>10. /\ readPos <= writePos /\ cmdbufLen = writePos - readPos
       /\ Run(start, SizeOf, buf, FirstKept, LastCopied, readPos, writePos)
       /\ reader # "reset"
  <2>1. /\ readPos <= writePos /\ cmdbufLen = writePos - readPos - Uncounted
        /\ Run(start, SizeOf, buf, FirstKept, LastCopied, readPos, writePos)
        /\ reader # "reset"
    BY <1>9 DEF InOnePiece
  <2> QED BY <1>6, <2>1
<1>11. CASE writePos = BufSize
  <2>1. buf' = buf /\ writePos' = 0 /\ WriterGoes("copy")
    BY <1>6, <1>11 DEF Rewind, writeRemains
  <2>2. writer' \in WriterType /\ writer'.at = "copy" /\ writer'.cmd = writer.cmd
    BY <2>1, WriterMoves DEF IInv, Places
  <2>3. ResetLen(BufSize) = 0
    BY <1>6 DEF ResetLen
  <2>4. InTwoPieces(start, Puts + 1, BufSize)'
    <3>1. WriterAt("copy")'
      BY <2>2 DEF WriterAt
    <3>2. writer.cmd.size + ResetLen(BufSize) <= readPos
      BY <1>5, <1>6, <1>8, <1>10, <1>11, <2>3
    <3>3. cmdbufLen' = BufSize - readPos + ResetLen(BufSize)
      BY <1>1, <1>6, <1>10, <1>11, <2>3
    <3>4. BufSize = writePos /\ BufSize <= BufSize /\ ~(BufSize < BufSize)
      BY <1>6, <1>11
    <3> QED BY <1>1, <1>4, <1>6, <1>9, <2>1, <2>2, <3>1, <3>2, <3>3, <3>4, SecondPieceStarts
  <2>5. Laid(start)'
    <3>1. (Puts + 1)' \in Nat /\ BufSize \in 0..BufSize /\ Puts' = Puts
      BY <1>1, <1>6 DEF Puts
    <3> QED BY <2>4, <3>1 DEF Laid
  <2>6. TypeOK'
    <3>1. writePos' \in 0..BufSize /\ writer'.at \in Places
      BY <1>6, <2>1, <2>2 DEF Places
    <3> QED BY <1>1, <2>1, <3>1 DEF IInv, TypeOK, Places
  <2>7. Puts' = Puts /\ LastCopied' = LastCopied /\ FirstKept' = FirstKept /\ Done' = Done
    BY <1>1, <1>4, <2>2 DEF Puts, LastCopied, FirstKept, Done, WriterAt
  <2>8. WriterSound'
    BY <1>4, <2>2, <2>7 DEF IInv, WriterSound
  <2>9. ReaderSound'
    <3>1. ExecutedInOrder'
      BY <1>1 DEF IInv, ReaderSound, ExecutedInOrder
    <3> QED BY <1>1, <2>7, <3>1 DEF IInv, ReaderSound
  <2> QED BY <2>2, <2>5, <2>6, <2>8, <2>9 DEF IInv
<1>12. CASE writePos < BufSize
  <2>1. buf' = [buf EXCEPT ![writePos] = Reset] /\ writePos' = writePos /\ WriterGoes("rewind")
    BY <1>6, <1>12 DEF Rewind, writeRemains
  <2>2. writer' \in WriterType /\ writer'.at = "rewind" /\ writer'.cmd = writer.cmd
    BY <2>1, WriterMoves DEF IInv, Places
  <2>3. buf \in [0..BufSize - 1 -> Cell] /\ writePos \in 0..BufSize - 1
    <3>1. buf \in [0..BufSize - 1 -> Cell]
      BY DEF IInv, TypeOK
    <3>2. writePos \in 0..BufSize - 1
      BY <1>6, <1>12
    <3> QED BY <3>1, <3>2
  <2>4. buf' \in [0..BufSize - 1 -> Cell]
    BY <2>1, <2>3 DEF Cell
  <2>5. buf'[writePos] = Reset
    BY <2>1, <2>3
  <2>6. \A p \in readPos..writePos - 1 : buf'[p] = buf[p]
    BY <1>6, <2>1, <2>3
  <2>7. /\ Puts' = Puts /\ LastCopied' = LastCopied /\ FirstKept' = FirstKept
        /\ Done' = Done /\ SizeOf' = SizeOf /\ Uncounted' = 0
        /\ WriterAt("rewind")' /\ ~WriterAt("copy")'
    BY <1>1, <1>4, <2>2 DEF Puts, LastCopied, FirstKept, Done, SizeOf, Uncounted, WriterAt
  <2>8. Run(start, SizeOf', buf', FirstKept', LastCopied', readPos', writePos')
    <3>1. Run(start, SizeOf, buf', FirstKept, LastCopied, readPos, writePos)
      BY <1>3, <1>6, <1>10, <2>6, RunKept
    <3> QED BY <1>1, <2>1, <2>7, <3>1
  <2>9. InOnePiece(start)'
    <3>1. writer.cmd.size < readPos
      BY <1>5, <1>6, <1>8, <1>10, <1>12
    <3>2. cmdbufLen' = writePos' - readPos' - Uncounted'
      BY <1>1, <1>6, <1>10, <2>1, <2>7
    <3> QED BY <1>1, <1>10, <1>12, <2>1, <2>2, <2>5, <2>7, <2>8, <3>1, <3>2 DEF InOnePiece
  <2>10. TypeOK'
    <3>1. writer'.at \in Places
      BY <2>2 DEF Places
    <3> QED BY <1>1, <2>1, <2>4, <3>1 DEF IInv, TypeOK, Places
  <2>11. WriterSound'
    BY <1>4, <2>2, <2>7 DEF IInv, WriterSound
  <2>12. ReaderSound'
    <3>1. ExecutedInOrder'
      BY <1>1 DEF IInv, ReaderSound, ExecutedInOrder
    <3> QED BY <1>1, <2>7, <3>1 DEF IInv, ReaderSound
  <2> QED BY <2>2, <2>9, <2>10, <2>11, <2>12 DEF IInv, Laid
<1> QED BY <1>6, <1>11, <1>12

\* WriteCmd counts the reset and the words it makes useless.
LEMMA CountResetStep ==
    ASSUME IInv, CountReset
    PROVE  IInv'
<1>1. /\ WriterAt("rewind") /\ cmdbufLen' = cmdbufLen + 1 + (BufSize - writePos)
      /\ writePos' = 0 /\ WriterGoes("copy") /\ buf' = buf
      /\ terminated' = terminated /\ readPos' = readPos
      /\ reader' = reader /\ written' = written /\ executed' = executed
      /\ blockWrite' = blockWrite /\ timed' = timed
  BY DEF flags, history, CountReset, writeRemains
<1>2. Numbers
  BY StateNumbers
<1>3. writer' \in WriterType /\ writer'.at = "copy" /\ writer'.cmd = writer.cmd
  BY <1>1, WriterMoves DEF IInv, Places
<1>4. /\ ~WriterAt("count") /\ writer.cmd \in Command /\ Puts < MaxCommands
      /\ writer.at = "rewind" /\ WriterAt("copy")'
  BY <1>1, <1>3 DEF IInv, WriterSound, WriterAt
<1>5. writer.cmd.size \in Nat
  BY <1>4, CommandSizes
<1>6. /\ readPos \in Nat /\ readPos <= BufSize /\ writePos \in Nat /\ writePos <= BufSize
      /\ cmdbufLen \in Nat /\ Puts \in Nat /\ BufSize \in Nat /\ Uncounted = 0
  BY <1>2, <1>4 DEF Numbers, Uncounted
<1>7. PICK start \in [Nat -> Nat] : Laid(start)
  BY DEF IInv
<1>8. InOnePiece(start)
  BY <1>1, <1>7 DEF Laid, InTwoPieces
<1>9. /\ cmdbufLen = writePos - readPos - Uncounted /\ writePos < BufSize
      /\ buf[writePos] = Reset /\ writer.cmd.size < readPos
  BY <1>1, <1>8 DEF InOnePiece
<1>10. ResetLen(writePos) = 1
  BY <1>9 DEF ResetLen
<1>11. cmdbufLen' = BufSize - readPos + ResetLen(writePos) /\ cmdbufLen' \in 0..BufSize
  BY <1>1, <1>5, <1>6, <1>9, <1>10
<1>12. PICK e \in Nat : e = writePos
  BY <1>6
<1>13. InTwoPieces(start, Puts + 1, e)'
  <2>1. /\ e <= BufSize /\ (e < BufSize => buf[e] = Reset)
        /\ writer.cmd.size + ResetLen(e) <= readPos
        /\ cmdbufLen' = BufSize - readPos + ResetLen(e)
    BY <1>5, <1>6, <1>9, <1>10, <1>11, <1>12
  <2> QED BY <1>1, <1>3, <1>4, <1>8, <1>12, <2>1, SecondPieceStarts
<1>14. /\ Puts' = Puts /\ LastCopied' = LastCopied /\ FirstKept' = FirstKept /\ Done' = Done
  BY <1>1, <1>3, <1>4 DEF Puts, LastCopied, FirstKept, Done, WriterAt
<1>15. Laid(start)'
  <2>1. (Puts + 1)' \in Nat /\ e \in 0..BufSize
    BY <1>6, <1>12, <1>14
  <2> QED BY <1>13, <2>1 DEF Laid
<1>16. TypeOK'
  <2>1. writePos' \in 0..BufSize /\ writer'.at \in Places
    BY <1>1, <1>3, <1>6 DEF Places
  <2> QED BY <1>1, <1>11, <2>1 DEF IInv, TypeOK, Places
<1>17. WriterSound'
  BY <1>3, <1>4, <1>14 DEF IInv, WriterSound
<1>18. ReaderSound'
  <2>1. ExecutedInOrder'
    BY <1>1 DEF IInv, ReaderSound, ExecutedInOrder
  <2>2. reader # "fetch" \/ cmdbufLen' > 0
    BY <1>1, <1>6, <1>9 DEF IInv, ReaderSound
  <2> QED BY <1>1, <1>14, <2>1, <2>2 DEF IInv, ReaderSound
<1> QED BY <1>3, <1>15, <1>16, <1>17, <1>18 DEF IInv

\* WriteCmd copies the command: it is the last one of the last run.
LEMMA CopyStep ==
    ASSUME IInv, Copy
    PROVE  IInv'
<1>1. /\ WriterAt("copy") \/ (WriterAt("room") /\ ~Rewinds /\ Fits)
      /\ writePos' = writePos + writer.cmd.size /\ WriterGoes("count")
      /\ cmdbufLen' = cmdbufLen /\ terminated' = terminated /\ readPos' = readPos
      /\ reader' = reader /\ written' = written /\ executed' = executed
      /\ blockWrite' = blockWrite /\ timed' = timed
  BY DEF flags, history, Copy
<1>2. buf' = [p \in DOMAIN buf |->
                 IF p \in writePos..writePos + writer.cmd.size - 1
                 THEN Word(Puts + 1, p - writePos + 1) ELSE buf[p]]
  BY DEF Copy, Puts
<1>3. Numbers
  BY StateNumbers
<1>4. SizeOf \in [Nat -> Nat]
  BY StateNumbers
<1>5. writer' \in WriterType /\ writer'.at = "count" /\ writer'.cmd = writer.cmd
  BY <1>1, WriterMoves DEF IInv, Places
<1>6. /\ ~WriterAt("count") /\ writer.cmd \in Command /\ Puts < MaxCommands
      /\ writer.at \in {"copy", "room"} /\ ~WriterAt("rewind")
  BY <1>1 DEF IInv, WriterSound, WriterAt
<1>7. writer.cmd.size \in Nat /\ writer.cmd.size > 0 /\ 2 * writer.cmd.size <= BufSize
  BY <1>6, CommandSizes
<1>8. /\ readPos \in Nat /\ readPos <= BufSize /\ writePos \in Nat /\ writePos <= BufSize
      /\ cmdbufLen \in Nat /\ Puts \in Nat /\ BufSize \in Nat /\ MaxCommands \in Nat
      /\ FirstKept \in Nat /\ 1 <= FirstKept /\ Uncounted = 0 /\ LastCopied = Puts
      /\ LastCopied \in Nat /\ 0 \in Nat
  BY <1>3, <1>6 DEF Numbers, Uncounted, LastCopied
<1>9. WriterAt("room") => /\ writePos + writer.cmd.size <= BufSize
                          /\ cmdbufLen + writer.cmd.size <= BufSize
  <2>1. WriterAt("room") => ~WriterAt("copy")
    BY DEF WriterAt
  <2>2. WriterAt("room") => ~(BufSize - writePos < writer.cmd.size)
    BY <1>1, <2>1 DEF Rewinds, writeRemains
  <2>3. WriterAt("room") => cmdbufLen + writer.cmd.size <= BufSize
    BY <1>1, <2>1 DEF Fits, Needed
  <2> QED BY <1>7, <1>8, <2>2, <2>3
<1>10. /\ Puts' = Puts /\ LastCopied' = Puts + 1 /\ FirstKept' = FirstKept /\ Done' = Done
       /\ SizeOf' = SizeOf /\ Uncounted' = writer.cmd.size
       /\ ~WriterAt("copy")' /\ ~WriterAt("rewind")'
  BY <1>1, <1>5, <1>6 DEF Puts, LastCopied, FirstKept, Done, SizeOf, Uncounted, WriterAt
<1>11. SizeOf[Puts + 1] = writer.cmd.size
  BY <1>6, LengthsOf DEF SizeOf, Puts, IInv, TypeOK
<1>12. buf \in [0..BufSize - 1 -> Cell]
  BY DEF IInv, TypeOK
<1>13. PICK start \in [Nat -> Nat] : Laid(start)
  BY DEF IInv
<1>14. PICK start2 \in [Nat -> Nat] : start2 = [start EXCEPT ![Puts + 1] = writePos]
  BY <1>8
\* The commands so far, and the one that is copied, if it is behind them.
<1>15. ASSUME NEW first \in Nat, NEW last \in Int, NEW lo \in Nat, NEW hi \in Nat,
              Run(start, SizeOf, buf, first, last, lo, hi), last <= Puts,
              hi <= writePos \/ writePos + writer.cmd.size <= lo, hi <= BufSize
       PROVE  /\ Run(start, SizeOf', buf', first, last, lo, hi)
              /\ Run(start2, SizeOf', buf', first, last, lo, hi)
  <2>1. \A p \in lo..hi - 1 : /\ p \in 0..BufSize - 1
                             /\ p \notin writePos..writePos + writer.cmd.size - 1
    BY <1>7, <1>8, <1>15
  <2>2. \A p \in lo..hi - 1 : buf'[p] = buf[p]
    BY <1>2, <1>12, <2>1
  <2>3. \A n \in first..last : start2[n] = start[n]
    BY <1>8, <1>14, <1>15
  <2> QED BY <1>4, <1>10, <1>15, <2>2, <2>3, RunKept
<1>16. ASSUME NEW first \in Nat, NEW lo \in Nat, first <= Puts + 1,
              Run(start, SizeOf, buf, first, Puts, lo, writePos),
              writePos + writer.cmd.size <= BufSize
       PROVE  Run(start2, SizeOf', buf', first, Puts + 1, lo, writePos')
  <2>1. Run(start, SizeOf', buf', first, Puts, lo, writePos)
    <3>1. Puts \in Int /\ Puts <= Puts /\ writePos <= writePos
      BY <1>8
    <3> QED BY <1>8, <1>15, <1>16, <3>1
  <2>2. \A i \in 1..SizeOf'[Puts + 1] : buf'[writePos + i - 1] = Word(Puts + 1, i)
    <3>1. SizeOf'[Puts + 1] = writer.cmd.size
      BY <1>10, <1>11
    <3> SUFFICES ASSUME NEW i \in 1..writer.cmd.size
                 PROVE  buf'[writePos + i - 1] = Word(Puts + 1, i)
      BY <3>1
    <3>2. /\ writePos + i - 1 \in 0..BufSize - 1
          /\ writePos + i - 1 \in writePos..writePos + writer.cmd.size - 1
          /\ (writePos + i - 1) - writePos + 1 = i
      BY <1>7, <1>8, <1>16
    <3> QED BY <1>2, <1>12, <3>2
  <2>3. Run(start2, SizeOf', buf', first, Puts + 1, lo, writePos + SizeOf'[Puts + 1])
    BY <1>4, <1>8, <1>10, <1>14, <1>16, <2>1, <2>2, RunExtended
  <2> QED BY <1>1, <1>10, <1>11, <2>3
<1>17. FirstKept <= Puts + 1
  BY <1>8 DEF IInv, ReaderSound
<1>18. ASSUME InOnePiece(start)
       PROVE  InOnePiece(start2)' /\ writePos' <= BufSize
  <2>1. /\ readPos <= writePos /\ cmdbufLen = writePos - readPos - Uncounted
        /\ Run(start, SizeOf, buf, FirstKept, LastCopied, readPos, writePos)
        /\ reader # "reset" /\ (WriterAt("copy") => writePos = 0)
    BY <1>18 DEF InOnePiece
  <2>2. writePos + writer.cmd.size <= BufSize
    BY <1>1, <1>7, <1>8, <1>9, <2>1
  <2>3. Run(start2, SizeOf', buf', FirstKept', LastCopied', readPos', writePos')
    BY <1>1, <1>8, <1>10, <1>16, <1>17, <2>1, <2>2
  <2>4. readPos' <= writePos' /\ cmdbufLen' = writePos' - readPos' - Uncounted'
    BY <1>1, <1>7, <1>8, <1>10, <2>1
  <2> QED BY <1>1, <1>10, <2>1, <2>2, <2>3, <2>4 DEF InOnePiece
<1>19. ASSUME NEW k \in Nat, NEW e \in 0..BufSize, InTwoPieces(start, k, e)
       PROVE  InTwoPieces(start2, k, e)' /\ writePos' <= BufSize
  <2>1. /\ k \in FirstKept..Puts + 1 /\ readPos <= e /\ e \in Nat /\ e <= BufSize
        /\ cmdbufLen = BufSize - readPos + writePos + ResetLen(e) - Uncounted
        /\ Run(start, SizeOf, buf, FirstKept, k - 1, readPos, e)
        /\ Run(start, SizeOf, buf, k, LastCopied, 0, writePos)
        /\ e < BufSize => buf[e] = Reset
    BY <1>8, <1>19 DEF InTwoPieces
  <2>2. /\ WriterAt("copy") => writePos = 0 /\ writer.cmd.size + ResetLen(e) <= readPos
        /\ reader = "reset" => readPos = e /\ e < BufSize
        /\ reader \in {"handle", "release", "ended"} => FirstKept < k
    BY <1>19 DEF InTwoPieces
  <2>3. ResetLen(e) \in Nat
    BY DEF ResetLen
  <2>4. writePos + writer.cmd.size + ResetLen(e) <= readPos
    BY <1>1, <1>7, <1>8, <1>9, <2>1, <2>2, <2>3
  <2>5. writePos' <= BufSize /\ writePos + writer.cmd.size <= BufSize
    BY <1>1, <1>7, <1>8, <2>3, <2>4
  <2>6. Run(start2, SizeOf', buf', FirstKept', k - 1, readPos', e)
    <3>1. k - 1 \in Int /\ k - 1 <= Puts
      BY <1>8, <2>1
    <3>2. writePos + writer.cmd.size <= readPos
      BY <1>7, <1>8, <2>3, <2>4
    <3> QED BY <1>1, <1>8, <1>10, <1>15, <2>1, <3>1, <3>2
  <2>7. Run(start2, SizeOf', buf', k, LastCopied', 0, writePos')
    BY <1>8, <1>10, <1>16, <2>1, <2>5
  <2>8. e < BufSize => buf'[e] = Reset
    <3>1. e < BufSize => /\ e \in 0..BufSize - 1
                         /\ e \notin writePos..writePos + writer.cmd.size - 1
      BY <1>7, <1>8, <2>1, <2>3, <2>4
    <3> QED BY <1>2, <1>12, <2>1, <3>1
  <2>9. /\ k \in FirstKept'..Puts' + 1
        /\ writePos' + ResetLen(e) <= readPos'
        /\ cmdbufLen' = BufSize - readPos' + writePos' + ResetLen(e) - Uncounted'
    BY <1>1, <1>7, <1>8, <1>10, <2>1, <2>3, <2>4
  <2> QED BY <1>1, <1>10, <2>1, <2>2, <2>5, <2>6, <2>7, <2>8, <2>9 DEF InTwoPieces
<1>20. Laid(start2)' /\ writePos' <= BufSize
  BY <1>13, <1>18, <1>19 DEF Laid
<1>21. TypeOK'
  <2>1. writePos' \in 0..BufSize /\ writer'.at \in Places
    BY <1>1, <1>5, <1>7, <1>8, <1>20 DEF Places
  <2>2. buf' \in [0..BufSize - 1 -> Cell]
    <3>1. \A p \in writePos..writePos + writer.cmd.size - 1 :
             Word(Puts + 1, p - writePos + 1) \in Cell
      <4>1. Puts + 1 \in 1..MaxCommands
        BY <1>6, <1>8
      <4>2. \A p \in writePos..writePos + writer.cmd.size - 1 : p - writePos + 1 \in 1..BufSize
        BY <1>7, <1>8
      <4> QED BY <4>1, <4>2 DEF Word, Cell
    <3> QED BY <1>2, <1>12, <3>1
  <2> QED BY <1>1, <2>1, <2>2 DEF IInv, TypeOK, Places
<1>22. WriterSound'
  BY <1>5, <1>6, <1>10 DEF IInv, WriterSound
<1>23. ReaderSound'
  <2>1. ExecutedInOrder'
    BY <1>1 DEF IInv, ReaderSound, ExecutedInOrder
  <2>2. FirstKept' <= LastCopied' + 1
    BY <1>8, <1>10, <1>17
  <2> QED BY <1>1, <1>10, <2>1, <2>2 DEF IInv, ReaderSound
<1> QED BY <1>5, <1>20, <1>21, <1>22, <1>23 DEF IInv

\* WriteCmd adds the size of what it copied to cmdbuf_len: the reader may have it.
LEMMA CountCmdStep ==
    ASSUME IInv, CountCmd
    PROVE  IInv'
<1>1. /\ WriterAt("count") /\ cmdbufLen' = cmdbufLen + writer.cmd.size
      /\ written' = Append(written, writer.cmd)
      /\ writePos' = writePos /\ buf' = buf
      /\ terminated' = terminated /\ readPos' = readPos
      /\ reader' = reader /\ executed' = executed
      /\ blockWrite' = blockWrite /\ timed' = timed
  BY DEF flags, CountCmd
<1>2. Numbers
  BY StateNumbers
<1>3. SizeOf \in [Nat -> Nat]
  BY StateNumbers
<1>4. writer' \in WriterType /\ writer'.at \in {"signal", "out"} /\ writer'.cmd = writer.cmd
  <2>1. CASE writer.wasEmpty
    BY <2>1, WriterMoves DEF IInv, Places, CountCmd
  <2>2. CASE ~writer.wasEmpty
    BY <2>2, WriterMoves DEF IInv, Places, CountCmd
  <2> QED BY <2>1, <2>2
<1>5. writer.cmd \in Command /\ Puts < MaxCommands /\ writer.at = "count"
  BY <1>1 DEF IInv, WriterSound, WriterAt
<1>6. writer.cmd.size \in Nat
  BY <1>5, CommandSizes
<1>7. /\ readPos \in Nat /\ readPos <= BufSize /\ writePos \in Nat /\ writePos <= BufSize
      /\ cmdbufLen \in Nat /\ Puts \in Nat /\ BufSize \in Nat /\ MaxCommands \in Nat
      /\ FirstKept \in Nat /\ 1 <= FirstKept /\ Uncounted \in Nat /\ Uncounted = writer.cmd.size
      /\ LastCopied = Puts + 1 /\ LastCopied \in Int /\ LastCopied <= LastCopied /\ 0 \in Nat
  BY <1>1, <1>2 DEF Numbers, Uncounted, LastCopied
<1>8. written \in Seq(Command) /\ executed \in Seq(1..MaxCommands)
  BY DEF IInv, TypeOK
<1>9. /\ written' \in Seq(Command) /\ Len(written') = Len(written) + 1
      /\ \A n \in 1..Len(written) : written'[n] = written[n]
      /\ written'[Len(written) + 1] = writer.cmd
  BY <1>1, <1>5, <1>8
<1>10. /\ Puts' = Puts + 1 /\ LastCopied' = LastCopied /\ FirstKept' = FirstKept
       /\ Done' = Done /\ Uncounted' = 0
       /\ ~WriterAt("copy")' /\ ~WriterAt("rewind")'
       /\ cmdbufLen' = cmdbufLen + Uncounted /\ writePos' = writePos /\ readPos' = readPos
       /\ buf' = buf /\ reader' = reader
  BY <1>1, <1>4, <1>7, <1>9 DEF Puts, LastCopied, FirstKept, Done, Uncounted, WriterAt
<1>11. SizeOf' \in [Nat -> Nat]
  BY <1>4, <1>9, LengthsOf DEF SizeOf, WriterType
<1>12. \A n \in 1..LastCopied : SizeOf'[n] = SizeOf[n]
  <2>1. \A n \in 1..Puts : SizeOf'[n] = written[n].size /\ SizeOf[n] = written[n].size
    <3>1. \A n \in 1..Len(written) : SizeOf[n] = written[n].size
      BY <1>5, <1>8, LengthsOf DEF SizeOf
    <3>2. \A n \in 1..Len(written') : SizeOf'[n] = written'[n].size
      BY <1>4, <1>9, LengthsOf DEF SizeOf, WriterType
    <3>3. Len(written) \in Nat
      BY <1>8
    <3> QED BY <1>9, <3>1, <3>2, <3>3 DEF Puts
  <2>2. SizeOf[Puts + 1] = writer.cmd.size
    BY <1>5, <1>8, LengthsOf DEF SizeOf, Puts
  <2>3. SizeOf'[Puts + 1] = writer.cmd.size
    <3>1. \A n \in 1..Len(written') : SizeOf'[n] = written'[n].size
      BY <1>4, <1>9, LengthsOf DEF SizeOf, WriterType
    <3>2. Puts + 1 \in 1..Len(written')
      BY <1>7, <1>9 DEF Puts
    <3> QED BY <1>9, <3>1, <3>2 DEF Puts
  <2>4. \A n \in 1..LastCopied : n \in 1..Puts \/ n = Puts + 1
    BY <1>7
  <2> QED BY <2>1, <2>2, <2>3, <2>4
<1>13. ASSUME NEW start \in [Nat -> Nat], NEW first \in Nat, NEW last \in Int, NEW lo \in Nat,
              NEW hi \in Nat, Run(start, SizeOf, buf, first, last, lo, hi),
              1 <= first, last <= LastCopied
       PROVE  Run(start, SizeOf', buf', first, last, lo, hi)
  <2>1. \A n \in first..last : SizeOf'[n] = SizeOf[n]
    <3>1. \A n \in first..last : n \in 1..LastCopied
      BY <1>7, <1>13
    <3> QED BY <1>12, <3>1
  <2> QED BY <1>1, <1>3, <1>11, <1>13, <2>1, RunKept
<1>14. PICK start \in [Nat -> Nat] : Laid(start)
  BY DEF IInv
<1>15. ASSUME InOnePiece(start)
       PROVE  InOnePiece(start)' /\ cmdbufLen' <= BufSize
  <2>1. /\ readPos <= writePos /\ cmdbufLen = writePos - readPos - Uncounted
        /\ Run(start, SizeOf, buf, FirstKept, LastCopied, readPos, writePos)
        /\ reader # "reset"
    BY <1>15 DEF InOnePiece
  <2>2. Run(start, SizeOf', buf', FirstKept', LastCopied', readPos', writePos')
    BY <1>7, <1>10, <1>13, <2>1
  <2>3. cmdbufLen' = writePos' - readPos' - Uncounted' /\ cmdbufLen' <= BufSize
    BY <1>7, <1>10, <2>1
  <2> QED BY <1>10, <2>1, <2>2, <2>3 DEF InOnePiece
<1>16. ASSUME NEW k \in Nat, NEW e \in 0..BufSize, InTwoPieces(start, k, e)
       PROVE  InTwoPieces(start, k, e)' /\ cmdbufLen' <= BufSize
  <2>1. /\ k \in FirstKept..Puts + 1 /\ readPos <= e /\ e \in Nat /\ e <= BufSize
        /\ cmdbufLen = BufSize - readPos + writePos + ResetLen(e) - Uncounted
        /\ writePos + ResetLen(e) <= readPos
        /\ Run(start, SizeOf, buf, FirstKept, k - 1, readPos, e)
        /\ Run(start, SizeOf, buf, k, LastCopied, 0, writePos)
        /\ e < BufSize => buf[e] = Reset
    BY <1>7, <1>16 DEF InTwoPieces
  <2>2. /\ reader = "reset" => readPos = e /\ e < BufSize
        /\ reader \in {"handle", "release", "ended"} => FirstKept < k
    BY <1>16 DEF InTwoPieces
  <2>3. ResetLen(e) \in Nat
    BY DEF ResetLen
  <2>4. k - 1 \in Int /\ k - 1 <= LastCopied /\ 1 <= k
    BY <1>7, <2>1
  <2>5. Run(start, SizeOf', buf', FirstKept', k - 1, readPos', e)
    BY <1>7, <1>10, <1>13, <2>1, <2>4
  <2>6. Run(start, SizeOf', buf', k, LastCopied', 0, writePos')
    BY <1>7, <1>10, <1>13, <2>1, <2>4
  <2>7. /\ k \in FirstKept'..Puts' + 1
        /\ cmdbufLen' = BufSize - readPos' + writePos' + ResetLen(e) - Uncounted'
        /\ cmdbufLen' <= BufSize
    BY <1>7, <1>10, <2>1, <2>3
  <2> QED BY <1>10, <2>1, <2>2, <2>5, <2>6, <2>7 DEF InTwoPieces
<1>17. Laid(start)' /\ cmdbufLen' \in 0..BufSize
  <2>1. cmdbufLen' \in Nat
    BY <1>7, <1>10
  <2>2. Laid(start)' /\ cmdbufLen' <= BufSize
    BY <1>14, <1>15, <1>16 DEF Laid
  <2> QED BY <1>7, <2>1, <2>2
<1>18. TypeOK'
  <2>1. writer'.at \in Places
    BY <1>4 DEF Places
  <2>2. written' \in Seq(Command) /\ executed' \in Seq(1..MaxCommands)
    BY <1>1, <1>8, <1>9
  <2> QED BY <1>1, <1>17, <2>1, <2>2 DEF IInv, TypeOK, Places
<1>19. WriterSound'
  BY <1>4, <1>5, <1>7, <1>10 DEF IInv, WriterSound
<1>20. ReaderSound'
  <2>1. ExecutedInOrder'
    <3>1. ExecutedInOrder
      BY DEF IInv, ReaderSound
    <3>2. Len(executed) <= Len(written')
      BY <1>8, <1>9, <3>1 DEF ExecutedInOrder
    <3> QED BY <1>1, <3>1, <3>2 DEF ExecutedInOrder
  <2>2. reader = "fetch" => cmdbufLen' > 0
    BY <1>7, <1>10 DEF IInv, ReaderSound
  <2>3. reader \in {"handle", "release", "ended"} => FirstKept <= Puts + 1
    BY <1>7 DEF IInv, ReaderSound
  <2> QED BY <1>1, <1>10, <2>1, <2>2, <2>3 DEF IInv, ReaderSound
<1> QED BY <1>4, <1>17, <1>18, <1>19, <1>20 DEF IInv

(***************************************************************************)
(* The theorems.                                                           *)
(***************************************************************************)
LEMMA InitIInv == Init => IInv
<1> SUFFICES ASSUME Init PROVE IInv
  OBVIOUS
<1>1. /\ cmdbufLen = 0 /\ terminated = FALSE /\ writePos = 0 /\ readPos = 0
      /\ buf = [p \in 0..BufSize - 1 |-> Garbage] /\ reader = "wait"
      /\ writer = [at |-> "out", cmd |-> NoCommand, wasEmpty |-> FALSE]
      /\ written = <<>> /\ executed = <<>>
      /\ blockWrite \in BOOLEAN /\ timed \in BOOLEAN
  BY DEF Init
<1>2. writer \in WriterType /\ writer.at = "out"
  BY <1>1 DEF WriterType, Places
<1>3. Puts = 0 /\ Done = 0 /\ written \in Seq(Command) /\ executed \in Seq(1..MaxCommands)
  BY <1>1 DEF Puts, Done
<1>4. FirstKept = 1 /\ LastCopied = 0 /\ Uncounted = 0
  BY <1>1, <1>2, <1>3 DEF FirstKept, LastCopied, Uncounted, WriterAt
<1>5. TypeOK
  <2>1. buf \in [0..BufSize - 1 -> Cell]
    BY <1>1 DEF Cell
  <2>2. 0 \in 0..BufSize /\ cmdbufLen = 0 /\ writePos = 0 /\ readPos = 0
    BY <1>1
  <2>3. written \in Seq(Command) /\ executed \in Seq(1..MaxCommands)
    BY <1>3
  <2> QED BY <1>1, <1>2, <2>1, <2>2, <2>3, Zenon DEF TypeOK
<1>6. WriterSound
  BY <1>2, <1>3 DEF WriterSound
<1>7. ReaderSound
  <2>1. ExecutedInOrder
    BY <1>1 DEF ExecutedInOrder
  <2> QED BY <1>1, <1>4, <2>1 DEF ReaderSound
<1>8. PICK start \in [Nat -> Nat] : start = [n \in Nat |-> 0]
  OBVIOUS
<1>9. InOnePiece(start)
  <2>1. Run(start, SizeOf, buf, 1, 0, 0, 0)
    BY RunEmpty
  <2> QED BY <1>1, <1>2, <1>4, <2>1 DEF InOnePiece, WriterAt
<1> QED BY <1>2, <1>5, <1>6, <1>7, <1>9 DEF IInv, Laid

LEMMA NextIInv == IInv /\ [Next]_vars => IInv'
<1> SUFFICES ASSUME IInv, [Next]_vars PROVE IInv'
  OBVIOUS
<1>1. CASE WriteCmd \/ Drop \/ Finish \/ FinishTest \/ FinishWake \/ Signal
  BY <1>1, WriterQuietSteps
<1>2. CASE WaitTest \/ Sleep \/ WakesUnsignalled \/ ReadTest
  BY <1>2, ReaderQuietSteps
<1>3. CASE Rewind
  BY <1>3, RewindStep
<1>4. CASE CountReset
  BY <1>4, CountResetStep
<1>5. CASE Copy
  BY <1>5, CopyStep
<1>6. CASE CountCmd
  BY <1>6, CountCmdStep
<1>7. CASE Fetch
  BY <1>7, FetchStep
<1>8. CASE SkipReset
  BY <1>8, SkipResetStep
<1>9. CASE Handle
  BY <1>9, HandleStep
<1>10. CASE Release
  BY <1>10, ReleaseStep
<1>11. CASE UNCHANGED vars
  <2>1. UNCHANGED <<flags, pipe, writer, reader, history>>
    BY <1>11 DEF vars
  <2>2. /\ UNCHANGED <<blockWrite, timed, cmdbufLen, terminated, buf, writePos, readPos>>
        /\ UNCHANGED <<writer, reader, written, executed>>
    BY <2>1 DEF flags, pipe, history
  <2>3. FirstKept' = FirstKept /\ Puts' = Puts /\ Done' = Done /\ LastCopied' = LastCopied
    BY <2>2 DEF FirstKept, Puts, Done, LastCopied, WriterAt
  <2>4. \E start \in [Nat -> Nat] : Laid(start)'
    <3>1. SameLayout
      BY <2>2, <2>3 DEF SameLayout, WriterAt, IInv
    <3> QED BY <3>1, LaidAsBefore
  <2>5. TypeOK'
    BY <2>2 DEF IInv, TypeOK
  <2>6. WriterSound'
    BY <2>2, <2>3 DEF IInv, WriterSound
  <2>7. ReaderSound'
    <3>1. ExecutedInOrder'
      BY <2>2 DEF IInv, ReaderSound, ExecutedInOrder
    <3> QED BY <2>2, <2>3, <3>1 DEF IInv, ReaderSound
  <2> QED BY <2>2, <2>4, <2>5, <2>6, <2>7 DEF IInv
<1> QED
  BY <1>1, <1>2, <1>3, <1>4, <1>5, <1>6, <1>7, <1>8, <1>9, <1>10, <1>11
     DEF Next, WriterStep, ReaderStep

\* The commands lie in the buffer as the arithmetic of QBufPipe_WriteCmd and
\* QBufPipe_ReadCmds supposes, at every step of both threads.
THEOREM PipeInvariant == Spec => []IInv
BY InitIInv, NextIInv, PTL DEF Spec

\* TypeOK is an invariant: also that cmdbuf_len and the two positions stay between 0
\* and the size of the buffer.
THEOREM PipeTypeOK == Spec => []TypeOK
<1>1. IInv => TypeOK
  BY DEF IInv
<1> QED BY <1>1, PipeInvariant, PTL

\* ExecutedInOrder: each command is executed once, in the order written.
THEOREM PipeExecutedInOrder == Spec => []ExecutedInOrder
<1>1. IInv => ExecutedInOrder
  BY DEF IInv, ReaderSound
<1> QED BY <1>1, PipeInvariant, PTL

\* HandlerReadsWholeCommand: the writer never steps on the reader's toes.
THEOREM PipeHandlerReadsWholeCommand == Spec => []HandlerReadsWholeCommand
<1>1. IInv => HandlerReadsWholeCommand
  <2> SUFFICES ASSUME IInv, reader \in {"handle", "release"}
               PROVE  \A i \in 1..Current.size : buf[readPos + i - 1] = Word(Index, i)
    BY DEF HandlerReadsWholeCommand
  <2>1. \A i \in 1..SizeOf[FirstKept] : buf[readPos + i - 1] = Word(FirstKept, i)
    BY HeadIsWhole
  <2>2. Index = FirstKept /\ Current.size = SizeOf[FirstKept]
    BY HandledIsNext
  <2> QED BY <2>1, <2>2
<1> QED BY <1>1, PipeInvariant, PTL

\* NeverAsserts: what QBufPipe_ReadCmds asserts of cmdbuf_len is true.
THEOREM PipeNeverAsserts == Spec => []NeverAsserts
<1>1. IInv => NeverAsserts
  <2> SUFFICES ASSUME IInv, reader = "release" PROVE Current.size <= cmdbufLen
    BY DEF NeverAsserts, Counted
  <2> QED BY HeadIsWhole, HandledIsNext
<1> QED BY <1>1, PipeInvariant, PTL

\* FinishMeansHandled: QBufPipe_Finish returns only when every command written has been
\* executed, or a handler has ended the reader.
THEOREM PipeFinishMeansHandled == Spec => []FinishMeansHandled
<1>1. IInv => FinishMeansHandled
  <2> SUFFICES ASSUME IInv, WriterAt("finish"), cmdbufLen = 0, ~terminated
               PROVE  Len(executed) = Len(written)
    BY DEF FinishMeansHandled, Handled
  <2>1. Numbers
    BY StateNumbers
  <2>2. SizeOf \in [Nat -> Nat]
    BY StateNumbers
  <2>3. ~WriterAt("count") /\ LastCopied = Puts /\ Uncounted = 0
    BY DEF WriterAt, LastCopied, Uncounted
  <2>4. /\ readPos \in Nat /\ readPos <= BufSize /\ writePos \in Nat /\ BufSize \in Nat
        /\ FirstKept \in Nat /\ 1 <= FirstKept /\ Puts \in Nat /\ Puts \in Int
        /\ Done \in Nat /\ 0 \in Nat
    BY <2>1 DEF Numbers
  <2>5. \A n \in 1..Puts : SizeOf[n] > 0
    BY <2>3, StateNumbers
  <2>6. PICK start \in [Nat -> Nat] : Laid(start)
    BY DEF IInv
  <2>7. FirstKept > Puts
    <3>1. CASE InOnePiece(start)
      <4>1. /\ Run(start, SizeOf, buf, FirstKept, Puts, readPos, writePos)
            /\ readPos = writePos
        <5>1. /\ Run(start, SizeOf, buf, FirstKept, LastCopied, readPos, writePos)
              /\ cmdbufLen = writePos - readPos - Uncounted
          BY <3>1 DEF InOnePiece
        <5> QED BY <2>3, <2>4, <5>1
      <4>2. FirstKept <= Puts => SizeOf[FirstKept] > 0
        BY <2>4, <2>5
      <4> QED BY <2>2, <2>4, <4>1, <4>2, RunBounds
    <3>2. ASSUME NEW k \in Nat, NEW e \in 0..BufSize, InTwoPieces(start, k, e)
          PROVE  FirstKept > Puts
      <4>1. /\ k \in FirstKept..Puts + 1 /\ readPos <= e /\ e \in Nat /\ e <= BufSize
            /\ cmdbufLen = BufSize - readPos + writePos + ResetLen(e) - Uncounted
            /\ Run(start, SizeOf, buf, FirstKept, k - 1, readPos, e)
            /\ Run(start, SizeOf, buf, k, Puts, 0, writePos)
        BY <2>3, <2>4, <3>2 DEF InTwoPieces
      <4>2. ResetLen(e) \in Nat
        BY DEF ResetLen
      <4>3. readPos = e /\ writePos = 0
        BY <2>3, <2>4, <4>1, <4>2
      <4>4. k > Puts
        <5>1. k <= Puts => SizeOf[k] > 0
          BY <2>4, <2>5, <4>1
        <5> QED BY <2>2, <2>4, <4>1, <4>3, <5>1, RunBounds
      <4>5. FirstKept > k - 1
        <5>1. k - 1 \in Int /\ k - 1 <= Puts
          BY <2>4, <4>1
        <5>2. FirstKept <= k - 1 => SizeOf[FirstKept] > 0
          BY <2>4, <2>5, <5>1
        <5> QED BY <2>2, <2>4, <4>1, <4>3, <5>1, <5>2, RunBounds
      <4> QED BY <2>4, <4>1, <4>4, <4>5
    <3> QED BY <2>6, <3>1, <3>2 DEF Laid
  <2>8. reader \notin {"release", "ended"}
    BY <2>4, <2>7 DEF IInv, ReaderSound
  <2>9. Done >= Puts
    BY <2>4, <2>7, <2>8 DEF FirstKept
  <2>10. Len(executed) <= Len(written)
    BY DEF IInv, ReaderSound, ExecutedInOrder
  <2> QED BY <2>4, <2>9, <2>10 DEF Done, Puts
<1> QED BY <1>1, PipeInvariant, PTL

=============================================================================
