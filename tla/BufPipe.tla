------------------------------- MODULE BufPipe -------------------------------
(***************************************************************************)
(* The command pipe between two threads (QBufPipe of qcommon/threads.c):   *)
(* one thread writes commands into a ring of bytes, another reads and      *)
(* executes them.  They share cmdbuf_len, which both change atomically,    *)
(* the bytes, the flag terminated and a condition variable.  Every access  *)
(* to these is a step of its own here.                                     *)
(*                                                                         *)
(* Sizes and positions are in words of sizeof( int ), of which the size of *)
(* every command is a multiple.  A cell holds <<n, i>>, the i-th word of   *)
(* the n-th command written, the -1 of a pointer reset, or what malloc     *)
(* left there.  nonempty_mutex is not a variable: it only makes the wake   *)
(* of a thread atomic with respect to its going to sleep.                  *)
(***************************************************************************)
EXTENDS Integers, Sequences

CONSTANTS BufSize,      \* pipe->bufSize
          Sizes,        \* the sizes of the commands
          MaxCommands   \* bound: commands the writer writes

\* A command of size s that does not fit before the end of the buffer needs
\* at most s - 1 words of padding, 1 of the reset and s of its own.
ASSUME BufSizeAssumption ==
    /\ BufSize \in Nat /\ MaxCommands \in Nat
    /\ \A s \in Sizes : s \in Nat \ {0} /\ 2 * s <= BufSize

VARIABLES
    blockWrite,   \* the flag of QBufPipe_Create
    timed,        \* the timeout of QBufPipe_Wait is not Q_THREADS_WAIT_INFINITE
    cmdbufLen, terminated, buf,
    writePos, readPos,
    writer,       \* where the writing thread is, and the locals of QBufPipe_WriteCmd
    reader,       \* where the reading thread is
    written,      \* history: the commands put into the pipe
    executed      \* history: those a handler has executed

flags == <<blockWrite, timed>>
history == <<written, executed>>
pipe == <<cmdbufLen, terminated, buf, writePos, readPos>>
vars == <<flags, pipe, writer, reader, history>>

-----------------------------------------------------------------------------
\* A command is its size and whether its handler returns 0, to end the reader.
Command == [size : Sizes, quits : BOOLEAN]
Word(n, i) == <<n, i>>
Reset == <<0, 0>>
Garbage == <<0, 1>>
Cell == {Reset, Garbage} \cup ((1..MaxCommands) \X (1..BufSize))
NoCommand == [size |-> 0, quits |-> FALSE]

\* QBufPipe_Create, and the thread that reads just started.
Init ==
    /\ blockWrite \in BOOLEAN
    /\ timed \in BOOLEAN
    /\ cmdbufLen = 0
    /\ terminated = FALSE
    /\ buf = [p \in 0..BufSize - 1 |-> Garbage]
    /\ writePos = 0
    /\ readPos = 0
    /\ writer = [at |-> "out", cmd |-> NoCommand, wasEmpty |-> FALSE]
    /\ reader = "wait"
    /\ written = <<>>
    /\ executed = <<>>

\* QCondVar_Wake wakes the reader if it is asleep, and is forgotten if not.
Wake == reader' = IF reader = "asleep" THEN "loop" ELSE reader

WriterAt(place) == writer.at = place
WriterGoes(place) == writer' = [writer EXCEPT !.at = place]

-----------------------------------------------------------------------------
\* The writing thread.

\* QBufPipe_WriteCmd is called.  A command that ends the reader is the last
\* one its users write.
WriteCmd ==
    /\ WriterAt("out")
    /\ ~terminated
    /\ Len(written) < MaxCommands
    /\ \A n \in DOMAIN written : ~written[n].quits
    /\ \E c \in Command :
           writer' = [at |-> "room", cmd |-> c, wasEmpty |-> cmdbufLen = 0]
    /\ UNCHANGED <<flags, pipe, reader, history>>

writeRemains == BufSize - writePos
Rewinds == writeRemains < writer.cmd.size

\* (Mutants: the reset, or what it makes useless as well, is not counted.)
NeededWithoutReset == IF Rewinds THEN writeRemains + writer.cmd.size ELSE writer.cmd.size
NeededWithoutPadding == writer.cmd.size

\* What the command takes: with the reset, that is counted in addition to the
\* words it makes useless, if it is not at the end of the buffer.
Needed ==
    IF writeRemains = 0 \/ ~Rewinds THEN writer.cmd.size
    ELSE 1 + writeRemains + writer.cmd.size
\* (Mutant: off by one.)
FitsOffByOne == cmdbufLen + Needed <= BufSize + 1
Fits == cmdbufLen + Needed <= BufSize

\* There is room: the reset is written, or the command copied.
Rewind ==
    /\ WriterAt("room")
    /\ Rewinds /\ Fits
    /\ IF writeRemains = 0
       THEN /\ WriterGoes("copy")
            /\ writePos' = 0
            /\ UNCHANGED buf
       ELSE /\ WriterGoes("rewind")
            /\ buf' = [buf EXCEPT ![writePos] = Reset]
            /\ UNCHANGED writePos
    /\ UNCHANGED <<flags, cmdbufLen, terminated, readPos, reader, history>>

\* (Mutant: only the words after the reset are counted.)
CountPadding ==
    /\ WriterAt("rewind")
    /\ cmdbufLen' = cmdbufLen + writeRemains
    /\ writePos' = 0
    /\ WriterGoes("copy")
    /\ UNCHANGED <<flags, terminated, buf, readPos, reader, history>>

CountReset ==
    /\ WriterAt("rewind")
    /\ cmdbufLen' = cmdbufLen + 1 + writeRemains
    /\ writePos' = 0
    /\ WriterGoes("copy")
    /\ UNCHANGED <<flags, terminated, buf, readPos, reader, history>>

Copy ==
    /\ WriterAt("copy") \/ (WriterAt("room") /\ ~Rewinds /\ Fits)
    /\ buf' = [p \in DOMAIN buf |->
                  IF p \in writePos..writePos + writer.cmd.size - 1
                  THEN Word(Len(written) + 1, p - writePos + 1) ELSE buf[p]]
    /\ writePos' = writePos + writer.cmd.size
    /\ WriterGoes("count")
    /\ UNCHANGED <<flags, cmdbufLen, terminated, readPos, reader, history>>

CountCmd ==
    /\ WriterAt("count")
    /\ cmdbufLen' = cmdbufLen + writer.cmd.size
    /\ written' = Append(written, writer.cmd)
    /\ WriterGoes(IF writer.wasEmpty THEN "signal" ELSE "out")
    /\ UNCHANGED <<flags, terminated, buf, writePos, readPos, reader, executed>>

Signal ==
    /\ WriterAt("signal")
    /\ Wake
    /\ WriterGoes("out")
    /\ UNCHANGED <<flags, pipe, history>>

\* There is no room, and a pipe that does not block forgets the command.
Drop ==
    /\ WriterAt("room")
    /\ ~Fits /\ ~blockWrite
    /\ WriterGoes("out")
    /\ UNCHANGED <<flags, pipe, reader, history>>

\* QBufPipe_Finish: called, one test of its loop, one wake.
Finish ==
    /\ WriterAt("out")
    /\ WriterGoes("finish")
    /\ UNCHANGED <<flags, pipe, reader, history>>

Handled == cmdbufLen = 0 \/ terminated
FinishTest ==
    /\ WriterAt("finish")
    /\ WriterGoes(IF Handled THEN "out" ELSE "finish wake")
    /\ UNCHANGED <<flags, pipe, reader, history>>

\* (Mutant: it waits without waking the reader.)
FinishYield ==
    /\ WriterAt("finish wake")
    /\ WriterGoes("finish")
    /\ UNCHANGED <<flags, pipe, reader, history>>

FinishWake ==
    /\ WriterAt("finish wake")
    /\ Wake
    /\ WriterGoes("finish")
    /\ UNCHANGED <<flags, pipe, history>>

-----------------------------------------------------------------------------
\* The reading thread.

\* QBufPipe_Wait: the test before it sleeps.
WaitTest ==
    /\ reader = "wait"
    /\ reader' = IF terminated THEN "ended" ELSE IF cmdbufLen = 0 THEN "sleep" ELSE "loop"
    /\ UNCHANGED <<flags, pipe, writer, history>>

Sleep ==
    /\ reader = "sleep"
    /\ reader' = "asleep"
    /\ UNCHANGED <<flags, pipe, writer, history>>

\* (Mutant: only a signal ends the wait.)
SleepsAgain ==
    /\ reader = "asleep"
    /\ reader' = "sleep"
    /\ UNCHANGED <<flags, pipe, writer, history>>

\* The timeout, or a wakeup without a cause.
WakesUnsignalled ==
    /\ reader = "asleep"
    /\ reader' = "loop"
    /\ UNCHANGED <<flags, pipe, writer, history>>

\* QBufPipe_ReadCmds: the test of its loop.
ReadTest ==
    /\ reader = "loop"
    /\ reader' = IF cmdbufLen # 0 /\ ~terminated THEN "fetch" ELSE "wait"
    /\ UNCHANGED <<flags, pipe, writer, history>>

\* The next command is a reset, or one that its handler starts to execute.
HeadPos == IF readPos = BufSize THEN 0 ELSE readPos
Fetch ==
    /\ reader = "fetch"
    /\ reader' = IF buf[HeadPos] = Reset THEN "reset" ELSE "handle"
    /\ readPos' = HeadPos
    /\ UNCHANGED <<flags, cmdbufLen, terminated, buf, writePos, writer, history>>

SkipReset ==
    /\ reader = "reset"
    /\ cmdbufLen' = cmdbufLen - (1 + (BufSize - readPos))
    /\ readPos' = 0
    /\ reader' = "loop"
    /\ UNCHANGED <<flags, terminated, buf, writePos, writer, history>>

\* The command at readPos, the k-th one written.
Index == buf[readPos][1]
Current == IF Index \in DOMAIN written THEN written[Index] ELSE writer.cmd

\* The handler returns.
Handle ==
    /\ reader = "handle"
    /\ executed' = Append(executed, Index)
    /\ terminated' = Current.quits
    /\ reader' = IF Current.quits THEN "ended" ELSE "release"
    /\ UNCHANGED <<flags, cmdbufLen, buf, writePos, readPos, writer, written>>

\* The assertion of QBufPipe_ReadCmds, and the words given back.
Counted == Current.size <= cmdbufLen
Release ==
    /\ reader = "release"
    /\ IF Counted
       THEN /\ readPos' = readPos + Current.size
            /\ cmdbufLen' = cmdbufLen - Current.size
            /\ reader' = "loop"
            /\ UNCHANGED terminated
       ELSE /\ terminated' = TRUE
            /\ reader' = "ended"
            /\ UNCHANGED <<readPos, cmdbufLen>>
    /\ UNCHANGED <<flags, buf, writePos, writer, history>>

-----------------------------------------------------------------------------
WriterStep ==
    \/ Rewind \/ CountReset \/ Copy \/ CountCmd \/ Signal \/ Drop
    \/ FinishTest \/ FinishWake
ReaderStep ==
    \/ WaitTest \/ Sleep \/ ReadTest \/ Fetch \/ SkipReset \/ Handle \/ Release

Next == WriteCmd \/ Finish \/ WriterStep \/ ReaderStep \/ WakesUnsignalled

Spec == Init /\ [][Next]_vars

\* Both threads run, and a wait with a timeout ends.
FairSpec ==
    /\ Spec
    /\ WF_vars(WriterStep)
    /\ WF_vars(ReaderStep)
    /\ WF_vars(timed /\ WakesUnsignalled)

-----------------------------------------------------------------------------
TypeOK ==
    /\ blockWrite \in BOOLEAN /\ timed \in BOOLEAN /\ terminated \in BOOLEAN
    /\ cmdbufLen \in 0..BufSize
    /\ writePos \in 0..BufSize /\ readPos \in 0..BufSize
    /\ buf \in [0..BufSize - 1 -> Cell]
    /\ writer.at \in {"out", "room", "rewind", "copy", "count", "signal",
                     "finish", "finish wake"}
    /\ reader \in {"wait", "sleep", "asleep", "loop", "fetch", "reset", "handle",
                  "release", "ended"}
    /\ written \in Seq(Command)
    /\ executed \in Seq(1..MaxCommands)

\* The handlers execute the commands in the order in which they were written,
\* each once: QBufPipe_WriteCmd keeps the distance between the two ends below
\* the size of the buffer, whatever wraps around.
ExecutedInOrder ==
    /\ executed = [n \in 1..Len(executed) |-> n]
    /\ Len(executed) <= Len(written)

\* While a handler runs, no word of its command is overwritten ("stepping on
\* the reader's toes").
HandlerReadsWholeCommand ==
    reader \in {"handle", "release"} =>
        \A i \in 1..Current.size : buf[readPos + i - 1] = Word(Index, i)

\* The assertion in QBufPipe_ReadCmds never fails.
NeverAsserts == reader = "release" => Counted

\* QBufPipe_Finish "blocks until the reader thread handles all commands or
\* terminates with an error": when its test succeeds, all are executed.
FinishMeansHandled ==
    (WriterAt("finish") /\ Handled) => (Len(executed) = Len(written) \/ terminated)

\* It returns, also when the reader waits without a timeout and the wake of
\* QBufPipe_WriteCmd came too early.
FinishReturns == WriterAt("finish") ~> WriterAt("out")

\* A command that was written is executed, and a writer that waits for room
\* goes on, unless a handler has ended the reader.
WriterBlocked == WriterAt("room") /\ blockWrite /\ ~Fits
Served == terminated \/ (Len(executed) = Len(written) /\ ~WriterBlocked)
CommandsExecuted == []<>Served

\* The same of the pipes whose reader wakes up by itself, as the sound thread.
CommandsExecutedIfTimed == timed => CommandsExecuted
=============================================================================
