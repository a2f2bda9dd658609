----------------------------- MODULE TaskLogWriter -----------------------------
(***************************************************************************)
(* internal/executor/sse_writer.go: the way of a task's output from its     *)
(* process to the log file and to the stream of events.                     *)
(*                                                                          *)
(* os/exec copies what the process writes, in chunks, to taskLogWriter.Write*)
(* (the copier); that hands each chunk through a pipe to the goroutine      *)
(* scanLines (the scanner), which asks for more only when it holds no whole *)
(* line.  Lines are numbered as the process writes them.  Nobody calls      *)
(* taskLogWriter.Close.                                                     *)
(***************************************************************************)
EXTENDS Naturals, Sequences

CONSTANT MaxLines   \* bound: lines the process writes

VARIABLES
    process,    \* alive, or how it exited: ok or error
    output,     \* the lines the process has written: each is a line, too long for the
                \* scanner's buffer of 1 MB, or partial, the last and without a newline
    copied,     \* lines the scanner has taken
    announced,  \* lines passed to onLine
    logged,     \* lines in the log file
    copier,     \* copying, done or failed
    wait        \* what cmd.Wait returned: none, ok or error

vars == <<process, output, copied, announced, logged, copier, wait>>

Init ==
    /\ process = "alive" /\ copier = "copying" /\ wait = "none"
    /\ output = <<>> /\ copied = 0 /\ announced = 0 /\ logged = 0

written == Len(output)
TooLong(n) == output[n] = "too long"

\* How many of the first n lines end with a newline.
Terminated(n) == IF n > 0 /\ output[n] = "partial" THEN n - 1 ELSE n

\* The process; once nobody copies its output any more, writing kills it.
WriteLine(kind) ==
    /\ process = "alive"
    /\ copier = "copying"
    /\ written < MaxLines
    /\ Terminated(written) = written
    /\ output' = Append(output, kind)
    /\ UNCHANGED <<process, copied, announced, logged, copier, wait>>

ProcessExits(code) ==
    /\ process = "alive"
    /\ process' = code
    /\ UNCHANGED <<output, copied, announced, logged, copier, wait>>

(* Write: a chunk of whole lines is taken when the scanner asks for more.  *)
Write ==
    /\ copier = "copying"
    /\ logged = Terminated(copied)
    /\ copied' \in {n \in copied + 1 .. written : \A l \in copied + 1 .. n : ~TooLong(l)}
    /\ UNCHANGED <<process, output, announced, logged, copier, wait>>

\* Mutant of WriteTooLong: Write does not pass the error on.
WriteIgnoresError ==
    /\ copier = "copying"
    /\ logged = copied
    /\ copied < written
    /\ TooLong(copied + 1)
    /\ copier' = "done"
    /\ UNCHANGED <<process, output, copied, announced, logged, wait>>

\* The scanner gives a line up that is too long and closes the reader and the file;
\* Write returns an error and the copier stops.
WriteTooLong ==
    /\ copier = "copying"
    /\ logged = copied
    /\ copied < written
    /\ TooLong(copied + 1)
    /\ copier' = "failed"
    /\ UNCHANGED <<process, output, copied, announced, logged, wait>>

CopierDone ==
    /\ copier = "copying"
    /\ process # "alive"
    /\ copied = written
    /\ copier' = "done"
    /\ UNCHANGED <<process, output, copied, announced, logged, wait>>

\* Mutant of Announce: the scanner stops once cmd.Wait has returned.
AnnounceWhileRunning ==
    /\ wait = "none"
    /\ announced = logged
    /\ announced < Terminated(copied)
    /\ announced' = announced + 1
    /\ UNCHANGED <<process, output, copied, logged, copier, wait>>

(* scanLines announces a line and then writes it to the file; a last line  *)
(* without a newline stays in its buffer.                                  *)
Announce ==
    /\ announced = logged
    /\ announced < Terminated(copied)
    /\ announced' = announced + 1
    /\ UNCHANGED <<process, output, copied, logged, copier, wait>>

LogLine ==
    /\ logged < announced
    /\ logged' = logged + 1
    /\ UNCHANGED <<process, output, copied, announced, copier, wait>>

\* cmd.Wait waits for the process and for the copier, and reports the copier's
\* error of a process that exited with code 0.
WaitReturns ==
    /\ wait = "none"
    /\ process # "alive"
    /\ copier # "copying"
    /\ wait' = IF copier = "failed" THEN "error" ELSE process
    /\ UNCHANGED <<process, output, copied, announced, logged, copier>>

Scanner == Announce \/ LogLine
Copier == Write \/ WriteTooLong \/ CopierDone

Next == \/ \E kind \in {"line", "too long", "partial"} : WriteLine(kind)
        \/ \E code \in {"ok", "error"} : ProcessExits(code)
        \/ Copier \/ Scanner \/ WaitReturns

Spec == Init /\ [][Next]_vars

------------------------------------------------------------------------------
(* What the writer promises.                                               *)

\* No line is lost in silence: when cmd.Wait reports success, the scanner has every line
\* that ends with a newline, the last chunk's as well, and none was too long for it.  A
\* last line without a newline is not a line yet for the scanner, which has it but, as
\* nobody calls Close, never writes it: its loss is reported by nobody.
LineLossReported ==
    wait = "ok" => \A n \in 1..written : output[n] = "partial" \/ (~TooLong(n) /\ n <= copied)

\* The file catches up: after cmd.Wait has returned, when the task's status says that
\* it is over, every whole line the scanner has taken is still written.
LogCatchesUp == (wait # "none") ~> (logged = Terminated(copied))
==============================================================================
