------------------------------- MODULE Metrics -------------------------------
(***************************************************************************)
(* fblt-train --wandb: the trainer runs as a child process and appends its *)
(* events to the metrics file, two threads drain the child's stdout and    *)
(* stderr, a third tails the metrics file and logs each event, and the     *)
(* main thread waits for the child, stops the tail and finishes the run.   *)
(*                                                                         *)
(* A line of the file is two characters, its body and its newline, so that *)
(* a read may end inside a line.  The pipes are counted, not read.         *)
(***************************************************************************)
EXTENDS Integers, SequencesExt, FiniteSetsExt

CONSTANTS
    Events,         \* events the trainer writes when it runs to its end
    Unparsable,     \* those json.loads refuses: a loss printed as nan or inf
    Old,            \* lines an earlier run of the same name left in the file
    Prints,         \* writes the trainer makes to each of stdout and stderr
    PipeSize        \* writes a pipe holds

ASSUME MetricsAssumption ==
    /\ {Events, Old, Prints, PipeSize} \subseteq Nat /\ PipeSize > 0
    /\ Unparsable \subseteq 1..Events

Streams == {"stdout", "stderr"}

VARIABLES
    file,           \* characters of the metrics file
    opened,         \* the trainer has opened it
    child,          \* "running", "exited"
    toPrint, pipe,  \* per stream: writes left, and writes in the pipe
    reader,         \* per stream: "reading", "done"
    main,           \* "streaming", "joining", "finished"
    stop_event,     \* set once the trainer has returned
    tail,           \* "poll", "parse", "ended"
    pos, buf,       \* tail_jsonl's position in the file and its partial line
    lines,          \* the whole lines it still has to parse, one after another
    logged          \* events given to run.log, in order
wrapperVars == <<file, opened, child, toPrint, pipe, reader, main, stop_event, tail, pos, buf, lines, logged>>

trainerVars == <<file, opened, child, toPrint>>
mainVars == <<reader, main, stop_event>>
tailVars == <<tail, pos, buf, lines, logged>>

Body(k) == [line |-> k, newline |-> FALSE]
Newline(k) == [line |-> k, newline |-> TRUE]

(* Events written so far; an earlier run's are numbered from -1 down.      *)
Written == Cardinality({k \in 1..Events : Newline(k) \in Range(file)})

WrapperInit ==
    /\ file = [i \in 1..(2 * Old) |-> [line |-> -((i + 1) \div 2), newline |-> i % 2 = 0]]
    /\ opened = FALSE /\ child = "running"
    /\ toPrint = [s \in Streams |-> Prints] /\ pipe = [s \in Streams |-> 0]
    /\ reader = [s \in Streams |-> "reading"]
    /\ main = "streaming" /\ stop_event = FALSE
    /\ tail = "poll" /\ pos = 0 /\ buf = <<>> /\ lines = <<>> /\ logged = <<>>

-----------------------------------------------------------------------------
(* The trainer: fopen(..., "w") truncates, then line-buffered events.      *)
Open ==
    /\ child = "running" /\ ~opened
    /\ opened' = TRUE /\ file' = <<>>
    /\ UNCHANGED <<child, toPrint, pipe, mainVars, tailVars>>

Emit ==
    LET begun == Cardinality({k \in 1..Events : Body(k) \in Range(file)})
    IN  /\ child = "running" /\ opened
        /\ \/ begun > Written /\ file' = Append(file, Newline(begun))
           \/ /\ begun = Written /\ begun < Events
              /\ file' = Append(file, Body(begun + 1))
        /\ UNCHANGED <<opened, child, toPrint, pipe, mainVars, tailVars>>

(* a write to a full pipe blocks *)
Output(s) ==
    /\ child = "running" /\ toPrint[s] > 0 /\ pipe[s] < PipeSize
    /\ toPrint' = [toPrint EXCEPT ![s] = @ - 1]
    /\ pipe' = [pipe EXCEPT ![s] = @ + 1]
    /\ UNCHANGED <<file, opened, child, mainVars, tailVars>>

ChildExits ==
    /\ child = "running"
    /\ opened /\ Written = Events /\ \A s \in Streams : toPrint[s] = 0
    /\ child' = "exited"
    /\ UNCHANGED <<file, opened, toPrint, pipe, mainVars, tailVars>>

(* a fatal error, a signal: the process ends wherever it is *)
Abort ==
    /\ child = "running"
    /\ child' = "exited"
    /\ UNCHANGED <<file, opened, toPrint, pipe, mainVars, tailVars>>

-----------------------------------------------------------------------------
(* _stream_output: one thread per pipe reads until the end of the stream.  *)
OneAfterTheOther(s) ==      \* a plausible slip: stdout to its end, then stderr
    /\ reader[s] = "reading" /\ pipe[s] > 0
    /\ s = "stderr" => reader["stdout"] = "done"
    /\ pipe' = [pipe EXCEPT ![s] = @ - 1]
    /\ UNCHANGED <<trainerVars, mainVars, tailVars>>

Drain(s) ==
    /\ reader[s] = "reading" /\ pipe[s] > 0
    /\ pipe' = [pipe EXCEPT ![s] = @ - 1]
    /\ UNCHANGED <<trainerVars, mainVars, tailVars>>

EndOfStream(s) ==
    /\ reader[s] = "reading" /\ pipe[s] = 0 /\ child = "exited"
    /\ reader' = [reader EXCEPT ![s] = "done"]
    /\ UNCHANGED <<trainerVars, pipe, main, stop_event, tailVars>>

(* main: run_binary returns, then stop.set(), t.join(timeout=5), finish *)
RunBinaryReturns ==
    /\ main = "streaming" /\ \A s \in Streams : reader[s] = "done"
    /\ main' = "joining" /\ stop_event' = TRUE
    /\ UNCHANGED <<trainerVars, pipe, reader, tailVars>>

(* the join ends with the thread, or with its timeout in a slow run.log *)
Finish ==
    /\ main = "joining" /\ tail \in {"ended", "parse"}
    /\ main' = "finished"
    /\ UNCHANGED <<trainerVars, pipe, reader, stop_event, tailVars>>

-----------------------------------------------------------------------------
(***************************************************************************)
(* tail_jsonl.  A read takes what the file holds after pos; nothing when   *)
(* pos lies past the end.  A line that does not parse is put back in front *)
(* of the partial one, with the position moved back by its length.         *)
(***************************************************************************)
Ends(text) == {i \in DOMAIN text : text[i].newline}
LastEnd(text) == Max({0} \cup Ends(text))
Whole(text) == SubSeq(text, 1, LastEnd(text))
Partial(text) == SubSeq(text, LastEnd(text) + 1, Len(text))

(* The line the loop turns to next, and what is left after it.             *)
Line == SubSeq(lines, 1, Min(Ends(lines)))
AfterLine == SubSeq(lines, Min(Ends(lines)) + 1, Len(lines))

Parses(line) ==
    LET k == line[Len(line)].line
    IN  k \notin Unparsable /\ line = <<Body(k), Newline(k)>>

DropsPartial(text) == <<>>      \* a plausible slip: the partial line is forgotten
KeptBack(text) == Partial(text)

StaysPut == pos         \* a plausible slip: the position is not taken up
ReadTo == Len(file)

TailRead ==
    LET chunk == SubSeq(file, pos + 1, Len(file))
    IN  /\ tail = "poll" /\ ~stop_event /\ chunk # <<>>
        /\ pos' = ReadTo
        /\ lines' = Whole(buf \o chunk) /\ buf' = KeptBack(buf \o chunk)
        /\ tail' = "parse"
        /\ UNCHANGED <<trainerVars, pipe, mainVars, logged>>

TailLog ==
    /\ tail = "parse" /\ main # "finished"
    /\ lines # <<>> /\ Parses(Line)
    /\ logged' = Append(logged, Line[1].line)
    /\ lines' = AfterLine
    /\ UNCHANGED <<trainerVars, pipe, mainVars, tail, pos, buf>>

TailPutBack ==
    /\ tail = "parse" /\ main # "finished"
    /\ lines # <<>> /\ ~Parses(Line)
    /\ buf' = Line \o buf /\ pos' = pos - Len(Line)
    /\ lines' = <<>>
    /\ tail' = "poll"
    /\ UNCHANGED <<trainerVars, pipe, mainVars, logged>>

TailNext ==
    /\ tail = "parse" /\ lines = <<>>
    /\ tail' = "poll"
    /\ UNCHANGED <<trainerVars, pipe, mainVars, pos, buf, lines, logged>>

TailEnd ==
    /\ tail = "poll" /\ stop_event
    /\ tail' = "ended"
    /\ UNCHANGED <<trainerVars, pipe, mainVars, pos, buf, lines, logged>>

-----------------------------------------------------------------------------
Trainer == Open \/ Emit \/ ChildExits \/ \E s \in Streams : Output(s)
Main == RunBinaryReturns \/ Finish
TailThread == TailRead \/ TailLog \/ TailPutBack \/ TailNext \/ TailEnd

WrapperNext ==
    \/ Trainer \/ Abort \/ Main \/ TailThread
    \/ \E s \in Streams : Drain(s) \/ EndOfStream(s)

(***************************************************************************)
(* Every thread and the child are scheduled again and again; nothing makes *)
(* the child abort.                                                        *)
(***************************************************************************)
Fairness ==
    /\ WF_wrapperVars(Trainer) /\ WF_wrapperVars(Main) /\ WF_wrapperVars(TailThread)
    /\ \A s \in Streams : WF_wrapperVars(Drain(s) \/ EndOfStream(s))

WrapperSpec == WrapperInit /\ [][WrapperNext]_wrapperVars /\ Fairness

-----------------------------------------------------------------------------
WrapperTypeOK ==
    /\ pos \in 0..(2 * (Events + Old)) /\ pipe \in [Streams -> 0..PipeSize]
    /\ tail \in {"poll", "parse", "ended"} /\ main \in {"streaming", "joining", "finished"}
    /\ Range(logged) \subseteq -Old..Events

(***************************************************************************)
(* Wherever the reads fall in the lines, the events logged are the first   *)
(* ones of the trainer, each once and in order.                            *)
(***************************************************************************)
LoggedInOrder == WrapperTypeOK /\ logged = [k \in 1..Len(logged) |-> k]

(* Whatever the tail has moved past is logged, up to the first line that   *)
(* does not parse: no event falls between two reads.                       *)
ReadIsLogged ==
    tail = "poll" => \A k \in 1..Events :
        Newline(k) \in Range(SubSeq(file, 1, pos)) /\ (\A u \in Unparsable : k < u) => k \in Range(logged)

(* The command ends, whatever the trainer prints and whether it aborts.    *)
Returns == <>(main = "finished")
==============================================================================
