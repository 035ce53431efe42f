-------------------------------- MODULE Exec --------------------------------
(***************************************************************************)
(* One exec command (executor.rs exec, read_bounded): the agent starts a   *)
(* program, feeds its standard input from one task, drains both output     *)
(* pipes from two more, and waits for it with a timeout. Five parties and  *)
(* three bounded pipes; the response needs all of them to come to an end,  *)
(* and the command loop waits for the response.                            *)
(***************************************************************************)
EXTENDS Integers, FiniteSetsExt

CONSTANTS
  PipeSize,  \* what a pipe holds before a writer blocks
  Limit,     \* max_output_bytes
  MaxInput,  \* bound: length of the standard input
  MaxOutput  \* bound: what the program writes to one stream

ASSUME ExecAssumption ==
  /\ PipeSize \in Nat \ {0} /\ Limit \in Nat
  /\ MaxInput \in Nat /\ MaxOutput \in Nat

Streams == {"stdout", "stderr"}
Calls == Streams \cup {"stdin"}

VARIABLES
  pc,        \* exec: "idle", "wait", "kill", "join" or "done"
  timedOut,  \* timed_out of the response
  child,     \* "none", "alive", "exited" or "killed"
  endless,   \* the program never exits by itself
  orphan,    \* a process it has left behind holds the output pipes
  left,      \* left[s]: what the program has yet to read or write
  call,      \* the read or write it is in, "none" if it is in none
  input,     \* what the stdin task has yet to write
  stdin,     \* bytes in the stdin pipe
  pipe,      \* pipe[s]: bytes in an output pipe
  written,   \* written[s]: bytes the program has written to it
  kept,      \* kept[s]: bytes read_bounded has kept
  truncated, \* truncated[s]: its flag
  eof        \* streams whose reader has come to the end

childVars == <<child, endless, orphan, left, call>>
readVars == <<kept, truncated, eof>>
execVars == <<pc, timedOut, childVars, input, stdin, pipe, written, readVars>>

ExecInit ==
  /\ pc = "idle" /\ timedOut = FALSE
  /\ child = "none" /\ endless = FALSE /\ orphan = FALSE
  /\ input = 0 /\ left = [s \in Calls |-> 0]
  /\ call = "none"
  /\ stdin = 0 /\ pipe = [s \in Streams |-> 0] /\ written = [s \in Streams |-> 0]
  /\ kept = [s \in Streams |-> 0] /\ truncated = [s \in Streams |-> FALSE] /\ eof = {}

\* exec spawns a program that takes some of its input, writes some output, in an
\* order of its own, and exits or runs on.
SpawnProgram ==
  /\ pc = "idle" /\ pc' = "wait"
  /\ child' = "alive" /\ endless' \in BOOLEAN
  /\ input' \in 0..MaxInput
  /\ left' \in [Calls -> 0..MaxOutput] /\ left'["stdin"] <= input'
  /\ UNCHANGED <<timedOut, orphan, call, stdin, pipe, written, readVars>>

--------------------------------------------------------------------------
(* The program.                                                            *)

\* It enters its next read or write, and stays in it until that is possible.
EnterCall(s) ==
  /\ child = "alive" /\ call = "none" /\ left[s] > 0
  /\ call' = s
  /\ UNCHANGED <<pc, timedOut, child, endless, orphan, left, input, stdin, pipe, written,
                 readVars>>

ReturnFrom(s) ==
  /\ child = "alive" /\ call = s
  /\ call' = "none" /\ left' = [left EXCEPT ![s] = @ - 1]
  /\ UNCHANGED <<pc, timedOut, child, endless, orphan, readVars>>

ReadsInput ==
  /\ ReturnFrom("stdin") /\ stdin > 0
  /\ stdin' = stdin - 1
  /\ UNCHANGED <<input, pipe, written>>

WritesOutput(s) ==
  /\ ReturnFrom(s) /\ pipe[s] < PipeSize
  /\ pipe' = [pipe EXCEPT ![s] = @ + 1] /\ written' = [written EXCEPT ![s] = @ + 1]
  /\ UNCHANGED <<input, stdin>>

ChildExits ==
  /\ child = "alive" /\ call = "none" /\ ~endless
  /\ \A s \in Calls : left[s] = 0
  /\ child' = "exited"
  /\ UNCHANGED <<pc, timedOut, endless, orphan, left, call, input, stdin, pipe, written, readVars>>

\* It may leave a process behind that has inherited the pipes.
Fork ==
  /\ child = "alive" /\ ~orphan
  /\ orphan' = TRUE
  /\ UNCHANGED <<pc, timedOut, child, endless, left, call, input, stdin, pipe, written, readVars>>

OrphanExits ==
  /\ orphan
  /\ orphan' = FALSE
  /\ UNCHANGED <<pc, timedOut, child, endless, left, call, input, stdin, pipe, written, readVars>>

--------------------------------------------------------------------------
(* The agent's tasks.                                                      *)

\* pipe.write_all(&input): an error, as when the program is gone, is ignored.
FeedInput ==
  /\ input > 0 /\ stdin < PipeSize /\ child = "alive"
  /\ input' = input - 1 /\ stdin' = stdin + 1
  /\ UNCHANGED <<pc, timedOut, childVars, pipe, written, readVars>>

\* Mutant: a buffer that fills up the room exactly counts as cut.
CutAtLimit(take, count) == take <= count

\* truncated |= take < count.
Cut(take, count) == take < count

\* Mutant: a reader with enough leaves the rest in the pipe.
WantsMore(s) == s \notin eof /\ pipe[s] > 0 /\ kept[s] < Limit

\* A reader takes what is there, also when it keeps nothing any more.
Readable(s) == s \notin eof /\ pipe[s] > 0

\* read_bounded: one buffer, of which as much is kept as there is room for.
ReadBuffer(s) ==
  LET take == Min({Limit - kept[s], pipe[s]}) IN
  /\ Readable(s)
  /\ pipe' = [pipe EXCEPT ![s] = 0]
  /\ kept' = [kept EXCEPT ![s] = @ + take]
  /\ truncated' = [truncated EXCEPT ![s] = @ \/ Cut(take, pipe[s])]
  /\ UNCHANGED <<pc, timedOut, childVars, input, stdin, written, eof>>

\* The end of the stream: the pipe is empty and nobody holds its other end.
ReadEnd(s) ==
  /\ s \notin eof /\ pipe[s] = 0 /\ child \in {"exited", "killed"} /\ ~orphan
  /\ eof' = eof \cup {s}
  /\ UNCHANGED <<pc, timedOut, childVars, input, stdin, pipe, written, kept, truncated>>

ChildWaited ==
  /\ pc = "wait" /\ child = "exited"
  /\ pc' = "join"
  /\ UNCHANGED <<timedOut, childVars, input, stdin, pipe, written, readVars>>

\* The timeout has passed; the program may have exited this moment.
TimesOut ==
  /\ pc = "wait"
  /\ pc' = "kill" /\ timedOut' = TRUE
  /\ UNCHANGED <<childVars, input, stdin, pipe, written, readVars>>

\* child.kill() and child.wait(): the program, not what it has started.
Kill ==
  /\ pc = "kill"
  /\ pc' = "join"
  /\ child' = IF child = "alive" THEN "killed" ELSE child
  /\ UNCHANGED <<timedOut, endless, orphan, left, call, input, stdin, pipe, written, readVars>>

\* Both readers are joined and the response is there.
Join ==
  /\ pc = "join" /\ eof = Streams
  /\ pc' = "done"
  /\ UNCHANGED <<timedOut, childVars, input, stdin, pipe, written, readVars>>

--------------------------------------------------------------------------
Program ==
  \/ ReadsInput \/ ChildExits
  \/ \E s \in Calls : EnterCall(s)
  \/ \E s \in Streams : WritesOutput(s)

ExecNext ==
  \/ SpawnProgram \/ Program \/ Fork \/ OrphanExits
  \/ FeedInput \/ ChildWaited \/ TimesOut \/ Kill \/ Join
  \/ \E s \in Streams : ReadBuffer(s) \/ ReadEnd(s)

ExecSpec == ExecInit /\ [][ExecNext]_execVars

\* A program goes on unless it is blocked, and so do the agent's tasks. The
\* timeout may be far away, and a process that was left behind stays as long
\* as it likes.
ExecFairness ==
  /\ WF_execVars(Program) /\ WF_execVars(FeedInput) /\ WF_execVars(ChildWaited) /\ WF_execVars(Kill)
  /\ WF_execVars(Join)
  /\ \A s \in Streams : WF_execVars(ReadBuffer(s)) /\ WF_execVars(ReadEnd(s))

ExecFairSpec == ExecSpec /\ ExecFairness

--------------------------------------------------------------------------
(* Properties.                                                             *)

\* A program that comes to an end is answered without the help of the timeout,
\* whatever it reads and writes in which order, and one that is killed is, too:
\* nobody waits for everybody, as long as no process is left behind for good.
ExecAnswers ==
  <>[]~orphan => ((pc = "wait" /\ ~endless) \/ timedOut ~> pc = "done")

\* The answer holds all the program wrote, up to the limit, and says so if there
\* was more; also the last bytes before an exit or a kill, and exactly at the
\* limit.
AnswerIsExact ==
  pc = "done" => \A s \in Streams :
    /\ kept[s] = Min({written[s], Limit})
    /\ truncated[s] <=> written[s] > Limit
    /\ timedOut \/ left[s] = 0
=============================================================================
