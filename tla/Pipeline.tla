------------------------------ MODULE Pipeline ------------------------------
(***************************************************************************)
(* lang.Pipeline and lang.PipelineAsync (pkg/lang/chan_pump.go).  A        *)
(* dispatcher gives each input a result channel of its own and queues the  *)
(* pair for N workers and the channel, in input order, for one writer; the *)
(* workers fill the result channels, the writer drains them one after the  *)
(* other into the output.                                                  *)
(*                                                                         *)
(* An input is its number, and what its transducer (or async function)     *)
(* makes of it is Count results.  A queue longer than its capacity holds   *)
(* the value of its parked sender (module Channel has the detail).         *)
(***************************************************************************)
EXTENDS Naturals, Sequences, FiniteSets

CONSTANTS
  N,        \* parallelism: workers, and capacity of jobs and results
  K,        \* inputs of `from`, which is then closed
  Count,    \* the results of each
  ToCap,    \* capacity of the output
  Modes     \* [async |-> pipeline-async?, close |-> close? given]

Workers == 1..N
Inputs  == 1..K

ASSUME PipelineAssumption ==
  /\ N \in Nat \ {0} /\ K \in Nat /\ ToCap \in Nat
  /\ Count \in [Inputs -> Nat] /\ Modes \subseteq [async : BOOLEAN, close : BOOLEAN]

VARIABLES
  mode,           \* which pipeline this is
  nin,            \* inputs the dispatcher has received
  dpc,            \* the dispatcher: "recv", "job" (sending the last one) or "closed"
  jobs,           \* the jobs channel
  busy,           \* the input each worker has in hand, 0 for none
  gone,           \* the workers that have exited
  filling,        \* the inputs whose result channel is being filled
  sent, read,     \* the results put on each result channel, and taken off it
  full,           \* the result channels closed
  results,        \* the results channel
  resultsClosed,
  cur,            \* the input whose result channel the writer drains, 0 for none
  held,           \* it has a result of it in hand
  nsent, fin,     \* the results of it sent on; the inputs before it
  toq, toClosed,  \* the output
  done,           \* the channel pipeline returned is closed
  out, cut        \* history: all that was sent to the output; its reader closed it

dispatcher == <<nin, dpc>>
workers    == <<busy, gone>>
writer     == <<cur, held, nsent, fin>>
output     == <<toq, toClosed, done, out, cut>>
vars == <<mode, dispatcher, jobs, workers, filling, sent, read, full, results, resultsClosed,
          writer, output>>

TypeOK ==
  /\ mode \in Modes /\ nin \in 0..K /\ dpc \in {"recv", "job", "closed"}
  /\ jobs \in Seq(Inputs) /\ Len(jobs) <= N + 1
  /\ busy \in [Workers -> 0..K] /\ gone \subseteq Workers
  /\ filling \subseteq Inputs /\ full \subseteq Inputs
  /\ sent \in [Inputs -> Nat] /\ read \in [Inputs -> Nat]
  /\ \A i \in Inputs : read[i] <= sent[i] /\ sent[i] <= read[i] + 1
  /\ results \in Seq(Inputs) /\ Len(results) <= N + 1 /\ resultsClosed \in BOOLEAN
  /\ cur \in 0..K /\ held \in BOOLEAN /\ nsent \in Nat /\ fin \in 0..K
  /\ toq \in Seq(Inputs \X Nat) /\ Len(toq) <= ToCap + 1 /\ toClosed \in BOOLEAN
  /\ done \in BOOLEAN /\ cut \in BOOLEAN

Init ==
  /\ mode \in Modes /\ nin = 0 /\ dpc = "recv"
  /\ jobs = <<>> /\ busy = [w \in Workers |-> 0] /\ gone = {}
  /\ filling = {} /\ full = {}
  /\ sent = [i \in Inputs |-> 0] /\ read = [i \in Inputs |-> 0]
  /\ results = <<>> /\ resultsClosed = FALSE
  /\ cur = 0 /\ held = FALSE /\ nsent = 0 /\ fin = 0
  /\ toq = <<>> /\ toClosed = FALSE /\ done = FALSE /\ out = <<>> /\ cut = FALSE
-----------------------------------------------------------------------------
\* Mutant: the dispatcher does not wait for results.
Mut_Recv ==
  /\ dpc = "recv" /\ nin < K
  /\ nin' = nin + 1 /\ dpc' = "job"
  /\ jobs' = Append(jobs, nin')
  /\ UNCHANGED <<mode, workers, filling, sent, read, full, results, resultsClosed, writer, output>>

\* The dispatcher, its last result channel queued, receives an input and sends the
\* job ...
Recv ==
  /\ dpc = "recv" /\ Len(results) <= N /\ nin < K
  /\ nin' = nin + 1 /\ dpc' = "job"
  /\ jobs' = Append(jobs, nin')
  /\ UNCHANGED <<mode, workers, filling, sent, read, full, results, resultsClosed, writer, output>>

\* ... and, the job queued, the result channel.
Enqueue ==
  /\ dpc = "job" /\ Len(jobs) <= N
  /\ results' = Append(results, nin) /\ dpc' = "recv"
  /\ UNCHANGED <<mode, nin, jobs, workers, filling, sent, read, full, resultsClosed, writer, output>>

\* No more inputs: close(jobs).
CloseJobs ==
  /\ dpc = "recv" /\ Len(results) <= N /\ nin = K
  /\ dpc' = "closed"
  /\ UNCHANGED <<mode, nin, jobs, workers, filling, sent, read, full, results, resultsClosed,
                 writer, output>>

\* A worker takes a job and calls fill, which puts the results and closes.
TakeJob(w) ==
  /\ w \notin gone /\ busy[w] = 0 /\ jobs # <<>>
  /\ busy' = [busy EXCEPT ![w] = Head(jobs)] /\ jobs' = Tail(jobs)
  /\ filling' = filling \cup {Head(jobs)}
  /\ UNCHANGED <<mode, dispatcher, gone, sent, read, full, results, resultsClosed, writer, output>>

\* fill returns when it has closed the channel; an async function at once.
FillReturns(w) ==
  /\ busy[w] # 0 /\ (mode.async \/ busy[w] \in full)
  /\ busy' = [busy EXCEPT ![w] = 0]
  /\ UNCHANGED <<mode, dispatcher, jobs, gone, filling, sent, read, full, results, resultsClosed,
                 writer, output>>

WorkerExit(w) ==
  /\ w \notin gone /\ busy[w] = 0 /\ jobs = <<>> /\ dpc = "closed"
  /\ gone' = gone \cup {w}
  /\ UNCHANGED <<mode, dispatcher, jobs, busy, filling, sent, read, full, results, resultsClosed,
                 writer, output>>

\* wg.Wait, then close the results.
CloseResults ==
  /\ gone = Workers /\ ~resultsClosed
  /\ resultsClosed' = TRUE
  /\ UNCHANGED <<mode, dispatcher, jobs, workers, filling, sent, read, full, results, writer, output>>

\* The next result is put on the result channel, of one slot; after the last one it
\* is closed.
Fill(i) ==
  /\ i \in filling /\ sent[i] < Count[i] /\ sent[i] = read[i]
  /\ sent' = [sent EXCEPT ![i] = @ + 1]
  /\ UNCHANGED <<mode, dispatcher, jobs, workers, filling, read, full, results, resultsClosed,
                 writer, output>>

\* Mutant: the result channel is not closed.
Mut_CloseRes(i) ==
  /\ i \in filling /\ sent[i] = Count[i]
  /\ filling' = filling \ {i}
  /\ UNCHANGED <<mode, dispatcher, jobs, workers, sent, read, full, results, resultsClosed,
                 writer, output>>

CloseRes(i) ==
  /\ i \in filling /\ sent[i] = Count[i]
  /\ filling' = filling \ {i} /\ full' = full \cup {i}
  /\ UNCHANGED <<mode, dispatcher, jobs, workers, sent, read, results, resultsClosed, writer, output>>
-----------------------------------------------------------------------------
(***************************************************************************)
(* The writer.                                                             *)
(***************************************************************************)
NextResult ==
  /\ cur = 0 /\ results # <<>>
  /\ cur' = Head(results) /\ results' = Tail(results)
  /\ UNCHANGED <<mode, dispatcher, jobs, workers, filling, sent, read, full, resultsClosed, held,
                 nsent, fin, output>>

\* Its last send has completed.
ToFree == Len(toq) <= ToCap

ReadRes ==
  /\ cur # 0 /\ ~held /\ ToFree /\ read[cur] < sent[cur]
  /\ read' = [read EXCEPT ![cur] = @ + 1] /\ held' = TRUE
  /\ UNCHANGED <<mode, dispatcher, jobs, workers, filling, sent, full, results, resultsClosed,
                 cur, nsent, fin, output>>

SendTo ==
  /\ held /\ ~toClosed
  /\ toq' = Append(toq, <<cur, read[cur]>>) /\ out' = Append(out, <<cur, read[cur]>>)
  /\ nsent' = nsent + 1 /\ held' = FALSE
  /\ UNCHANGED <<mode, dispatcher, jobs, workers, filling, sent, read, full, results,
                 resultsClosed, cur, fin, toClosed, done, cut>>

\* The writer leaves this result channel.
Leave ==
  /\ cur' = 0 /\ held' = FALSE /\ nsent' = 0 /\ fin' = fin + 1
  /\ UNCHANGED <<mode, dispatcher, jobs, workers, filling, sent, read, full, results,
                 resultsClosed, output>>

\* The output is closed: stop forwarding this result.
Abandon == held /\ toClosed /\ Leave

\* Mutant: an empty result channel counts as a finished one.
Mut_EndRes == cur # 0 /\ ~held /\ ToFree /\ read[cur] = sent[cur] /\ Leave

EndRes == cur # 0 /\ ~held /\ ToFree /\ cur \in full /\ read[cur] = sent[cur] /\ Leave

\* results is closed and drained: close the output if asked to, then done.
Finish ==
  /\ cur = 0 /\ results = <<>> /\ resultsClosed /\ ~done
  /\ toClosed' = (toClosed \/ mode.close) /\ done' = TRUE
  /\ UNCHANGED <<mode, dispatcher, jobs, workers, filling, sent, read, full, results, resultsClosed,
                 writer, toq, out, cut>>

\* The reader of the output takes from it, or closes it.
TakeOut ==
  /\ toq # <<>>
  /\ toq' = Tail(toq)
  /\ UNCHANGED <<mode, dispatcher, jobs, workers, filling, sent, read, full, results, resultsClosed,
                 writer, toClosed, done, out, cut>>

CloseOut ==
  /\ ~toClosed
  /\ toClosed' = TRUE /\ cut' = TRUE
  /\ UNCHANGED <<mode, dispatcher, jobs, workers, filling, sent, read, full, results, resultsClosed,
                 writer, toq, done, out>>

Dispatch  == Recv \/ Enqueue \/ CloseJobs
Work(w)   == TakeJob(w) \/ FillReturns(w) \/ WorkerExit(w)
FillRes(i) == Fill(i) \/ CloseRes(i)
Write     == NextResult \/ ReadRes \/ SendTo \/ Abandon \/ EndRes \/ Finish

Next ==
  \/ Dispatch \/ CloseResults \/ Write \/ TakeOut \/ CloseOut
  \/ \E w \in Workers : Work(w)
  \/ \E i \in Inputs : FillRes(i)

Spec == Init /\ [][Next]_vars

\* Go schedules the pipeline's goroutines; an async function goes on to fill and
\* close its channel, as its contract asks.  The reader need do nothing.
FairSpec ==
  /\ Spec
  /\ WF_vars(Dispatch) /\ WF_vars(CloseResults) /\ WF_vars(Write)
  /\ \A w \in Workers : WF_vars(Work(w))
  /\ \A i \in Inputs : WF_vars(FillRes(i))
-----------------------------------------------------------------------------
(***************************************************************************)
(* Properties.                                                             *)
(***************************************************************************)
Sequential == INSTANCE OrderedMap WITH at <- fin + 1, n <- nsent

\* The pipeline implements the sequential map: with any number of workers the
\* results go out in input order, none left out or doubled, and done is closed
\* only after the last one, or after the reader closed the output
\* (chan_pump.go:291-298, 331-333).
InOrder == Sequential!Spec

\* Back-pressure: at any time at most N + 2 inputs have been taken and not
\* finished, so a slow reader stops the dispatcher (chan_pump.go:317-318, 349-350).
BoundedInFlight == nin <= fin + N + 2

\* If the reader keeps taking, done is closed, whether or not it also closes the
\* output.  (A reader that stops taking while the writer is parked on the output
\* leaves done open for ever: closing the output does not wake a parked send,
\* chan.go:184-186, 208.)  The one exception is of the code: the writer leaves a
\* result channel when the output is closed, and the worker of a (synchronous)
\* pipeline that has two or more results still to put is parked on it for ever
\* (chan_pump.go:371-372).
Left(i) == i <= fin /\ ~mode.async /\ read[i] + 1 < Count[i]

Terminates == []<>(toq = <<>>) => <>(done \/ \E i \in Inputs : Left(i))
=============================================================================
