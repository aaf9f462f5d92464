------------------------------ MODULE PumpProofs ------------------------------
(***************************************************************************)
(* The pumps between channels.                                             *)
(*   Pipeline: it implements the sequential map, and bounds the inputs in  *)
(*     flight, for any number of workers, any inputs and any capacity of   *)
(*     the output.  The writer's input, the results channel and the input  *)
(*     the dispatcher has in hand are consecutive inputs, the ones after   *)
(*     the finished ones; what the writer has read of its input it has     *)
(*     sent on, or holds.  How the workers share the jobs does not enter.  *)
(*   PubSub: for any topics, source, subscribers and calls, what the pump  *)
(*     received while a channel was subscribed reaches the channel or is   *)
(*     on its way, after an unsub the channel gets one more value at most, *)
(*     and no channel has more than one parked send of each pump.          *)
(***************************************************************************)
EXTENDS Pipeline, PubSub, FiniteSetTheorems, TLAPS
-------------------------------------------------------------------------------
(***************************************************************************)
(* Pipeline.                                                               *)
(***************************************************************************)
\* The parts of the type invariant: scalars, queues, workers, result channels.
TypeNum  == nin \in 0..K /\ cur \in 0..K /\ nsent \in Nat /\ fin \in 0..K
TypeFlag ==
  /\ mode \in Modes /\ dpc \in {"recv", "job", "closed"}
  /\ resultsClosed \in BOOLEAN /\ held \in BOOLEAN
  /\ toClosed \in BOOLEAN /\ done \in BOOLEAN /\ cut \in BOOLEAN
TypeScalar == TypeNum /\ TypeFlag
TypeJobs    == jobs \in Seq(Inputs) /\ Len(jobs) <= N + 1
TypeResults == results \in Seq(Inputs) /\ Len(results) <= N + 1
TypeTo      == toq \in Seq(Inputs \X Nat) /\ Len(toq) <= ToCap + 1
TypeWorkers == busy \in [Workers -> 0..K] /\ gone \subseteq Workers
TypeFill ==
  /\ filling \subseteq Inputs /\ full \subseteq Inputs
  /\ sent \in [Inputs -> Nat] /\ read \in [Inputs -> Nat]
  /\ \A i \in Inputs : read[i] <= sent[i] /\ sent[i] <= read[i] + 1

\* They make up the type invariant.
LEMMA TypeSplit ==
  TypeOK <=> TypeScalar /\ TypeJobs /\ TypeResults /\ TypeTo /\ TypeWorkers /\ TypeFill
BY DEF TypeOK, TypeScalar, TypeNum, TypeFlag, TypeJobs, TypeResults, TypeTo, TypeWorkers, TypeFill

\* What is assumed of the constants.
LEMMA PipeConstants ==
  N \in Nat /\ N > 0 /\ K \in Nat /\ ToCap \in Nat /\ Count \in [Inputs -> Nat]
BY PipelineAssumption

\* An input is a number from 1 to K.
LEMMA InputFacts == \A i \in Nat : i \in Inputs <=> 1 <= i /\ i <= K
BY PipeConstants DEF Inputs

\* The inputs whose result channels the writer has finished or is draining.
Begun == IF cur = 0 THEN fin ELSE fin + 1

\* The dispatcher has an input in hand whose result channel is not queued yet.
InHand == IF dpc = "job" THEN 1 ELSE 0

\* The inputs in flight are consecutive: finished, at the writer, queued, in hand.
QueueOrder ==
  /\ cur # 0 => cur = fin + 1
  /\ \A k \in 1..Len(results) : results[k] = Begun + k
  /\ nin = Begun + Len(results) + InHand

\* The results of the writer's input are sent on as they are read, and those of the
\* later ones have not been touched.
ReadInv ==
  /\ cur = 0 => ~held /\ nsent = 0
  /\ cur # 0 => read[cur] = (IF held THEN nsent + 1 ELSE nsent)
  /\ \A i \in Inputs : i > Begun => read[i] = 0

\* A result channel is closed after its last result.
FillInv == \A i \in Inputs : sent[i] <= Count[i] /\ (i \in full => sent[i] = Count[i])

\* Room for the value of the next send, while the last one may be parked.
RoomInv ==
  /\ dpc # "job" => Len(jobs) <= N
  /\ dpc = "job" => Len(results) <= N
  /\ held => Len(toq) <= ToCap

\* How the pipeline ends: the dispatcher, the workers, the results, the writer.
EndInv ==
  /\ dpc = "closed" => nin = K
  /\ gone # {} => dpc = "closed"
  /\ resultsClosed => gone = Workers
  /\ done => cur = 0 /\ results = <<>> /\ resultsClosed
  /\ cut => toClosed
  /\ toClosed => cut \/ done

Types == TypeScalar /\ TypeJobs /\ TypeResults /\ TypeTo /\ TypeWorkers /\ TypeFill

IInv == Types /\ QueueOrder /\ ReadInv /\ FillInv /\ RoomInv /\ EndInv
-----------------------------------------------------------------------------
\* What Tail leaves of a queue.
LEMMA TailFacts ==
  ASSUME NEW S, NEW q \in Seq(S), q # <<>>
  PROVE  /\ Head(q) \in S /\ Head(q) = q[1] /\ Tail(q) \in Seq(S)
         /\ Len(q) \in Nat \ {0} /\ Len(Tail(q)) = Len(q) - 1
         /\ \A k \in 1..Len(Tail(q)) : Tail(q)[k] = q[k + 1]
OBVIOUS

\* What Append adds to a queue.
LEMMA AppendFacts ==
  ASSUME NEW S, NEW q \in Seq(S), NEW x \in S
  PROVE  /\ Append(q, x) \in Seq(S) /\ Len(Append(q, x)) = Len(q) + 1
         /\ \A k \in 1..Len(q) : Append(q, x)[k] = q[k]
         /\ Append(q, x)[Len(q) + 1] = x
OBVIOUS

\* The numbers the invariant is about.
LEMMA Numbers ==
  ASSUME TypeScalar, TypeJobs, TypeResults, TypeTo
  PROVE  /\ nin \in Nat /\ nin <= K /\ cur \in Nat /\ cur <= K /\ fin \in Nat /\ fin <= K
         /\ nsent \in Nat /\ Len(jobs) \in Nat /\ Len(results) \in Nat /\ Len(toq) \in Nat
         /\ Begun \in Nat /\ InHand \in 0..1 /\ (dpc # "job" => InHand = 0)
<1>1. Len(jobs) \in Nat /\ Len(results) \in Nat /\ Len(toq) \in Nat
  BY DEF TypeJobs, TypeResults, TypeTo
<1>2. nin \in Nat /\ nin <= K /\ cur \in Nat /\ cur <= K /\ fin \in Nat /\ fin <= K /\ nsent \in Nat
  BY PipeConstants DEF TypeScalar, TypeNum
<1> QED
  BY <1>1, <1>2 DEF Begun, InHand

\* The invariant holds at the start.
LEMMA InitInv == Init => IInv
<1> SUFFICES ASSUME Init PROVE IInv
  OBVIOUS
<1> USE PipeConstants DEF Init
<1>1. TypeNum /\ TypeFlag
  <2>1. TypeNum
    BY DEF TypeNum
  <2>2. TypeFlag
    BY DEF TypeFlag
  <2> QED
    BY <2>1, <2>2
<1>2. TypeJobs /\ TypeResults
  BY DEF TypeJobs, TypeResults
<1>3. TypeTo
  BY DEF TypeTo
<1>4. TypeWorkers /\ TypeFill
  BY DEF TypeWorkers, TypeFill
<1>5. QueueOrder /\ ReadInv /\ RoomInv
  BY DEF QueueOrder, ReadInv, RoomInv, Begun, InHand
<1>6. FillInv /\ EndInv
  BY DEF FillInv, EndInv
<1> QED
  BY <1>1, <1>2, <1>3, <1>4, <1>5, <1>6 DEF IInv, Types, TypeScalar

\* The dispatcher receives an input and sends the job.
LEMMA RecvInv == IInv /\ Recv => IInv'
<1> SUFFICES ASSUME IInv, Recv PROVE IInv'
  OBVIOUS
<1> USE PipeConstants DEF IInv, Types, Recv, dispatcher, workers, writer, output
<1>1. nin' \in Inputs /\ nin' \in 0..K /\ Len(jobs) \in Nat
  <2>1. nin \in Nat /\ nin < K /\ nin' = nin + 1 /\ K \in Nat /\ Len(jobs) \in Nat
    BY Numbers
  <2>2. nin' \in 0..K
    BY <2>1
  <2> QED
    BY <2>1, <2>2, InputFacts
<1>2. TypeJobs' /\ Len(jobs') = Len(jobs) + 1
  BY <1>1, AppendFacts DEF TypeJobs, RoomInv
<1>3. TypeScalar'
  BY <1>1 DEF TypeScalar, TypeNum, TypeFlag
<1>4. TypeResults' /\ TypeTo' /\ TypeWorkers' /\ TypeFill' /\ FillInv'
  BY DEF TypeResults, TypeTo, TypeWorkers, TypeFill, FillInv
<1>5. QueueOrder'
  BY Numbers DEF QueueOrder, Begun, InHand
<1>6. ReadInv' /\ RoomInv' /\ EndInv'
  BY DEF ReadInv, RoomInv, EndInv, Begun
<1> QED
  BY <1>2, <1>3, <1>4, <1>5, <1>6

\* The dispatcher queues the result channel.
LEMMA EnqueueInv == IInv /\ Enqueue => IInv'
<1> SUFFICES ASSUME IInv, Enqueue PROVE IInv'
  OBVIOUS
<1> USE PipeConstants DEF IInv, Types, Enqueue, dispatcher, workers, writer, output
<1>1. nin = Begun + Len(results) + 1 /\ InHand' = 0 /\ Begun' = Begun
  BY DEF QueueOrder, InHand, Begun
<1>2. nin \in Inputs /\ Len(results) \in Nat /\ Begun \in Nat
  BY <1>1, Numbers, InputFacts
<1>3. /\ results' \in Seq(Inputs) /\ Len(results') = Len(results) + 1
      /\ results'[Len(results) + 1] = nin
      /\ \A k \in 1..Len(results) : results'[k] = results[k]
  BY <1>2, AppendFacts DEF TypeResults
<1>4. TypeResults'
  BY <1>2, <1>3 DEF TypeResults, RoomInv
<1>5. TypeScalar' /\ TypeJobs' /\ TypeTo' /\ TypeWorkers' /\ TypeFill' /\ FillInv'
  BY DEF TypeScalar, TypeNum, TypeFlag, TypeJobs, TypeTo, TypeWorkers, TypeFill, FillInv
<1>6. QueueOrder'
  <2>1. \A k \in 1..Len(results') : results'[k] = Begun + k
    <3>1. \A k \in 1..Len(results') : k \in 1..Len(results) \/ k = Len(results) + 1
      BY <1>2, <1>3
    <3> QED
      BY <1>1, <1>2, <1>3, <3>1 DEF QueueOrder
  <2> QED
    BY <1>1, <1>2, <1>3, <2>1 DEF QueueOrder
<1>7. ReadInv' /\ RoomInv'
  BY DEF ReadInv, RoomInv, Begun
<1>8. EndInv'
  <2>1. gone = {} /\ ~resultsClosed
    <3>1. Workers # {}
      BY DEF Workers
    <3>2. gone = {}
      BY DEF EndInv
    <3> QED
      BY <3>1, <3>2 DEF EndInv
  <2> QED
    BY <2>1 DEF EndInv
<1> QED
  BY <1>4, <1>5, <1>6, <1>7, <1>8

\* No more inputs.
LEMMA CloseJobsInv == IInv /\ CloseJobs => IInv'
<1> SUFFICES ASSUME IInv, CloseJobs PROVE IInv'
  OBVIOUS
<1> USE DEF IInv, Types, CloseJobs, dispatcher, workers, writer, output
<1>1. TypeScalar' /\ TypeJobs' /\ TypeTo' /\ TypeResults' /\ TypeWorkers' /\ TypeFill' /\ FillInv'
  BY DEF TypeScalar, TypeNum, TypeFlag, TypeJobs, TypeTo, TypeResults, TypeWorkers, TypeFill, FillInv
<1>2. QueueOrder' /\ ReadInv' /\ RoomInv' /\ EndInv'
  BY DEF QueueOrder, InHand, ReadInv, RoomInv, EndInv, Begun
<1> QED
  BY <1>1, <1>2

\* What the workers do, and their end.
LEMMA WorkInv == IInv /\ (CloseResults \/ \E w \in Workers : Work(w)) => IInv'
<1> USE DEF IInv, Types, dispatcher, workers, writer, output
<1>1. ASSUME IInv, CloseResults PROVE IInv'
  <2>1. TypeScalar' /\ TypeJobs' /\ TypeTo' /\ TypeResults' /\ TypeWorkers' /\ TypeFill' /\ FillInv'
    BY <1>1 DEF CloseResults, TypeScalar, TypeNum, TypeFlag, TypeJobs, TypeTo, TypeResults, TypeWorkers, TypeFill,
                FillInv
  <2>2. QueueOrder' /\ ReadInv' /\ RoomInv' /\ EndInv'
    BY <1>1 DEF CloseResults, QueueOrder, InHand, ReadInv, RoomInv, EndInv, Begun
  <2> QED
    BY <2>1, <2>2
<1>2. ASSUME IInv, NEW w \in Workers, TakeJob(w) PROVE IInv'
  <2>1. /\ Head(jobs) \in Inputs /\ jobs' \in Seq(Inputs) /\ Len(jobs') = Len(jobs) - 1
        /\ Len(jobs) \in Nat
    BY <1>2, TailFacts DEF TakeJob, TypeJobs
  <2>2. TypeJobs'
    BY <2>1, PipeConstants, <1>2 DEF TypeJobs
  <2>3. Head(jobs) \in 0..K
    BY <2>1, PipeConstants DEF Inputs
  <2>4. TypeWorkers'
    BY <1>2, <2>3 DEF TakeJob, TypeWorkers
  <2>5. TypeFill'
    BY <1>2, <2>1 DEF TakeJob, TypeFill
  <2>6. TypeScalar' /\ TypeResults' /\ TypeTo' /\ FillInv'
    BY <1>2 DEF TakeJob, TypeScalar, TypeNum, TypeFlag, TypeResults, TypeTo, FillInv
  <2>7. QueueOrder' /\ ReadInv' /\ EndInv'
    BY <1>2 DEF TakeJob, QueueOrder, Begun, InHand, ReadInv, EndInv
  <2>8. RoomInv'
    BY <1>2, <2>1, PipeConstants DEF TakeJob, RoomInv
  <2> QED
    BY <2>2, <2>4, <2>5, <2>6, <2>7, <2>8
<1>3. ASSUME IInv, NEW w \in Workers, FillReturns(w) \/ WorkerExit(w) PROVE IInv'
  <2>1. UNCHANGED <<mode, nin, dpc, jobs, filling, sent, read, full, results, resultsClosed, cur,
                    held, nsent, fin, toq, toClosed, done, out, cut>>
    BY <1>3 DEF FillReturns, WorkerExit
  <2>2. TypeWorkers'
    BY <1>3, PipeConstants DEF FillReturns, WorkerExit, TypeWorkers
  <2>3. TypeScalar' /\ TypeJobs' /\ TypeTo' /\ TypeResults' /\ TypeFill' /\ FillInv'
    BY <1>3, <2>1 DEF TypeScalar, TypeNum, TypeFlag, TypeJobs, TypeTo, TypeResults, TypeFill, FillInv
  <2>4. QueueOrder' /\ ReadInv' /\ RoomInv'
    BY <1>3, <2>1 DEF QueueOrder, Begun, InHand, ReadInv, RoomInv
  <2>5. EndInv'
    BY <1>3, <2>1 DEF FillReturns, WorkerExit, EndInv, TypeWorkers
  <2> QED
    BY <2>2, <2>3, <2>4, <2>5
<1> QED
  BY <1>1, <1>2, <1>3 DEF Work

\* A result channel gets its next result, or is closed.
LEMMA FillResInv == IInv /\ (\E i \in Inputs : FillRes(i)) => IInv'
<1> SUFFICES ASSUME IInv, NEW i \in Inputs, FillRes(i) PROVE IInv'
  OBVIOUS
<1> USE PipeConstants DEF IInv, Types, FillRes, dispatcher, workers, writer, output
<1>1. TypeFill'
  <2>1. CASE Fill(i)
    BY <2>1 DEF Fill, TypeFill
  <2>2. CASE CloseRes(i)
    BY <2>2 DEF CloseRes, TypeFill
  <2> QED
    BY <2>1, <2>2
<1>2. FillInv'
  <2>1. CASE Fill(i)
    BY <2>1 DEF Fill, TypeFill, FillInv
  <2>2. CASE CloseRes(i)
    BY <2>2 DEF CloseRes, TypeFill, FillInv
  <2> QED
    BY <2>1, <2>2
<1>3. UNCHANGED <<mode, nin, dpc, jobs, busy, gone, read, results, resultsClosed, cur, held, nsent,
                  fin, toq, toClosed, done, out, cut>>
  BY DEF Fill, CloseRes
<1>4. TypeScalar' /\ TypeJobs' /\ TypeTo' /\ TypeResults' /\ TypeWorkers'
  BY <1>3 DEF TypeScalar, TypeNum, TypeFlag, TypeJobs, TypeTo, TypeResults, TypeWorkers
<1>5. QueueOrder' /\ ReadInv' /\ RoomInv' /\ EndInv'
  BY <1>3 DEF QueueOrder, Begun, InHand, ReadInv, RoomInv, EndInv
<1> QED
  BY <1>1, <1>2, <1>4, <1>5

\* The writer takes the next result channel.
LEMMA NextResultInv == IInv /\ NextResult => IInv'
<1> SUFFICES ASSUME IInv, NextResult PROVE IInv'
  OBVIOUS
<1> USE PipeConstants DEF IInv, Types, NextResult, dispatcher, workers, writer, output
<1>1. /\ Head(results) \in Inputs /\ Head(results) = results[1] /\ results' \in Seq(Inputs)
      /\ Len(results) \in Nat \ {0} /\ Len(results') = Len(results) - 1
      /\ \A k \in 1..Len(results') : results'[k] = results[k + 1]
  BY TailFacts DEF TypeResults
<1>2. cur' = fin + 1 /\ cur' # 0 /\ Begun' = fin + 1 /\ Begun = fin /\ fin \in Nat
  BY <1>1, Numbers DEF QueueOrder, Begun
<1>3. cur' \in 0..K
  BY <1>1 DEF Inputs
<1>4. TypeResults'
  BY <1>1 DEF TypeResults
<1>5. TypeScalar' /\ TypeJobs' /\ TypeTo' /\ TypeWorkers' /\ TypeFill' /\ FillInv'
  BY <1>3 DEF TypeScalar, TypeNum, TypeFlag, TypeJobs, TypeTo, TypeWorkers, TypeFill, FillInv
<1>6. QueueOrder'
  <2>1. \A k \in 1..Len(results') : k + 1 \in 1..Len(results)
    BY <1>1
  <2>2. \A k \in 1..Len(results') : results'[k] = fin + 1 + k
    BY <1>1, <1>2, <2>1 DEF QueueOrder
  <2>3. nin' = fin + 1 + Len(results') + InHand'
    BY <1>1, <1>2, Numbers DEF QueueOrder, InHand
  <2> QED
    BY <1>2, <2>2, <2>3 DEF QueueOrder
<1>7. ReadInv'
  <2>1. read[cur'] = 0
    BY <1>1, <1>2 DEF ReadInv
  <2>2. \A i \in Inputs : i > Begun' => i > Begun
    BY <1>2 DEF Inputs
  <2> QED
    BY <1>2, <2>1, <2>2 DEF ReadInv
<1>8. RoomInv' /\ EndInv'
  BY <1>1 DEF RoomInv, EndInv
<1> QED
  BY <1>4, <1>5, <1>6, <1>7, <1>8

\* The writer's input is the one after the finished ones.
LEMMA WriterAt == IInv /\ cur # 0 => cur \in Inputs /\ cur = fin + 1 /\ Begun = cur
<1> SUFFICES ASSUME IInv, cur # 0 PROVE cur \in Inputs /\ cur = fin + 1 /\ Begun = cur
  OBVIOUS
<1>1. cur \in Nat /\ cur <= K
  BY Numbers DEF IInv, Types
<1> QED
  BY <1>1, InputFacts DEF IInv, QueueOrder, Begun

\* The writer reads a result.
LEMMA ReadResInv == IInv /\ ReadRes => IInv'
<1> SUFFICES ASSUME IInv, ReadRes PROVE IInv'
  OBVIOUS
<1>0. cur \in Inputs /\ cur = fin + 1 /\ Begun = cur
  BY WriterAt DEF ReadRes
<1> USE PipeConstants DEF IInv, Types, ReadRes, ToFree, dispatcher, workers, writer, output
<1>1. TypeFill'
  BY <1>0 DEF TypeFill
<1>2. TypeScalar' /\ TypeJobs' /\ TypeTo' /\ TypeResults' /\ TypeWorkers'
  BY DEF TypeScalar, TypeNum, TypeFlag, TypeJobs, TypeTo, TypeResults, TypeWorkers
<1>3. Begun' = Begun
  BY DEF Begun
<1>4. ReadInv'
  <2>1. \A i \in Inputs : i > Begun => i # cur
    BY <1>0, Numbers
  <2>2. \A i \in Inputs : i # cur => read'[i] = read[i]
    BY DEF TypeFill
  <2>3. read'[cur] = read[cur] + 1 /\ read[cur] \in Nat
    BY <1>0 DEF TypeFill
  <2> QED
    BY <1>3, <2>1, <2>2, <2>3 DEF ReadInv
<1>5. QueueOrder' /\ FillInv' /\ RoomInv' /\ EndInv'
  BY <1>3 DEF QueueOrder, InHand, FillInv, RoomInv, EndInv
<1> QED
  BY <1>1, <1>2, <1>4, <1>5

\* The writer sends the result it holds.
LEMMA SendToInv == IInv /\ SendTo => IInv'
<1> SUFFICES ASSUME IInv, SendTo PROVE IInv'
  OBVIOUS
<1>0. cur # 0 /\ cur \in Inputs /\ cur = fin + 1 /\ Begun = cur
  BY WriterAt DEF SendTo, IInv, ReadInv
<1> USE PipeConstants DEF IInv, Types, SendTo, dispatcher, workers, writer, output
<1>1. <<cur, read[cur]>> \in Inputs \X Nat
  BY <1>0 DEF TypeFill
<1>2. toq' \in Seq(Inputs \X Nat) /\ Len(toq') = Len(toq) + 1 /\ Len(toq) \in Nat
  BY <1>1, AppendFacts DEF TypeTo
<1>3. TypeTo'
  BY <1>2 DEF TypeTo, RoomInv
<1>4. TypeScalar'
  <2>1. TypeNum'
    BY DEF TypeScalar, TypeNum
  <2>2. TypeFlag'
    BY DEF TypeScalar, TypeFlag
  <2> QED
    BY <2>1, <2>2 DEF TypeScalar
<1>5. TypeJobs' /\ TypeResults' /\ TypeWorkers' /\ TypeFill' /\ FillInv'
  BY DEF TypeJobs, TypeResults, TypeWorkers, TypeFill, FillInv
<1>6. Begun' = Begun
  BY DEF Begun
<1>7. ReadInv'
  BY <1>0, <1>6 DEF ReadInv
<1>8. QueueOrder' /\ RoomInv' /\ EndInv'
  BY <1>6 DEF QueueOrder, InHand, RoomInv, EndInv
<1> QED
  BY <1>3, <1>4, <1>5, <1>7, <1>8

\* The writer leaves a result channel.
LEMMA LeaveInv == IInv /\ (Abandon \/ EndRes) => IInv'
<1> SUFFICES ASSUME IInv, Abandon \/ EndRes PROVE IInv'
  OBVIOUS
<1>0. cur # 0 /\ cur \in Inputs /\ cur = fin + 1 /\ Begun = cur /\ Leave
  BY WriterAt DEF Abandon, EndRes, IInv, ReadInv
<1> USE PipeConstants DEF IInv, Types, Leave, dispatcher, workers, writer, output
<1>1. fin' = cur /\ Begun' = Begun /\ fin' \in 0..K
  BY <1>0 DEF Begun, Inputs
<1>2. TypeScalar'
  <2>1. TypeNum'
    BY <1>0, <1>1 DEF TypeScalar, TypeNum
  <2>2. TypeFlag'
    BY <1>0 DEF TypeScalar, TypeFlag
  <2> QED
    BY <2>1, <2>2 DEF TypeScalar
<1>3. TypeJobs' /\ TypeResults' /\ TypeTo' /\ TypeWorkers' /\ TypeFill' /\ FillInv'
  BY <1>0 DEF TypeJobs, TypeResults, TypeTo, TypeWorkers, TypeFill, FillInv
<1>4. QueueOrder' /\ ReadInv' /\ RoomInv' /\ EndInv'
  BY <1>0, <1>1 DEF QueueOrder, InHand, ReadInv, RoomInv, EndInv
<1> QED
  BY <1>2, <1>3, <1>4

\* The writer closes the output if asked to, and done; the reader of the output takes
\* from it or closes it.
LEMMA OutputInv == IInv /\ (Finish \/ TakeOut \/ CloseOut) => IInv'
<1> SUFFICES ASSUME IInv, Finish \/ TakeOut \/ CloseOut PROVE IInv'
  OBVIOUS
<1> USE PipeConstants DEF IInv, Types, dispatcher, workers, writer, output
<1>1. TypeScalar'
  <2>1. CASE Finish
    BY <2>1 DEF Finish, TypeScalar, TypeNum, TypeFlag
  <2>2. CASE TakeOut \/ CloseOut
    BY <2>2 DEF TakeOut, CloseOut, TypeScalar, TypeNum, TypeFlag
  <2> QED
    BY <2>1, <2>2
<1>2. TypeTo' /\ Len(toq') <= Len(toq) /\ Len(toq) \in Nat /\ Len(toq') \in Nat
  <2>1. CASE TakeOut
    <3>1. toq' \in Seq(Inputs \X Nat) /\ Len(toq) \in Nat \ {0} /\ Len(toq') = Len(toq) - 1
      BY <2>1, TailFacts DEF TakeOut, TypeTo
    <3> QED
      BY <3>1 DEF TypeTo
  <2>2. CASE Finish \/ CloseOut
    BY <2>2 DEF Finish, CloseOut, TypeTo
  <2> QED
    BY <2>1, <2>2
<1>3. UNCHANGED <<mode, nin, dpc, jobs, busy, gone, filling, sent, read, full, results,
                  resultsClosed, cur, held, nsent, fin>>
  BY DEF Finish, TakeOut, CloseOut
<1>4. TypeJobs' /\ TypeResults' /\ TypeWorkers' /\ TypeFill' /\ FillInv'
  BY <1>3 DEF TypeJobs, TypeResults, TypeWorkers, TypeFill, FillInv
<1>5. QueueOrder' /\ ReadInv'
  BY <1>3 DEF QueueOrder, Begun, InHand, ReadInv
<1>6. RoomInv'
  BY <1>2, <1>3 DEF RoomInv
<1>7. EndInv'
  <2>1. CASE Finish
    <3>1. cut' => toClosed'
      BY <2>1, Zenon DEF Finish, EndInv
    <3>2. done' /\ cur = 0 /\ results = <<>> /\ resultsClosed
      BY <2>1 DEF Finish
    <3> QED
      BY <1>3, <3>1, <3>2 DEF EndInv
  <2>2. CASE TakeOut
    BY <1>3, <2>2 DEF TakeOut, EndInv
  <2>3. CASE CloseOut
    BY <1>3, <2>3 DEF CloseOut, EndInv
  <2> QED
    BY <2>1, <2>2, <2>3
<1> QED
  BY <1>1, <1>2, <1>4, <1>5, <1>6, <1>7

\* Every step keeps the invariant.
LEMMA NextInv == IInv /\ [Next]_vars => IInv'
<1>1. ASSUME IInv, UNCHANGED vars PROVE IInv'
  <2> USE <1>1 DEF vars, dispatcher, workers, writer, output, IInv, Types
  <2>1. TypeScalar' /\ TypeJobs' /\ TypeResults' /\ TypeTo' /\ TypeWorkers' /\ TypeFill' /\ FillInv'
    BY DEF TypeScalar, TypeNum, TypeFlag, TypeJobs, TypeResults, TypeTo, TypeWorkers, TypeFill, FillInv
  <2>2. QueueOrder' /\ ReadInv' /\ RoomInv' /\ EndInv'
    BY DEF QueueOrder, Begun, InHand, ReadInv, RoomInv, EndInv
  <2> QED
    BY <2>1, <2>2
<1> QED
  BY <1>1, RecvInv, EnqueueInv, CloseJobsInv, WorkInv, FillResInv, NextResultInv, ReadResInv,
     SendToInv, LeaveInv, OutputInv DEF Next, Dispatch, Write

\* The inductive invariant of the pipeline.
THEOREM Invariance == Spec => []IInv
BY InitInv, NextInv, PTL DEF Spec

\* Type correctness, with the capacities of the three channels
\* (chan_pump.go:317-318).
THEOREM TypeCorrect == Spec => []TypeOK
<1>1. IInv => TypeOK
  BY TypeSplit DEF IInv, Types
<1> QED
  BY <1>1, Invariance, PTL

\* Back-pressure: whatever the parallelism and however slow the reader is, at most
\* N + 2 inputs have been taken and not finished (chan_pump.go:317-318, 349-350).
THEOREM BackPressure == Spec => []BoundedInFlight
<1>1. IInv => BoundedInFlight
  <2> SUFFICES ASSUME IInv PROVE BoundedInFlight
    OBVIOUS
  <2>1. Begun <= fin + 1 /\ Begun \in Nat /\ fin \in Nat
    BY Numbers DEF IInv, Types, Begun
  <2>2. Len(results) + InHand <= N + 1 /\ Len(results) \in Nat /\ InHand \in Nat
    BY Numbers, PipeConstants DEF IInv, Types, TypeResults, RoomInv, InHand
  <2> QED
    BY <2>1, <2>2, PipeConstants DEF IInv, QueueOrder, BoundedInFlight
<1> QED
  BY <1>1, Invariance, PTL
-----------------------------------------------------------------------------
(***************************************************************************)
(* The refinement.                                                         *)
(***************************************************************************)
absVars == <<fin + 1, nsent, out, cut, done>>

Abstract == Sequential!Emit \/ Sequential!NextInput \/ Sequential!Cut \/ Sequential!Finish

\* A step of the pipeline is a step of the sequential map, or none.
LEMMA StepSimulation == IInv /\ [Next]_vars => [Abstract]_absVars
<1> SUFFICES ASSUME IInv, [Next]_vars PROVE Abstract \/ UNCHANGED absVars
  OBVIOUS
<1> USE DEF dispatcher, workers, writer, output, absVars, Abstract
<1>1. CASE Dispatch \/ CloseResults \/ TakeOut \/ NextResult \/ ReadRes
  BY <1>1 DEF Dispatch, Recv, Enqueue, CloseJobs, CloseResults, TakeOut, NextResult, ReadRes
<1>2. CASE (\E w \in Workers : Work(w)) \/ (\E i \in Inputs : FillRes(i))
  BY <1>2 DEF Work, TakeJob, FillReturns, WorkerExit, FillRes, Fill, CloseRes
<1>3. CASE SendTo
  <2>1. cur \in Inputs /\ cur = fin + 1 /\ held /\ ~cut /\ read[cur] = nsent + 1
    BY <1>3, WriterAt DEF SendTo, IInv, ReadInv, EndInv
  <2>2. read[cur] <= Count[cur] /\ read[cur] \in Nat
    BY <2>1, PipeConstants DEF IInv, Types, TypeFill, FillInv
  <2>3. nsent < Count[fin + 1] /\ fin + 1 <= K
    BY <2>1, <2>2, PipeConstants, Numbers DEF IInv, Types
  <2> QED
    BY <1>3, <2>1, <2>3 DEF SendTo, Sequential!Emit
<1>4. CASE Abandon
  <2>1. cur \in Inputs /\ cur = fin + 1 /\ cut
    BY <1>4, WriterAt DEF Abandon, IInv, ReadInv, EndInv
  <2>2. fin + 1 <= K
    BY <2>1, Numbers DEF IInv, Types
  <2> QED
    BY <1>4, <2>1, <2>2 DEF Abandon, Leave, Sequential!NextInput
<1>5. CASE EndRes
  <2>1. cur \in Inputs /\ cur = fin + 1 /\ nsent = Count[fin + 1]
    BY <1>5, WriterAt DEF EndRes, IInv, ReadInv, FillInv
  <2>2. fin + 1 <= K
    BY <2>1, Numbers DEF IInv, Types
  <2> QED
    BY <1>5, <2>1, <2>2 DEF EndRes, Leave, Sequential!NextInput
<1>6. CASE Finish
  <2>1. dpc = "closed" /\ nin = K
    BY <1>6, PipeConstants DEF Finish, IInv, EndInv, Workers
  <2>2. Begun = fin /\ Len(results) = 0 /\ InHand = 0
    BY <1>6, <2>1 DEF Finish, Begun, InHand
  <2>3. fin + 1 = K + 1
    BY <2>1, <2>2, Numbers DEF IInv, Types, QueueOrder
  <2> QED
    BY <1>6, <2>3 DEF Finish, Sequential!Finish
<1>7. CASE CloseOut
  BY <1>7 DEF CloseOut, Sequential!Cut
<1>8. CASE UNCHANGED vars
  BY <1>8 DEF vars
<1> QED
  BY <1>1, <1>2, <1>3, <1>4, <1>5, <1>6, <1>7, <1>8 DEF Next, Write

\* The pipeline implements the sequential map: with any number of workers the results
\* go out in input order, none left out or doubled, and done is closed only after the
\* last one, or after the reader closed the output (chan_pump.go:291-298, 331-333).
THEOREM ImplementsOrderedMap == Spec => InOrder
<1>1. Init => Sequential!Init
  BY DEF Init, Sequential!Init
<1> QED
  BY <1>1, Invariance, StepSimulation, PTL
     DEF Spec, InOrder, Sequential!Spec, Abstract, absVars
-------------------------------------------------------------------------------
(***************************************************************************)
(* PubSub.                                                                 *)
(***************************************************************************)
Items(q) == {q[i] : i \in DOMAIN q}

\* The shapes of the variables, the parts of the type invariant without lengths.
PubShape ==
  /\ pump \in {"recv", "route", "exited"} /\ nrecv \in 0..Len(Source)
  /\ topics \subseteq Topics /\ tclosed \subseteq topics /\ tq \in [Topics -> Seq(Values)]
MultShape ==
  /\ mpc \in [Topics -> {"loop", "snapshot", "exited"}]
  /\ mval \in [Topics -> Values \cup {0}] /\ snap \in [Topics -> SUBSET Subs]
  /\ to \in [Topics -> Subs \cup {None}]
TapShape == taps \in [Topics -> SUBSET Subs] /\ closeIt \in [Topics -> SUBSET Subs]
SubShape == box \in [Subs -> Seq(Values)] /\ got \in [Subs -> Seq(Values)] /\ shut \subseteq Subs
ClientShape ==
  /\ ncalls \in [Clients -> Nat] /\ find \in [Clients -> SUBSET Topics]
  /\ \A p \in Clients : ncalls[p] \in 0..Len(Calls[p]) /\ (find[p] # {} => ncalls[p] # 0)
PastShape ==
  /\ due \in [Subs -> SUBSET Values]
  /\ off \subseteq Topics \X Subs /\ late \in [Topics \X Subs -> SUBSET Values]
Shapes == PubShape /\ MultShape /\ TapShape /\ SubShape /\ ClientShape /\ PastShape

\* A pump at work has a value in hand; a topic with taps, or found, was made.
Serving ==
  /\ pump = "route" => nrecv # 0
  /\ \A t \in Topics : snap[t] # {} \/ mpc[t] = "snapshot" => mval[t] \in Values
Found ==
  /\ \A t \in Topics : taps[t] # {} => t \in topics
  /\ \A p \in Clients : find[p] \subseteq topics

\* Where v is on its way to c: got, before the mult's snapshot with c tapped, or in
\* the mult's hands with c in the snapshot.
Coming(t, v) ==
  \/ pump = "route" /\ nrecv = v
  \/ v \in Items(tq[t])
  \/ mpc[t] = "snapshot" /\ mval[t] = v
OnWay(c, t, v) ==
  \/ v \in Items(got[c])
  \/ c \in taps[t] /\ Coming(t, v)
  \/ mpc[t] # "snapshot" /\ mval[t] = v /\ c \in snap[t]
Way ==
  /\ \A c \in Subs : \A v \in due[c] : OnWay(c, Source[v], v)
  /\ \A c \in shut : due[c] = {}

\* A pair that was untapped is in no tap, and in a snapshot only until it is served.
LateAt(t, c) ==
  /\ late[<<t, c>>] # {} => <<t, c>> \in off
  /\ <<t, c>> \in off => c \notin taps[t] /\ (c \in snap[t] => late[<<t, c>>] = {})
  /\ late[<<t, c>>] = {} \/ \E v \in Values : late[<<t, c>>] = {v}
Late == \A t \in Topics, c \in Subs : LateAt(t, c)

\* The inductive invariant behind NothingSkipped and AtMostOneLate.
PubInv == Shapes /\ Serving /\ Found /\ Way /\ Late
-------------------------------------------------------------------------------
\* What is assumed of the constants.
LEMMA PubConstants ==
  /\ Len(Source) \in Nat /\ Values = 1..Len(Source)
  /\ \A v \in Values : Source[v] \in Topics
  /\ \A p \in Clients : /\ Len(Calls[p]) \in Nat
                        /\ \A i \in 1..Len(Calls[p]) :
                             /\ Calls[p][i].topics \subseteq Topics
                             /\ Calls[p][i].op # "unsub-all" => Calls[p][i].ch \in Subs
<1>1. Source \in Seq(Topics) /\ Calls \in [Clients -> Seq(Call)]
  BY PubSubAssumption
<1>2. \A p \in Clients : Calls[p] \in Seq(Call)
  BY <1>1
<1>3. \A k \in Call : k.topics \subseteq Topics /\ (k.op # "unsub-all" => k.ch \in Subs)
  BY DEF Call
<1>4. \A p \in Clients : Len(Calls[p]) \in Nat /\ \A i \in 1..Len(Calls[p]) : Calls[p][i] \in Call
  BY <1>2
<1> QED
  BY <1>1, <1>3, <1>4 DEF Values

LEMMA AppendItems ==
  ASSUME NEW S, NEW q \in Seq(S), NEW x \in S
  PROVE  Append(q, x) \in Seq(S) /\ Items(Append(q, x)) = Items(q) \cup {x}
<1> DEFINE a == Append(q, x)
<1>1. /\ a \in Seq(S) /\ Len(q) \in Nat /\ DOMAIN q = 1..Len(q) /\ DOMAIN a = 1..(Len(q) + 1)
      /\ \A i \in 1..Len(q) : a[i] = q[i]
      /\ a[Len(q) + 1] = x
  OBVIOUS
<1> HIDE DEF a
<1>2. \A i \in DOMAIN a : i \in DOMAIN q \/ i = Len(q) + 1
  BY <1>1
<1>3. Len(q) + 1 \in DOMAIN a /\ \A i \in DOMAIN q : i \in DOMAIN a /\ a[i] = q[i]
  BY <1>1
<1>4. Items(a) = Items(q) \cup {x}
  BY <1>1, <1>2, <1>3 DEF Items
<1> QED
  BY <1>1, <1>4 DEF a

LEMMA TailItems ==
  ASSUME NEW S, NEW q \in Seq(S), q # <<>>
  PROVE  Tail(q) \in Seq(S) /\ Head(q) \in S /\ Items(q) = Items(Tail(q)) \cup {Head(q)}
<1> DEFINE t == Tail(q)
<1>1. /\ t \in Seq(S) /\ Len(q) \in Nat /\ Len(q) > 0 /\ DOMAIN q = 1..Len(q)
      /\ DOMAIN t = 1..(Len(q) - 1) /\ Head(q) = q[1] /\ Head(q) \in S
      /\ \A i \in 1..(Len(q) - 1) : t[i] = q[i + 1]
  OBVIOUS
<1> HIDE DEF t
<1>2. 1 \in DOMAIN q /\ \A i \in DOMAIN t : i + 1 \in DOMAIN q /\ t[i] = q[i + 1]
  BY <1>1
<1>3. \A i \in DOMAIN q : i = 1 \/ (i - 1 \in DOMAIN t /\ t[i - 1] = q[i])
  BY <1>1
<1>4. Items(q) = Items(t) \cup {Head(q)}
  BY <1>1, <1>2, <1>3 DEF Items
<1> QED
  BY <1>1, <1>4 DEF t

\* The invariant holds initially.
LEMMA PubInit == PubSubInit => PubInv
<1> SUFFICES ASSUME PubSubInit PROVE PubInv
  OBVIOUS
<1>1. PubShape /\ MultShape /\ TapShape
  BY PubConstants DEF PubSubInit, PubShape, MultShape, TapShape
<1>2. SubShape /\ PastShape
  BY DEF PubSubInit, SubShape, PastShape
<1>3. ClientShape
  <2>1. \A p \in Clients : 0 \in 0..Len(Calls[p])
    BY PubConstants
  <2> QED
    BY <2>1 DEF PubSubInit, ClientShape
<1>4. Serving /\ Found /\ Way
  BY DEF PubSubInit, Serving, Found, Way
<1>5. Late
  <2>1. \A t \in Topics, c \in Subs : late[<<t, c>>] = {}
    BY DEF PubSubInit
  <2> QED
    BY <2>1 DEF PubSubInit, Late, LateAt
<1> QED
  BY <1>1, <1>2, <1>3, <1>4, <1>5 DEF PubInv, Shapes

\* Steps that leave the groups alone.
LEMMA LateKept ==
  ASSUME Late, UNCHANGED <<off, late>>,
         \A t \in Topics : taps'[t] \subseteq taps[t] /\ snap'[t] \subseteq snap[t]
  PROVE  Late'
<1>1. ASSUME NEW t \in Topics, NEW c \in Subs PROVE LateAt(t, c)'
  <2>1. LateAt(t, c)
    BY DEF Late
  <2> QED
    BY <2>1 DEF LateAt
<1> QED
  BY <1>1 DEF Late

LEMMA WayKept ==
  ASSUME Shapes, Way, \A c \in Subs : due'[c] \subseteq due[c],
         \A c \in Subs, v \in Values : v \in due'[c] /\ OnWay(c, Source[v], v) => OnWay(c, Source[v], v)',
         \A c \in shut' : due'[c] = {}
  PROVE  Way'
<1>1. \A c \in Subs : due[c] \subseteq Values
  BY DEF Shapes, PastShape
<1>2. \A c \in Subs : \A v \in due'[c] : v \in Values /\ OnWay(c, Source[v], v)
  BY <1>1 DEF Way
<1>3. \A c \in Subs : \A v \in due'[c] : OnWay(c, Source[v], v)'
  BY <1>2
<1> QED
  BY <1>3 DEF Way
-------------------------------------------------------------------------------
(***************************************************************************)
(* The pub's pump.                                                         *)
(***************************************************************************)
LEMMA PubRecvStep ==
  ASSUME PubInv, PubRecv
  PROVE  PubInv'
<1>0. Shapes /\ Serving /\ Found /\ Way /\ Late
  BY DEF PubInv
<1>1. /\ pump = "recv" /\ nrecv < Len(Source) /\ nrecv' = nrecv + 1 /\ pump' = "route"
      /\ UNCHANGED <<topics, tq, tclosed, mpc, mval, snap, to, taps, closeIt, box, shut, got,
                     ncalls, find, off, late>>
      /\ due' = [c \in Subs |-> IF c \in taps[Source[nrecv']] \ shut THEN due[c] \cup {nrecv'}
                                ELSE due[c]]
  BY DEF PubRecv, mults, subs, clients
<1>2. nrecv' \in Values /\ nrecv' \in 0..Len(Source)
  BY <1>0, <1>1, PubConstants DEF Shapes, PubShape
<1>3. Shapes'
  <2>1. PubShape' /\ MultShape' /\ TapShape'
    BY <1>0, <1>1, <1>2 DEF Shapes, PubShape, MultShape, TapShape
  <2>2. SubShape' /\ ClientShape'
    BY <1>0, <1>1 DEF Shapes, SubShape, ClientShape
  <2>3. PastShape'
    BY <1>0, <1>1, <1>2 DEF Shapes, PastShape
  <2> QED
    BY <2>1, <2>2, <2>3 DEF Shapes
<1>4. Serving' /\ Found'
  <2>1. nrecv' # 0
    BY <1>2, PubConstants
  <2> QED
    BY <1>0, <1>1, <2>1 DEF Serving, Found
<1>5. Way'
  <2>1. ASSUME NEW c \in Subs, NEW v \in due'[c] PROVE OnWay(c, Source[v], v)'
    <3>1. v \in due[c] \/ (v = nrecv' /\ c \in taps[Source[v]])
      BY <1>1
    <3>2. CASE v \in due[c]
      <4>1. OnWay(c, Source[v], v)
        BY <1>0, <3>2 DEF Way
      <4> QED
        BY <1>1, <4>1 DEF OnWay, Coming, Items
    <3>3. CASE v = nrecv' /\ c \in taps[Source[v]]
      BY <1>1, <3>3 DEF OnWay, Coming
    <3> QED
      BY <3>1, <3>2, <3>3
  <2>2. \A c \in shut' : due'[c] = {}
    BY <1>0, <1>1 DEF Way, Shapes, SubShape
  <2> QED
    BY <2>1, <2>2 DEF Way
<1>6. Late'
  BY <1>0, <1>1, LateKept
<1> QED
  BY <1>3, <1>4, <1>5, <1>6 DEF PubInv

LEMMA PubCloseStep ==
  ASSUME PubInv, PubClose
  PROVE  PubInv'
<1>0. Shapes /\ Serving /\ Found /\ Way /\ Late
  BY DEF PubInv
<1>1. /\ pump = "recv" /\ pump' = "exited" /\ tclosed' = topics
      /\ UNCHANGED <<nrecv, topics, tq, mpc, mval, snap, to, taps, closeIt, box, shut, got,
                     ncalls, find, due, off, late>>
  BY DEF PubClose, mults, subs, clients
<1>2. Shapes'
  <2>1. PubShape' /\ MultShape' /\ TapShape'
    BY <1>0, <1>1 DEF Shapes, PubShape, MultShape, TapShape
  <2>2. SubShape' /\ ClientShape' /\ PastShape'
    BY <1>0, <1>1 DEF Shapes, SubShape, ClientShape, PastShape
  <2> QED
    BY <2>1, <2>2 DEF Shapes
<1>3. Serving' /\ Found'
  BY <1>0, <1>1 DEF Serving, Found
<1>4. Way'
  <2>1. \A c \in Subs, v \in Values : OnWay(c, Source[v], v) => OnWay(c, Source[v], v)'
    BY <1>1 DEF OnWay, Coming, Items
  <2>2. \A c \in shut' : due'[c] = {}
    BY <1>0, <1>1 DEF Way
  <2> QED
    BY <1>0, <1>1, <2>1, <2>2, WayKept
<1>5. Late'
  BY <1>0, <1>1, LateKept
<1> QED
  BY <1>2, <1>3, <1>4, <1>5 DEF PubInv

\* The topic of a value that is due has a tap, so it was made and the value is sent.
LEMMA PubRouteStep ==
  ASSUME PubInv, PubRoute
  PROVE  PubInv'
<1>0. Shapes /\ Serving /\ Found /\ Way /\ Late
  BY DEF PubInv
<1>1. PICK u : u = Source[nrecv]
  OBVIOUS
<1>2. /\ pump = "route" /\ pump' = "recv"
      /\ \/ u \in topics /\ tq' = [tq EXCEPT ![u] = Append(tq[u], nrecv)]
         \/ u \notin topics /\ tq' = tq
      /\ UNCHANGED <<nrecv, topics, tclosed, mpc, mval, snap, to, taps, closeIt, box, shut, got,
                     ncalls, find, due, off, late>>
  BY <1>1 DEF PubRoute, mults, subs, clients
<1>3. tq \in [Topics -> Seq(Values)] /\ topics \subseteq Topics /\ nrecv \in Values /\ u \in Topics
  <2>1. nrecv \in 0..Len(Source) /\ nrecv # 0
    BY <1>0, <1>2 DEF Shapes, PubShape, Serving
  <2>2. nrecv \in Values
    BY <2>1, PubConstants
  <2> QED
    BY <1>0, <1>1, <2>2, PubConstants DEF Shapes, PubShape
<1>4. /\ tq' \in [Topics -> Seq(Values)]
      /\ \A t \in Topics : Items(tq[t]) \subseteq Items(tq'[t])
      /\ u \in topics => nrecv \in Items(tq'[u])
  <2>1. CASE u \in topics
    <3>1. tq' = [tq EXCEPT ![u] = Append(tq[u], nrecv)] /\ tq[u] \in Seq(Values)
      BY <1>2, <1>3, <2>1
    <3>2. Append(tq[u], nrecv) \in Seq(Values) /\ Items(Append(tq[u], nrecv)) = Items(tq[u]) \cup {nrecv}
      BY <1>3, <3>1, AppendItems
    <3>3. tq'[u] = Append(tq[u], nrecv) /\ \A t \in Topics : t # u => tq'[t] = tq[t]
      BY <1>3, <3>1
    <3>4. tq' \in [Topics -> Seq(Values)]
      BY <1>3, <3>1, <3>2
    <3> QED
      BY <3>2, <3>3, <3>4
  <2>2. CASE u \notin topics
    BY <1>2, <1>3, <2>2
  <2> QED
    BY <2>1, <2>2
<1>5. Shapes'
  <2>1. PubShape' /\ MultShape' /\ TapShape'
    BY <1>0, <1>2, <1>4 DEF Shapes, PubShape, MultShape, TapShape
  <2>2. SubShape' /\ ClientShape' /\ PastShape'
    BY <1>0, <1>2 DEF Shapes, SubShape, ClientShape, PastShape
  <2> QED
    BY <2>1, <2>2 DEF Shapes
<1>6. Serving' /\ Found'
  BY <1>0, <1>2 DEF Serving, Found
<1>7. Way'
  <2>1. ASSUME NEW c \in Subs, NEW v \in Values, OnWay(c, Source[v], v)
        PROVE  OnWay(c, Source[v], v)'
    <3>1. Source[v] \in Topics
      BY PubConstants
    <3>2. CASE v \in Items(got[c])
      BY <1>2, <3>2 DEF OnWay, Items
    <3>3. CASE c \in taps[Source[v]] /\ Coming(Source[v], v)
      <4>1. Source[v] \in topics
        BY <1>0, <3>1, <3>3 DEF Found
      <4>2. Coming(Source[v], v)'
        <5>1. Items(tq[Source[v]])' = Items(tq'[Source[v]])
          BY DEF Items
        <5> QED
          BY <1>1, <1>2, <1>4, <3>1, <3>3, <4>1, <5>1 DEF Coming
      <4> QED
        BY <1>2, <3>3, <4>2 DEF OnWay
    <3>4. CASE mpc[Source[v]] # "snapshot" /\ mval[Source[v]] = v /\ c \in snap[Source[v]]
      BY <1>2, <3>4 DEF OnWay
    <3> QED
      BY <2>1, <3>2, <3>3, <3>4 DEF OnWay
  <2>2. \A c \in shut' : due'[c] = {}
    BY <1>0, <1>2 DEF Way
  <2> QED
    BY <1>0, <1>2, <2>1, <2>2, WayKept
<1>8. Late'
  BY <1>0, <1>2, LateKept
<1> QED
  BY <1>5, <1>6, <1>7, <1>8 DEF PubInv
-------------------------------------------------------------------------------
(***************************************************************************)
(* The mults' pumps.                                                       *)
(***************************************************************************)
\* The round before is over: nobody waits for the value that is replaced.
LEMMA MultRecvStep ==
  ASSUME PubInv, NEW u \in Topics, MultRecv(u)
  PROVE  PubInv'
<1>0. Shapes /\ Serving /\ Found /\ Way /\ Late
  BY DEF PubInv
<1>1. PICK h : h = Head(tq[u])
  OBVIOUS
<1>2. /\ mpc[u] = "loop" /\ snap[u] = {} /\ tq[u] # <<>>
      /\ mval' = [mval EXCEPT ![u] = h] /\ tq' = [tq EXCEPT ![u] = Tail(tq[u])]
      /\ mpc' = [mpc EXCEPT ![u] = "snapshot"] /\ to' = [to EXCEPT ![u] = None]
      /\ UNCHANGED <<pump, nrecv, topics, tclosed, snap, taps, closeIt, box, shut, got,
                     ncalls, find, due, off, late>>
  BY <1>1 DEF MultRecv, RoundOver, subs, clients
<1>3. tq \in [Topics -> Seq(Values)] /\ tq[u] \in Seq(Values) /\ MultShape
  BY <1>0 DEF Shapes, PubShape
<1>4. Tail(tq[u]) \in Seq(Values) /\ h \in Values /\ Items(tq[u]) = Items(Tail(tq[u])) \cup {h}
  BY <1>1, <1>2, <1>3, TailItems
<1>5. /\ mval'[u] = h /\ mpc'[u] = "snapshot" /\ tq'[u] = Tail(tq[u])
      /\ \A t \in Topics : t # u => mval'[t] = mval[t] /\ mpc'[t] = mpc[t] /\ tq'[t] = tq[t]
  BY <1>2, <1>3 DEF MultShape
<1>6. Shapes'
  <2>1. PubShape'
    BY <1>0, <1>2, <1>3, <1>4 DEF Shapes, PubShape
  <2>2. MultShape'
    BY <1>2, <1>3, <1>4 DEF MultShape
  <2>3. TapShape' /\ SubShape' /\ ClientShape' /\ PastShape'
    BY <1>0, <1>2 DEF Shapes, TapShape, SubShape, ClientShape, PastShape
  <2> QED
    BY <2>1, <2>2, <2>3 DEF Shapes
<1>7. Serving' /\ Found'
  <2>1. \A t \in Topics : snap'[t] # {} \/ mpc'[t] = "snapshot" => mval'[t] \in Values
    BY <1>0, <1>2, <1>4, <1>5 DEF Serving
  <2> QED
    BY <1>0, <1>2, <2>1 DEF Serving, Found
<1>8. Way'
  <2>1. ASSUME NEW c \in Subs, NEW v \in Values, OnWay(c, Source[v], v)
        PROVE  OnWay(c, Source[v], v)'
    <3>0. Source[v] \in Topics /\ Items(tq[Source[v]])' = Items(tq'[Source[v]])
      BY PubConstants DEF Items
    <3>1. CASE v \in Items(got[c])
      BY <1>2, <3>1 DEF OnWay, Items
    <3>2. CASE c \in taps[Source[v]] /\ Coming(Source[v], v)
      <4>1. CASE Source[v] = u
        <5>1. Coming(Source[v], v)'
          BY <1>2, <1>4, <1>5, <3>0, <3>2, <4>1 DEF Coming
        <5> QED
          BY <1>2, <3>2, <5>1 DEF OnWay
      <4>2. CASE Source[v] # u
        <5>1. Coming(Source[v], v)'
          BY <1>2, <1>5, <3>0, <3>2, <4>2 DEF Coming
        <5> QED
          BY <1>2, <3>2, <5>1 DEF OnWay
      <4> QED
        BY <4>1, <4>2
    <3>3. CASE mpc[Source[v]] # "snapshot" /\ mval[Source[v]] = v /\ c \in snap[Source[v]]
      <4>1. Source[v] # u
        BY <1>2, <3>3
      <4> QED
        BY <1>2, <1>5, <3>0, <3>3, <4>1 DEF OnWay
    <3> QED
      BY <2>1, <3>1, <3>2, <3>3 DEF OnWay
  <2>2. \A c \in shut' : due'[c] = {}
    BY <1>0, <1>2 DEF Way
  <2> QED
    BY <1>0, <1>2, <2>1, <2>2, WayKept
<1>9. Late'
  BY <1>0, <1>2, LateKept
<1> QED
  BY <1>6, <1>7, <1>8, <1>9 DEF PubInv

\* Every tap of the moment is in the snapshot, and no untapped channel is.
LEMMA SnapshotStep ==
  ASSUME PubInv, NEW u \in Topics, Snapshot(u)
  PROVE  PubInv'
<1>0. Shapes /\ Serving /\ Found /\ Way /\ Late
  BY DEF PubInv
<1>1. /\ mpc[u] = "snapshot" /\ snap' = [snap EXCEPT ![u] = taps[u]]
      /\ mpc' = [mpc EXCEPT ![u] = "loop"]
      /\ UNCHANGED <<pump, nrecv, topics, tq, tclosed, mval, to, taps, closeIt, box, shut, got,
                     ncalls, find, due, off, late>>
  BY DEF Snapshot, pubs, subs, clients
<1>2. MultShape /\ taps[u] \in SUBSET Subs
  BY <1>0 DEF Shapes, TapShape
<1>3. /\ mpc'[u] = "loop" /\ snap'[u] = taps[u]
      /\ \A t \in Topics : t # u => mpc'[t] = mpc[t] /\ snap'[t] = snap[t]
  BY <1>1, <1>2 DEF MultShape
<1>4. Shapes'
  <2>1. MultShape'
    BY <1>1, <1>2 DEF MultShape
  <2>2. PubShape' /\ TapShape' /\ SubShape' /\ ClientShape' /\ PastShape'
    BY <1>0, <1>1 DEF Shapes, PubShape, TapShape, SubShape, ClientShape, PastShape
  <2> QED
    BY <2>1, <2>2 DEF Shapes
<1>5. Serving' /\ Found'
  <2>1. \A t \in Topics : snap'[t] # {} \/ mpc'[t] = "snapshot" => mval'[t] \in Values
    BY <1>0, <1>1, <1>3 DEF Serving
  <2> QED
    BY <1>0, <1>1, <2>1 DEF Serving, Found
<1>6. Way'
  <2>1. ASSUME NEW c \in Subs, NEW v \in Values, OnWay(c, Source[v], v)
        PROVE  OnWay(c, Source[v], v)'
    <3>0. Source[v] \in Topics
      BY PubConstants
    <3>1. CASE v \in Items(got[c])
      BY <1>1, <3>1 DEF OnWay, Items
    <3>2. CASE c \in taps[Source[v]] /\ Coming(Source[v], v)
      BY <1>1, <1>3, <3>0, <3>2 DEF OnWay, Coming, Items
    <3>3. CASE mpc[Source[v]] # "snapshot" /\ mval[Source[v]] = v /\ c \in snap[Source[v]]
      BY <1>1, <1>3, <3>0, <3>3 DEF OnWay
    <3> QED
      BY <2>1, <3>1, <3>2, <3>3 DEF OnWay
  <2>2. \A c \in shut' : due'[c] = {}
    BY <1>0, <1>1 DEF Way
  <2> QED
    BY <1>0, <1>1, <2>1, <2>2, WayKept
<1>7. Late'
  <2>1. ASSUME NEW t \in Topics, NEW c \in Subs PROVE LateAt(t, c)'
    <3>1. LateAt(t, c)
      BY <1>0 DEF Late
    <3>2. CASE t = u
      BY <1>1, <1>3, <3>1, <3>2 DEF LateAt
    <3>3. CASE t # u
      BY <1>1, <1>3, <3>1, <3>3 DEF LateAt
    <3> QED
      BY <3>2, <3>3
  <2> QED
    BY <2>1 DEF Late
<1> QED
  BY <1>4, <1>5, <1>6, <1>7 DEF PubInv

\* The round is over: nothing is in the mult's hands when it exits.
LEMMA MultCloseStep ==
  ASSUME PubInv, NEW u \in Topics, MultClose(u)
  PROVE  PubInv'
<1>0. Shapes /\ Serving /\ Found /\ Way /\ Late
  BY DEF PubInv
<1>1. /\ mpc[u] = "loop" /\ mpc' = [mpc EXCEPT ![u] = "exited"]
      /\ shut' = shut \cup (taps[u] \cap closeIt[u])
      /\ due' = [c \in Subs |-> IF c \in shut' THEN {} ELSE due[c]]
      /\ UNCHANGED <<pump, nrecv, topics, tq, tclosed, mval, snap, to, taps, closeIt, box, got,
                     ncalls, find, off, late>>
  BY DEF MultClose, RoundOver, pubs, clients
<1>2. MultShape /\ taps[u] \in SUBSET Subs
  BY <1>0 DEF Shapes, TapShape
<1>3. mpc'[u] = "exited" /\ \A t \in Topics : t # u => mpc'[t] = mpc[t]
  BY <1>1, <1>2 DEF MultShape
<1>4. shut' \subseteq Subs
  BY <1>0, <1>1, <1>2 DEF Shapes, SubShape
<1>5. Shapes'
  <2>1. MultShape'
    BY <1>1, <1>2 DEF MultShape
  <2>2. SubShape' /\ PastShape'
    BY <1>0, <1>1, <1>4 DEF Shapes, SubShape, PastShape
  <2>3. PubShape' /\ TapShape' /\ ClientShape'
    BY <1>0, <1>1 DEF Shapes, PubShape, TapShape, ClientShape
  <2> QED
    BY <2>1, <2>2, <2>3 DEF Shapes
<1>6. Serving' /\ Found'
  <2>1. \A t \in Topics : snap'[t] # {} \/ mpc'[t] = "snapshot" => mval'[t] \in Values
    BY <1>0, <1>1, <1>3 DEF Serving
  <2> QED
    BY <1>0, <1>1, <2>1 DEF Serving, Found
<1>7. Way'
  <2>1. ASSUME NEW c \in Subs, NEW v \in Values, OnWay(c, Source[v], v)
        PROVE  OnWay(c, Source[v], v)'
    <3>0. /\ Source[v] \in Topics /\ (mpc[Source[v]] = "snapshot" => mpc'[Source[v]] = "snapshot")
          /\ (mpc[Source[v]] # "snapshot" => mpc'[Source[v]] # "snapshot")
      BY <1>1, <1>3, PubConstants
    <3> QED
      BY <1>1, <2>1, <3>0 DEF OnWay, Coming, Items
  <2>2. \A c \in shut' : due'[c] = {}
    BY <1>1, <1>4
  <2>3. \A c \in Subs : due'[c] \subseteq due[c]
    BY <1>1
  <2> QED
    BY <1>0, <2>1, <2>2, <2>3, WayKept
<1>8. Late'
  BY <1>0, <1>1, LateKept
<1> QED
  BY <1>5, <1>6, <1>7, <1>8 DEF PubInv

\* A channel leaves the snapshot with the value; an untapped one for good.
LEMMA DeliverStep ==
  ASSUME PubInv, NEW u \in Topics, NEW d \in Subs, Deliver(u, d)
  PROVE  PubInv'
<1>0. Shapes /\ Serving /\ Found /\ Way /\ Late
  BY DEF PubInv
<1>1. PICK x : x = mval[u]
  OBVIOUS
<1>2. /\ mpc[u] = "loop" /\ d \in snap[u]
      /\ box' = [box EXCEPT ![d] = Append(box[d], x)] /\ got' = [got EXCEPT ![d] = Append(got[d], x)]
      /\ snap' = [snap EXCEPT ![u] = snap[u] \ {d}] /\ to' = [to EXCEPT ![u] = d]
      /\ late' = IF <<u, d>> \in off THEN [late EXCEPT ![<<u, d>>] = late[<<u, d>>] \cup {x}] ELSE late
      /\ UNCHANGED <<pump, nrecv, topics, tq, tclosed, mpc, mval, taps, closeIt, shut, ncalls, find,
                     due, off>>
  BY <1>1 DEF Deliver, pubs, clients
<1>3. x \in Values /\ MultShape /\ SubShape /\ PastShape
  BY <1>0, <1>1, <1>2 DEF Serving, Shapes
<1>4. /\ box[d] \in Seq(Values) /\ got[d] \in Seq(Values)
      /\ Append(box[d], x) \in Seq(Values) /\ Append(got[d], x) \in Seq(Values)
      /\ Items(Append(got[d], x)) = Items(got[d]) \cup {x}
  <2>1. box[d] \in Seq(Values) /\ got[d] \in Seq(Values)
    BY <1>3 DEF SubShape
  <2> QED
    BY <1>3, <2>1, AppendItems
<1>5. got'[d] = Append(got[d], x) /\ \A c \in Subs : c # d => got'[c] = got[c]
  BY <1>2, <1>3 DEF SubShape
<1>6. snap'[u] = snap[u] \ {d} /\ \A t \in Topics : t # u => snap'[t] = snap[t]
  BY <1>2, <1>3 DEF MultShape
<1>7. /\ late \in [Topics \X Subs -> SUBSET Values]
      /\ \A t \in Topics, c \in Subs : <<t, c>> # <<u, d>> => late'[<<t, c>>] = late[<<t, c>>]
      /\ late'[<<u, d>>] = IF <<u, d>> \in off THEN late[<<u, d>>] \cup {x} ELSE late[<<u, d>>]
      /\ late' \in [Topics \X Subs -> SUBSET Values]
  <2>1. late \in [Topics \X Subs -> SUBSET Values] /\ <<u, d>> \in Topics \X Subs
    BY <1>3 DEF PastShape
  <2>2. \A t \in Topics, c \in Subs : <<t, c>> \in Topics \X Subs
    OBVIOUS
  <2>3. CASE <<u, d>> \in off
    <3>1. late' = [late EXCEPT ![<<u, d>>] = late[<<u, d>>] \cup {x}]
      BY <1>2, <2>3
    <3>2. late[<<u, d>>] \cup {x} \in SUBSET Values
      BY <1>3, <2>1
    <3>3. late' \in [Topics \X Subs -> SUBSET Values]
      BY <2>1, <3>1, <3>2
    <3>4. late'[<<u, d>>] = late[<<u, d>>] \cup {x}
      BY <2>1, <3>1
    <3>5. \A y \in Topics \X Subs : y # <<u, d>> => late'[y] = late[y]
      BY <2>1, <3>1
    <3> QED
      BY <2>1, <2>2, <2>3, <3>3, <3>4, <3>5
  <2>4. CASE <<u, d>> \notin off
    BY <1>2, <2>1, <2>4
  <2> QED
    BY <2>3, <2>4
<1>8. Shapes'
  <2>1. MultShape'
    BY <1>2, <1>3 DEF MultShape
  <2>2. SubShape'
    BY <1>2, <1>3, <1>4 DEF SubShape
  <2>3. PastShape'
    BY <1>2, <1>3, <1>7 DEF PastShape
  <2>4. PubShape' /\ TapShape' /\ ClientShape'
    BY <1>0, <1>2 DEF Shapes, PubShape, TapShape, ClientShape
  <2> QED
    BY <2>1, <2>2, <2>3, <2>4 DEF Shapes
<1>9. Serving' /\ Found'
  <2>1. \A t \in Topics : snap'[t] # {} \/ mpc'[t] = "snapshot" => mval'[t] \in Values
    BY <1>0, <1>2, <1>6 DEF Serving
  <2> QED
    BY <1>0, <1>2, <2>1 DEF Serving, Found
<1>10. Way'
  <2>1. ASSUME NEW c \in Subs, NEW v \in Values, OnWay(c, Source[v], v)
        PROVE  OnWay(c, Source[v], v)'
    <3>0. Source[v] \in Topics /\ Items(got[c])' = Items(got'[c])
      BY PubConstants DEF Items
    <3>1. Items(got[c]) \subseteq Items(got'[c]) /\ (c = d => x \in Items(got'[c]))
      BY <1>4, <1>5
    <3>2. CASE v \in Items(got[c])
      BY <3>0, <3>1, <3>2 DEF OnWay
    <3>3. CASE c \in taps[Source[v]] /\ Coming(Source[v], v)
      <4>1. Coming(Source[v], v)'
        BY <1>2, <3>3 DEF Coming, Items
      <4> QED
        BY <1>2, <3>3, <4>1 DEF OnWay
    <3>4. CASE mpc[Source[v]] # "snapshot" /\ mval[Source[v]] = v /\ c \in snap[Source[v]]
      <4>1. CASE c = d /\ Source[v] = u
        BY <1>1, <3>0, <3>1, <3>4, <4>1 DEF OnWay
      <4>2. CASE ~(c = d /\ Source[v] = u)
        <5>1. c \in snap'[Source[v]]
          BY <1>6, <3>0, <3>4, <4>2
        <5> QED
          BY <1>2, <3>4, <5>1 DEF OnWay
      <4> QED
        BY <4>1, <4>2
    <3> QED
      BY <2>1, <3>2, <3>3, <3>4 DEF OnWay
  <2>2. \A c \in shut' : due'[c] = {}
    BY <1>0, <1>2 DEF Way
  <2> QED
    BY <1>0, <1>2, <2>1, <2>2, WayKept
<1>11. Late'
  <2>1. ASSUME NEW t \in Topics, NEW c \in Subs PROVE LateAt(t, c)'
    <3>1. LateAt(t, c)
      BY <1>0 DEF Late
    <3>2. CASE t = u /\ c = d
      <4>1. d \notin snap'[u]
        BY <1>6
      <4>2. CASE <<u, d>> \in off
        <5>1. late[<<u, d>>] = {}
          BY <1>2, <3>1, <3>2, <4>2 DEF LateAt
        <5>2. late'[<<u, d>>] = {x}
          BY <1>7, <4>2, <5>1
        <5> QED
          BY <1>2, <1>3, <3>1, <3>2, <4>1, <4>2, <5>2 DEF LateAt
      <4>3. CASE <<u, d>> \notin off
        <5>1. late'[<<u, d>>] = late[<<u, d>>]
          BY <1>7, <4>3
        <5> QED
          BY <1>2, <3>1, <3>2, <4>1, <5>1 DEF LateAt
      <4> QED
        BY <4>2, <4>3
    <3>3. CASE ~(t = u /\ c = d)
      <4>1. late'[<<t, c>>] = late[<<t, c>>]
        <5>1. <<t, c>> # <<u, d>>
          BY <3>3
        <5> QED
          BY <1>7, <5>1
      <4>2. c \in snap'[t] => c \in snap[t]
        BY <1>6
      <4> QED
        BY <1>2, <3>1, <4>1, <4>2 DEF LateAt
    <3> QED
      BY <3>2, <3>3
  <2> QED
    BY <2>1 DEF Late
<1> QED
  BY <1>8, <1>9, <1>10, <1>11 DEF PubInv

\* Nothing is due to a closed channel.
LEMMA DropTapStep ==
  ASSUME PubInv, NEW u \in Topics, NEW d \in Subs, DropTap(u, d)
  PROVE  PubInv'
<1>0. Shapes /\ Serving /\ Found /\ Way /\ Late
  BY DEF PubInv
<1>1. /\ d \in shut /\ snap' = [snap EXCEPT ![u] = snap[u] \ {d}]
      /\ taps' = [taps EXCEPT ![u] = taps[u] \ {d}]
      /\ UNCHANGED <<pump, nrecv, topics, tq, tclosed, mpc, mval, to, closeIt, box, shut, got,
                     ncalls, find, due, off, late>>
  BY DEF DropTap, pubs, subs, clients
<1>2. MultShape /\ TapShape
  BY <1>0 DEF Shapes
<1>3. /\ snap'[u] = snap[u] \ {d} /\ \A t \in Topics : t # u => snap'[t] = snap[t]
      /\ taps'[u] = taps[u] \ {d} /\ \A t \in Topics : t # u => taps'[t] = taps[t]
  BY <1>1, <1>2 DEF MultShape, TapShape
<1>4. Shapes'
  <2>1. MultShape'
    BY <1>1, <1>2 DEF MultShape
  <2>2. TapShape'
    BY <1>1, <1>2 DEF TapShape
  <2>3. PubShape' /\ SubShape' /\ ClientShape' /\ PastShape'
    BY <1>0, <1>1 DEF Shapes, PubShape, SubShape, ClientShape, PastShape
  <2> QED
    BY <2>1, <2>2, <2>3 DEF Shapes
<1>5. Serving' /\ Found'
  <2>1. \A t \in Topics : snap'[t] # {} \/ mpc'[t] = "snapshot" => mval'[t] \in Values
    BY <1>0, <1>1, <1>3 DEF Serving
  <2>2. \A t \in Topics : taps'[t] # {} => t \in topics'
    BY <1>0, <1>1, <1>3 DEF Found
  <2> QED
    BY <1>0, <1>1, <2>1, <2>2 DEF Serving, Found
<1>6. Way'
  <2>1. ASSUME NEW c \in Subs, NEW v \in Values, v \in due'[c], OnWay(c, Source[v], v)
        PROVE  OnWay(c, Source[v], v)'
    <3>1. Source[v] \in Topics /\ c # d
      BY <1>0, <1>1, <2>1, PubConstants DEF Way
    <3>2. /\ c \in taps[Source[v]] => c \in taps'[Source[v]]
          /\ c \in snap[Source[v]] => c \in snap'[Source[v]]
      BY <1>3, <3>1
    <3> QED
      BY <1>1, <2>1, <3>2 DEF OnWay, Coming, Items
  <2>2. \A c \in shut' : due'[c] = {}
    BY <1>0, <1>1 DEF Way
  <2> QED
    BY <1>0, <1>1, <2>1, <2>2, WayKept
<1>7. Late'
  <2>1. \A t \in Topics : taps'[t] \subseteq taps[t] /\ snap'[t] \subseteq snap[t]
    BY <1>3
  <2> QED
    BY <1>0, <1>1, <2>1, LateKept
<1> QED
  BY <1>4, <1>5, <1>6, <1>7 DEF PubInv
-------------------------------------------------------------------------------
(***************************************************************************)
(* The clients and the subscribers.                                        *)
(***************************************************************************)
LEMMA FindStep ==
  ASSUME PubInv, NEW p \in Clients, Find(p)
  PROVE  PubInv'
<1>0. Shapes /\ Serving /\ Found /\ Way /\ Late
  BY DEF PubInv
<1>1. PICK k : k = Calls[p][ncalls[p] + 1]
  OBVIOUS
<1>2. /\ ncalls[p] < Len(Calls[p]) /\ ncalls' = [ncalls EXCEPT ![p] = ncalls[p] + 1]
      /\ topics' = IF k.op = "sub" THEN topics \cup k.topics ELSE topics
      /\ find' = [find EXCEPT ![p] = k.topics \cap topics']
      /\ UNCHANGED <<pump, nrecv, tq, tclosed, mpc, mval, snap, to, taps, closeIt, box, shut, got,
                     due, off, late>>
  BY <1>1 DEF Find, mults, subs
<1>3. PubShape /\ ClientShape
  BY <1>0 DEF Shapes
<1>4. /\ ncalls[p] \in Nat /\ Len(Calls[p]) \in Nat /\ ncalls[p] + 1 \in 1..Len(Calls[p])
      /\ k.topics \subseteq Topics
  <2>1. ncalls[p] \in Nat /\ Len(Calls[p]) \in Nat
    BY <1>3, PubConstants DEF ClientShape
  <2>2. ncalls[p] + 1 \in 1..Len(Calls[p])
    BY <1>2, <2>1
  <2> QED
    BY <1>1, <2>1, <2>2, PubConstants
<1>5. topics \subseteq topics' /\ topics' \subseteq Topics
  BY <1>2, <1>3, <1>4 DEF PubShape
<1>6. /\ ncalls'[p] = ncalls[p] + 1 /\ find'[p] = k.topics \cap topics'
      /\ \A q \in Clients : q # p => ncalls'[q] = ncalls[q] /\ find'[q] = find[q]
  BY <1>2, <1>3 DEF ClientShape
<1>7. Shapes'
  <2>1. PubShape'
    BY <1>2, <1>3, <1>5 DEF PubShape
  <2>2. ClientShape'
    <3>1. ncalls' \in [Clients -> Nat] /\ find' \in [Clients -> SUBSET Topics]
      BY <1>2, <1>3, <1>4, <1>5 DEF ClientShape
    <3>2. ncalls'[p] \in 0..Len(Calls[p]) /\ ncalls'[p] # 0
      BY <1>4, <1>6
    <3>3. \A q \in Clients : ncalls'[q] \in 0..Len(Calls[q]) /\ (find'[q] # {} => ncalls'[q] # 0)
      BY <1>3, <1>6, <3>2 DEF ClientShape
    <3> QED
      BY <3>1, <3>3 DEF ClientShape
  <2>3. MultShape' /\ TapShape' /\ SubShape' /\ PastShape'
    BY <1>0, <1>2 DEF Shapes, MultShape, TapShape, SubShape, PastShape
  <2> QED
    BY <2>1, <2>2, <2>3 DEF Shapes
<1>8. Serving' /\ Found'
  <2>1. Serving'
    BY <1>0, <1>2 DEF Serving
  <2>2. \A q \in Clients : find'[q] \subseteq topics'
    BY <1>0, <1>5, <1>6 DEF Found
  <2>3. \A t \in Topics : taps'[t] # {} => t \in topics'
    BY <1>0, <1>2, <1>5 DEF Found
  <2> QED
    BY <2>1, <2>2, <2>3 DEF Found
<1>9. Way'
  <2>1. \A c \in Subs, v \in Values : OnWay(c, Source[v], v) => OnWay(c, Source[v], v)'
    BY <1>2 DEF OnWay, Coming, Items
  <2>2. \A c \in shut' : due'[c] = {}
    BY <1>0, <1>2 DEF Way
  <2> QED
    BY <1>0, <1>2, <2>1, <2>2, WayKept
<1>10. Late'
  BY <1>0, <1>2, LateKept
<1> QED
  BY <1>7, <1>8, <1>9, <1>10 DEF PubInv

\* A client changes the mults of a call it is in.
LEMMA InCall ==
  ASSUME Shapes, NEW p \in Clients, find[p] # {}
  PROVE  Current(p).op # "unsub-all" => Current(p).ch \in Subs
<1>1. ncalls[p] \in 0..Len(Calls[p]) /\ ncalls[p] # 0 /\ Len(Calls[p]) \in Nat
  BY PubConstants DEF Shapes, ClientShape
<1>2. ncalls[p] \in 1..Len(Calls[p])
  BY <1>1
<1> QED
  BY <1>2, PubConstants DEF Current

LEMMA TapStep ==
  ASSUME PubInv, NEW p \in Clients, NEW u \in Topics, Tap(p, u)
  PROVE  PubInv'
<1>0. Shapes /\ Serving /\ Found /\ Way /\ Late
  BY DEF PubInv
<1>1. PICK d : d = Current(p).ch
  OBVIOUS
<1>2. /\ u \in find[p] /\ Current(p).op = "sub"
      /\ find' = [find EXCEPT ![p] = find[p] \ {u}] /\ taps' = [taps EXCEPT ![u] = taps[u] \cup {d}]
      /\ closeIt' = [closeIt EXCEPT ![u] = IF Current(p).close THEN closeIt[u] \cup {d}
                                           ELSE closeIt[u] \ {d}]
      /\ off' = off \ {<<u, d>>} /\ late' = [late EXCEPT ![<<u, d>>] = {}]
      /\ UNCHANGED <<pump, nrecv, topics, tq, tclosed, mpc, mval, snap, to, box, shut, got, ncalls, due>>
  BY <1>1 DEF Tap, pubs, mults, subs
<1>3. d \in Subs
  BY <1>0, <1>1, <1>2, InCall
<1>4. ClientShape /\ TapShape /\ PastShape
  BY <1>0 DEF Shapes
<1>5. find'[p] = find[p] \ {u} /\ \A q \in Clients : q # p => find'[q] = find[q]
  BY <1>2, <1>4 DEF ClientShape
<1>6. taps'[u] = taps[u] \cup {d} /\ \A t \in Topics : t # u => taps'[t] = taps[t]
  BY <1>2, <1>4 DEF TapShape
<1>7. /\ late' \in [Topics \X Subs -> SUBSET Values] /\ late'[<<u, d>>] = {}
      /\ \A t \in Topics, c \in Subs : <<t, c>> # <<u, d>> => late'[<<t, c>>] = late[<<t, c>>]
  <2>1. late \in [Topics \X Subs -> SUBSET Values] /\ <<u, d>> \in Topics \X Subs
    BY <1>3, <1>4 DEF PastShape
  <2>2. \A t \in Topics, c \in Subs : <<t, c>> \in Topics \X Subs
    OBVIOUS
  <2>3. late' \in [Topics \X Subs -> SUBSET Values] /\ late'[<<u, d>>] = {}
    BY <1>2, <2>1
  <2>4. \A y \in Topics \X Subs : y # <<u, d>> => late'[y] = late[y]
    BY <1>2, <2>1
  <2> QED
    BY <2>2, <2>3, <2>4
<1>8. Shapes'
  <2>1. ClientShape'
    <3>1. find' \in [Clients -> SUBSET Topics]
      BY <1>2, <1>4 DEF ClientShape
    <3>2. \A q \in Clients : find'[q] # {} => find[q] # {}
      BY <1>5
    <3> QED
      BY <1>2, <1>4, <3>1, <3>2 DEF ClientShape
  <2>2. TapShape'
    <3>1. closeIt' \in [Topics -> SUBSET Subs]
      BY <1>2, <1>3, <1>4 DEF TapShape
    <3>2. taps' \in [Topics -> SUBSET Subs]
      BY <1>2, <1>3, <1>4 DEF TapShape
    <3> QED
      BY <3>1, <3>2 DEF TapShape
  <2>3. PastShape'
    BY <1>2, <1>4, <1>7 DEF PastShape
  <2>4. PubShape' /\ MultShape' /\ SubShape'
    BY <1>0, <1>2 DEF Shapes, PubShape, MultShape, SubShape
  <2> QED
    BY <2>1, <2>2, <2>3, <2>4 DEF Shapes
<1>9. Serving' /\ Found'
  <2>1. Serving'
    BY <1>0, <1>2 DEF Serving
  <2>2. u \in topics
    BY <1>0, <1>2 DEF Found
  <2>3. \A t \in Topics : taps'[t] # {} => t \in topics'
    BY <1>0, <1>2, <1>6, <2>2 DEF Found
  <2>4. \A q \in Clients : find'[q] \subseteq topics'
    BY <1>0, <1>2, <1>5 DEF Found
  <2> QED
    BY <2>1, <2>3, <2>4 DEF Found
<1>10. Way'
  <2>1. ASSUME NEW c \in Subs, NEW v \in Values, OnWay(c, Source[v], v)
        PROVE  OnWay(c, Source[v], v)'
    <3>1. c \in taps[Source[v]] => c \in taps'[Source[v]]
      BY <1>6, PubConstants
    <3> QED
      BY <1>2, <2>1, <3>1 DEF OnWay, Coming, Items
  <2>2. \A c \in shut' : due'[c] = {}
    BY <1>0, <1>2 DEF Way
  <2> QED
    BY <1>0, <1>2, <2>1, <2>2, WayKept
<1>11. Late'
  <2>1. ASSUME NEW t \in Topics, NEW c \in Subs PROVE LateAt(t, c)'
    <3>1. LateAt(t, c)
      BY <1>0 DEF Late
    <3>2. CASE t = u /\ c = d
      <4>1. <<t, c>> \notin off' /\ late'[<<t, c>>] = {}
        BY <1>2, <1>7, <3>2
      <4> QED
        BY <4>1 DEF LateAt
    <3>3. CASE ~(t = u /\ c = d)
      <4>1. <<t, c>> # <<u, d>>
        BY <3>3
      <4>2. late'[<<t, c>>] = late[<<t, c>>] /\ (<<t, c>> \in off' <=> <<t, c>> \in off)
        BY <1>2, <1>7, <4>1
      <4>3. c \in taps'[t] => c \in taps[t]
        BY <1>6, <3>3
      <4> QED
        BY <1>2, <3>1, <4>2, <4>3 DEF LateAt
    <3> QED
      BY <3>2, <3>3
  <2> QED
    BY <2>1 DEF Late
<1> QED
  BY <1>8, <1>9, <1>10, <1>11 DEF PubInv

\* What was due to an untapped channel is no longer; nothing from before is late.
LEMMA UntapStep ==
  ASSUME PubInv, NEW p \in Clients, NEW u \in Topics, Untap(p, u)
  PROVE  PubInv'
<1>0. Shapes /\ Serving /\ Found /\ Way /\ Late
  BY DEF PubInv
<1>1. PICK cs : cs = IF Current(p).op = "unsub" THEN {Current(p).ch} ELSE Subs
  OBVIOUS
<1>2. /\ u \in find[p] /\ Current(p).op # "sub"
      /\ find' = [find EXCEPT ![p] = find[p] \ {u}] /\ taps' = [taps EXCEPT ![u] = taps[u] \ cs]
      /\ off' = off \cup ({u} \X cs)
      /\ due' = [c \in Subs |-> IF c \in cs THEN {v \in due[c] : Source[v] # u} ELSE due[c]]
      /\ UNCHANGED <<pump, nrecv, topics, tq, tclosed, mpc, mval, snap, to, closeIt, box, shut, got,
                     ncalls, late>>
  BY <1>1 DEF Untap, pubs, mults, subs
<1>3. cs \subseteq Subs
  BY <1>0, <1>1, <1>2, InCall
<1>4. ClientShape /\ TapShape /\ PastShape
  BY <1>0 DEF Shapes
<1>5. find'[p] = find[p] \ {u} /\ \A q \in Clients : q # p => find'[q] = find[q]
  BY <1>2, <1>4 DEF ClientShape
<1>6. taps'[u] = taps[u] \ cs /\ \A t \in Topics : t # u => taps'[t] = taps[t]
  BY <1>2, <1>4 DEF TapShape
<1>7. \A c \in Subs : due'[c] \subseteq due[c] /\ (c \in cs => \A v \in due'[c] : Source[v] # u)
  BY <1>2
<1>8. Shapes'
  <2>1. ClientShape'
    <3>1. find' \in [Clients -> SUBSET Topics]
      BY <1>2, <1>4 DEF ClientShape
    <3>2. \A q \in Clients : find'[q] # {} => find[q] # {}
      BY <1>5
    <3> QED
      BY <1>2, <1>4, <3>1, <3>2 DEF ClientShape
  <2>2. TapShape'
    BY <1>2, <1>4 DEF TapShape
  <2>3. PastShape'
    <3>1. due' \in [Subs -> SUBSET Values]
      BY <1>2, <1>4 DEF PastShape
    <3>2. off' \subseteq Topics \X Subs
      BY <1>2, <1>3, <1>4 DEF PastShape
    <3> QED
      BY <1>2, <1>4, <3>1, <3>2 DEF PastShape
  <2>4. PubShape' /\ MultShape' /\ SubShape'
    BY <1>0, <1>2 DEF Shapes, PubShape, MultShape, SubShape
  <2> QED
    BY <2>1, <2>2, <2>3, <2>4 DEF Shapes
<1>9. Serving' /\ Found'
  <2>1. Serving'
    BY <1>0, <1>2 DEF Serving
  <2>2. \A t \in Topics : taps'[t] # {} => t \in topics'
    BY <1>0, <1>2, <1>6 DEF Found
  <2>3. \A q \in Clients : find'[q] \subseteq topics'
    BY <1>0, <1>2, <1>5 DEF Found
  <2> QED
    BY <2>1, <2>2, <2>3 DEF Found
<1>10. Way'
  <2>1. ASSUME NEW c \in Subs, NEW v \in Values, v \in due'[c], OnWay(c, Source[v], v)
        PROVE  OnWay(c, Source[v], v)'
    <3>1. c \in taps[Source[v]] => c \in taps'[Source[v]]
      BY <1>6, <1>7, <2>1, PubConstants
    <3> QED
      BY <1>2, <2>1, <3>1 DEF OnWay, Coming, Items
  <2>2. \A c \in shut' : due'[c] = {}
    BY <1>0, <1>2, <1>7 DEF Way, Shapes, SubShape
  <2> QED
    BY <1>0, <1>7, <2>1, <2>2, WayKept
<1>11. Late'
  <2>1. ASSUME NEW t \in Topics, NEW c \in Subs PROVE LateAt(t, c)'
    <3>1. LateAt(t, c)
      BY <1>0 DEF Late
    <3>2. <<t, c>> \in off' <=> <<t, c>> \in off \/ (t = u /\ c \in cs)
      BY <1>2
    <3>3. CASE t = u
      BY <1>2, <1>6, <3>1, <3>2, <3>3 DEF LateAt
    <3>4. CASE t # u
      BY <1>2, <1>6, <3>1, <3>2, <3>4 DEF LateAt
    <3> QED
      BY <3>3, <3>4
  <2> QED
    BY <2>1 DEF Late
<1> QED
  BY <1>8, <1>9, <1>10, <1>11 DEF PubInv

LEMMA SubscriberStep ==
  ASSUME PubInv, NEW d \in Subs, Take(d) \/ CloseSub(d)
  PROVE  PubInv'
<1>0. Shapes /\ Serving /\ Found /\ Way /\ Late
  BY DEF PubInv
<1>1. UNCHANGED <<pump, nrecv, topics, tq, tclosed, mpc, mval, snap, to, taps, closeIt, got, ncalls,
                  find, off, late>>
  BY DEF Take, CloseSub, pubs, mults, clients
<1>2. /\ box' \in [Subs -> Seq(Values)] /\ shut' \subseteq Subs /\ due' \in [Subs -> SUBSET Values]
      /\ \A c \in Subs : due'[c] \subseteq due[c]
      /\ \A c \in shut' : due'[c] = {}
  <2>1. SubShape /\ PastShape /\ \A c \in shut : due[c] = {}
    BY <1>0 DEF Shapes, Way
  <2>2. CASE Take(d)
    <3>1. box[d] \in Seq(Values) /\ box[d] # <<>>
      BY <2>1, <2>2 DEF SubShape, Take
    <3>2. Tail(box[d]) \in Seq(Values)
      BY <3>1
    <3> QED
      BY <2>1, <2>2, <3>2 DEF SubShape, PastShape, Take
  <2>3. CASE CloseSub(d)
    BY <2>1, <2>3 DEF SubShape, PastShape, CloseSub
  <2> QED
    BY <2>2, <2>3
<1>3. Shapes'
  <2>1. SubShape' /\ PastShape'
    BY <1>0, <1>1, <1>2 DEF Shapes, SubShape, PastShape
  <2>2. PubShape' /\ MultShape' /\ TapShape' /\ ClientShape'
    BY <1>0, <1>1 DEF Shapes, PubShape, MultShape, TapShape, ClientShape
  <2> QED
    BY <2>1, <2>2 DEF Shapes
<1>4. Serving' /\ Found'
  BY <1>0, <1>1 DEF Serving, Found
<1>5. Way'
  <2>1. \A c \in Subs, v \in Values : OnWay(c, Source[v], v) => OnWay(c, Source[v], v)'
    BY <1>1 DEF OnWay, Coming, Items
  <2> QED
    BY <1>0, <1>2, <2>1, WayKept
<1>6. Late'
  BY <1>0, <1>1, LateKept
<1> QED
  BY <1>3, <1>4, <1>5, <1>6 DEF PubInv

\* Every step keeps the invariant.
LEMMA PubNext == PubInv /\ [PubSubNext]_pubSubVars => PubInv'
<1> SUFFICES ASSUME PubInv, [PubSubNext]_pubSubVars PROVE PubInv'
  OBVIOUS
<1>1. CASE PubStep
  BY <1>1, PubRecvStep, PubCloseStep, PubRouteStep DEF PubStep
<1>2. ASSUME NEW t \in Topics, MultStep(t) PROVE PubInv'
  BY <1>2, MultRecvStep, SnapshotStep, MultCloseStep, DeliverStep, DropTapStep DEF MultStep
<1>3. ASSUME NEW p \in Clients, Find(p) \/ ClientStep(p) PROVE PubInv'
  BY <1>3, FindStep, TapStep, UntapStep DEF ClientStep
<1>4. ASSUME NEW c \in Subs, Take(c) \/ CloseSub(c) PROVE PubInv'
  BY <1>4, SubscriberStep
<1>5. CASE UNCHANGED pubSubVars
  <2>0. Shapes /\ Serving /\ Found /\ Way /\ Late
    BY DEF PubInv
  <2>1. UNCHANGED <<pump, nrecv, topics, tq, tclosed, mpc, mval, snap, to, taps, closeIt, box, shut,
                    got, ncalls, find, due, off, late>>
    BY <1>5 DEF pubSubVars, pubs, mults, subs, clients
  <2>2. Shapes'
    BY <2>0, <2>1 DEF Shapes, PubShape, MultShape, TapShape, SubShape, ClientShape, PastShape
  <2>3. Serving' /\ Found'
    BY <2>0, <2>1 DEF Serving, Found
  <2>4. Way'
    <3>1. \A c \in Subs, v \in Values : OnWay(c, Source[v], v) => OnWay(c, Source[v], v)'
      BY <2>1 DEF OnWay, Coming, Items
    <3>2. \A c \in shut' : due'[c] = {}
      BY <2>0, <2>1 DEF Way
    <3> QED
      BY <2>0, <2>1, <3>1, <3>2, WayKept
  <2>5. Late'
    BY <2>0, <2>1, LateKept
  <2> QED
    BY <2>2, <2>3, <2>4, <2>5 DEF PubInv
<1> QED
  BY <1>1, <1>2, <1>3, <1>4, <1>5 DEF PubSubNext

\* "Every tapped channel receives every value" (chan_pump.go:415-416), however the
\* pumps, the subscribers and the clients' calls interleave: what the pump received
\* while a channel was tapped reaches it, or has yet to be routed, snapshot or sent.
THEOREM NothingIsSkipped == PubSubSpec => []NothingSkipped
<1>1. PubInv => NothingSkipped
  <2> SUFFICES ASSUME PubInv, NEW c \in Subs, NEW v \in due[c], NEW t, t = Source[v]
               PROVE  \/ \E i \in DOMAIN got[c] : got[c][i] = v
                      \/ pump = "route" /\ nrecv = v /\ t \in topics
                      \/ \E i \in DOMAIN tq[t] : tq[t][i] = v
                      \/ mval[t] = v /\ (mpc[t] = "snapshot" \/ c \in snap[t])
    BY DEF NothingSkipped
  <2>1. OnWay(c, t, v)
    BY DEF PubInv, Way
  <2>2. v \in Values
    BY DEF PubInv, Shapes, PastShape
  <2>3. c \in taps[t] => t \in topics
    BY <2>2, PubConstants DEF PubInv, Found
  <2> QED
    BY <2>1, <2>3 DEF OnWay, Coming, Items
<1> QED
  BY <1>1, PubInit, PubNext, PTL DEF PubSubSpec

\* Once unsub or unsub-all has returned, the channel gets at most one more value of
\* the topic (chan_pump.go:446-456): the snapshot taken before holds one value, and
\* no later one has the channel in it.
THEOREM OneLateAtMost == PubSubSpec => []AtMostOneLate
<1>1. PubInv => AtMostOneLate
  <2> SUFFICES ASSUME PubInv, NEW t \in Topics, NEW c \in Subs PROVE Cardinality(late[<<t, c>>]) <= 1
    BY DEF AtMostOneLate
  <2>1. late[<<t, c>>] = {} \/ \E v \in Values : late[<<t, c>>] = {v}
    BY DEF PubInv, Late, LateAt
  <2>2. CASE late[<<t, c>>] = {}
    BY <2>2, FS_EmptySet
  <2>3. CASE \E v \in Values : late[<<t, c>>] = {v}
    <3>1. PICK v \in Values : late[<<t, c>>] = {v}
      BY <2>3
    <3>2. Cardinality({v}) = 1
      BY ONLY FS_Singleton
    <3> QED
      BY <3>1, <3>2
  <2> QED
    BY <2>1, <2>2, <2>3
<1> QED
  BY <1>1, PubInit, PubNext, PTL DEF PubSubSpec
-------------------------------------------------------------------------------
(***************************************************************************)
(* The channels' lengths: the pub has one parked send at most, and every   *)
(* mult one, because a pump goes on only when its last send is accepted.   *)
(***************************************************************************)
\* A topic's values travel in order: those on its channel were received after the
\* one in its mult's hands.
Order(t) ==
  /\ \A i, j \in DOMAIN tq[t] : i < j => tq[t][i] < tq[t][j]
  /\ \A v \in Items(tq[t]) : /\ Source[v] = t /\ mval[t] < v
                             /\ v <= nrecv /\ (pump = "route" => v # nrecv)
  /\ mval[t] <= nrecv /\ (pump = "route" => mval[t] # nrecv)
  /\ mval[t] # 0 => Source[mval[t]] = t

\* What is past a topic's buffer is the pump's last value.
TopicRoom(t) ==
  /\ t \notin topics => tq[t] = <<>>
  /\ \A i \in DOMAIN tq[t] : i > Buf[t] => i = Buf[t] + 1 /\ tq[t][i] = nrecv /\ pump # "route"

\* A channel holds a value once; what is past its buffer is the last value of a
\* mult that is parked on it.
SubRoom(c) ==
  /\ \A i, j \in DOMAIN box[c] : box[c][i] = box[c][j] => i = j
  /\ \A v \in Items(box[c]) : /\ v <= mval[Source[v]]
                              /\ v = mval[Source[v]] => mpc[Source[v]] # "snapshot" /\ c \notin snap[Source[v]]
  /\ \A i \in DOMAIN box[c] : i > Cap[c] => to[Source[box[c][i]]] = c /\ mval[Source[box[c][i]]] = box[c][i]

Room == (\A t \in Topics : Order(t) /\ TopicRoom(t)) /\ (\A c \in Subs : SubRoom(c))

\* What the indices and values are.
LEMMA PubNumbers ==
  ASSUME Shapes
  PROVE  /\ nrecv \in Nat
         /\ \A t \in Topics : /\ mval[t] \in Nat /\ Buf[t] \in Nat /\ tq[t] \in Seq(Values)
                              /\ \A i \in DOMAIN tq[t] : i \in Nat /\ i > 0 /\ tq[t][i] \in Values
                              /\ Items(tq[t]) \subseteq Values
         /\ \A c \in Subs : /\ Cap[c] \in Nat /\ box[c] \in Seq(Values)
                            /\ \A i \in DOMAIN box[c] : i \in Nat /\ i > 0 /\ box[c][i] \in Values
                            /\ Items(box[c]) \subseteq Values
         /\ \A v \in Values : v \in Nat /\ v # 0
<1>1. nrecv \in Nat
  BY DEF Shapes, PubShape
<1>2. \A v \in Values : v \in Nat /\ v # 0
  BY PubConstants
<1>3. \A t \in Topics : Buf[t] \in Nat
  BY PubSubAssumption
<1>4. \A c \in Subs : Cap[c] \in Nat
  BY PubSubAssumption
<1>5. \A t \in Topics : mval[t] \in Nat
  BY <1>2 DEF Shapes, MultShape
<1>6. \A q \in Seq(Values) : \A i \in DOMAIN q : i \in Nat /\ i > 0 /\ q[i] \in Values
  OBVIOUS
<1>7. \A q \in Seq(Values) : Items(q) \subseteq Values
  BY <1>6 DEF Items
<1>8. \A t \in Topics : tq[t] \in Seq(Values)
  BY DEF Shapes, PubShape
<1>9. \A c \in Subs : box[c] \in Seq(Values)
  BY DEF Shapes, SubShape
<1>10. \A t \in Topics : /\ \A i \in DOMAIN tq[t] : i \in Nat /\ i > 0 /\ tq[t][i] \in Values
                         /\ Items(tq[t]) \subseteq Values
  BY <1>6, <1>7, <1>8
<1>11. \A c \in Subs : /\ \A i \in DOMAIN box[c] : i \in Nat /\ i > 0 /\ box[c][i] \in Values
                       /\ Items(box[c]) \subseteq Values
  BY <1>6, <1>7, <1>9
<1> QED
  BY <1>1, <1>2, <1>3, <1>4, <1>5, <1>8, <1>9, <1>10, <1>11

LEMMA RoomInit == PubSubInit => Room
<1> SUFFICES ASSUME PubSubInit PROVE Room
  OBVIOUS
<1>1. \A t \in Topics : tq[t] = <<>> /\ mval[t] = 0
  BY DEF PubSubInit
<1>2. \A c \in Subs : box[c] = <<>>
  BY DEF PubSubInit
<1>3. DOMAIN <<>> = {} /\ Items(<<>>) = {}
  BY DEF Items
<1>4. \A t \in Topics : Order(t) /\ TopicRoom(t)
  BY <1>1, <1>3 DEF PubSubInit, Order, TopicRoom
<1>5. \A c \in Subs : SubRoom(c)
  BY <1>2, <1>3 DEF SubRoom
<1> QED
  BY <1>4, <1>5 DEF Room

\* A topic and a channel that a step leaves alone.
LEMMA OrderKept ==
  ASSUME NEW t, Order(t), tq'[t] = tq[t], mval'[t] = mval[t], nrecv' = nrecv,
         pump' = "route" => pump = "route"
  PROVE  Order(t)'
BY DEF Order, Items

LEMMA TopicKept ==
  ASSUME NEW t, TopicRoom(t), topics \subseteq topics', tq'[t] = tq[t], nrecv' = nrecv,
         pump' = "route" => pump = "route"
  PROVE  TopicRoom(t)'
BY DEF TopicRoom

LEMMA SubKept ==
  ASSUME NEW c, SubRoom(c), box'[c] = box[c], UNCHANGED <<mpc, mval, to>>,
         \A v \in Items(box[c]) : snap'[Source[v]] \subseteq snap[Source[v]]
  PROVE  SubRoom(c)'
<1>1. Items(box[c])' = Items(box[c])
  BY DEF Items
<1> QED
  BY <1>1 DEF SubRoom

LEMMA PubRecvRoom ==
  ASSUME PubInv, Room, PubRecv
  PROVE  Room'
<1>1. /\ PubFree /\ nrecv' = nrecv + 1 /\ UNCHANGED <<topics, tq, mpc, mval, snap, to, box>>
  BY DEF PubRecv, mults, subs
<1>2. ASSUME NEW t \in Topics PROVE Order(t)' /\ TopicRoom(t)'
  <2>0. Order(t) /\ TopicRoom(t)
    BY DEF Room
  <2>1. /\ nrecv \in Nat /\ mval[t] \in Nat /\ Items(tq[t]) \subseteq Nat /\ Buf[t] \in Nat
        /\ \A i \in DOMAIN tq[t] : i \in Nat
    BY PubNumbers DEF PubInv
  <2>2. \A v \in Items(tq[t]) : Source[v] = t /\ mval[t] < v /\ v <= nrecv + 1 /\ v # nrecv + 1
    BY <2>0, <2>1 DEF Order
  <2>3. mval[t] <= nrecv + 1 /\ mval[t] # nrecv + 1
    BY <2>0, <2>1 DEF Order
  <2>4. Items(tq[t])' = Items(tq[t])
    BY <1>1 DEF Items
  <2>5. Order(t)'
    BY <1>1, <2>0, <2>2, <2>3, <2>4 DEF Order
  <2>6. \A i \in DOMAIN tq[t] : ~(i > Buf[t])
    <3>1. CASE t \in topics
      BY <1>1, <2>0, <2>1, <3>1 DEF TopicRoom, PubFree, Accepted
    <3>2. CASE t \notin topics
      BY <2>0, <3>2 DEF TopicRoom
    <3> QED
      BY <3>1, <3>2
  <2>7. TopicRoom(t)'
    BY <1>1, <2>0, <2>6 DEF TopicRoom
  <2> QED
    BY <2>5, <2>7
<1>3. \A c \in Subs : SubRoom(c)'
  BY <1>1, SubKept DEF Room
<1> QED
  BY <1>2, <1>3 DEF Room

LEMMA PubRouteRoom ==
  ASSUME PubInv, Room, PubRoute
  PROVE  Room'
<1>1. PICK u : u = Source[nrecv]
  OBVIOUS
<1>2. /\ pump = "route" /\ pump' = "recv"
      /\ \/ u \in topics /\ tq' = [tq EXCEPT ![u] = Append(tq[u], nrecv)]
         \/ u \notin topics /\ tq' = tq
      /\ UNCHANGED <<nrecv, topics, mpc, mval, snap, to, box>>
  BY <1>1 DEF PubRoute, mults, subs
<1>3. Shapes /\ tq \in [Topics -> Seq(Values)] /\ topics \subseteq Topics /\ nrecv # 0
  BY <1>2 DEF PubInv, Shapes, PubShape, Serving
<1>4. nrecv \in Nat /\ nrecv \in Values
  BY <1>3, PubConstants DEF Shapes, PubShape
<1>5. ASSUME NEW t \in Topics PROVE Order(t)' /\ TopicRoom(t)'
  <2>0. Order(t) /\ TopicRoom(t)
    BY DEF Room
  <2>1. CASE tq'[t] = tq[t]
    BY <1>2, <2>0, <2>1, OrderKept, TopicKept
  <2>2. CASE tq'[t] # tq[t]
    <3>1. t = u /\ u \in topics
      BY <1>2, <1>3, <2>2
    <3>2. PICK q : q = tq[u]
      OBVIOUS
    <3>3. q \in Seq(Values) /\ tq'[t] = Append(q, nrecv)
      BY <1>2, <1>3, <3>1, <3>2
    <3>4. PICK a : a = Append(q, nrecv)
      OBVIOUS
    <3>5. /\ Len(q) \in Nat /\ DOMAIN q = 1..Len(q) /\ DOMAIN a = 1..(Len(q) + 1)
          /\ \A i \in 1..Len(q) : a[i] = q[i]
          /\ a[Len(q) + 1] = nrecv
      BY <1>4, <3>3, <3>4
    <3>6. Items(a) = Items(q) \cup {nrecv}
      BY <1>4, <3>3, <3>4, AppendItems
    <3>7. /\ mval[u] \in Nat /\ Buf[u] \in Nat /\ Items(q) \subseteq Nat
          /\ \A i \in DOMAIN q : q[i] \in Nat /\ q[i] \in Items(q)
      <4>1. mval[u] \in Nat /\ Buf[u] \in Nat /\ Items(q) \subseteq Nat
        BY <1>3, <3>1, <3>2, PubNumbers
      <4> QED
        BY <4>1 DEF Items
    <3>8. /\ \A v \in Items(q) : Source[v] = u /\ mval[u] < v /\ v < nrecv
          /\ mval[u] < nrecv /\ (mval[u] # 0 => Source[mval[u]] = u)
          /\ \A i, j \in DOMAIN q : i < j => q[i] < q[j]
      BY <1>2, <1>4, <2>0, <3>1, <3>2, <3>7 DEF Order
    <3>9. \A i, j \in DOMAIN a : i < j => a[i] < a[j]
      <4>1. ASSUME NEW i \in DOMAIN a, NEW j \in DOMAIN a, i < j PROVE a[i] < a[j]
        <5>1. i \in DOMAIN q /\ a[i] = q[i]
          BY <3>5, <4>1
        <5>2. CASE j = Len(q) + 1
          BY <3>5, <3>7, <3>8, <5>1, <5>2
        <5>3. CASE j # Len(q) + 1
          <6>1. j \in DOMAIN q /\ a[j] = q[j]
            BY <3>5, <5>3
          <6> QED
            BY <3>8, <4>1, <5>1, <6>1
        <5> QED
          BY <5>2, <5>3
      <4> QED
        BY <4>1
    <3>10. \A v \in Items(a) : Source[v] = u /\ mval[u] < v /\ v <= nrecv
      BY <1>1, <1>4, <3>6, <3>7, <3>8
    <3>11. Items(tq[t])' = Items(a)
      BY <3>3, <3>4 DEF Items
    <3>12. mval[u] <= nrecv
      BY <1>4, <3>7, <3>8
    <3>13. Order(t)'
      BY <1>2, <3>1, <3>3, <3>4, <3>8, <3>9, <3>10, <3>11, <3>12 DEF Order
    <3>14. \A i \in DOMAIN q : ~(i > Buf[u])
      BY <1>2, <2>0, <3>1, <3>2 DEF TopicRoom
    <3>15. \A i \in DOMAIN a : i > Buf[u] => i = Buf[u] + 1 /\ a[i] = nrecv
      <4>1. ASSUME NEW i \in DOMAIN a, i > Buf[u] PROVE i = Buf[u] + 1 /\ a[i] = nrecv
        <5>1. i = Len(q) + 1
          BY <3>5, <3>14, <4>1
        <5>2. Len(q) <= Buf[u]
          <6>1. CASE Len(q) = 0
            BY <3>7, <6>1
          <6>2. CASE Len(q) # 0
            <7>1. Len(q) \in DOMAIN q
              BY <3>5, <6>2
            <7> QED
              BY <3>5, <3>7, <3>14, <7>1
          <6> QED
            BY <6>1, <6>2
        <5> QED
          BY <3>5, <3>7, <4>1, <5>1, <5>2
      <4> QED
        BY <4>1
    <3>16. TopicRoom(t)'
      BY <1>2, <3>1, <3>3, <3>4, <3>15 DEF TopicRoom
    <3> QED
      BY <3>13, <3>16
  <2> QED
    BY <2>1, <2>2
<1>6. \A c \in Subs : SubRoom(c)'
  BY <1>2, SubKept DEF Room
<1> QED
  BY <1>5, <1>6 DEF Room

\* What the mult had in its hands is in no channel past the buffer, and what it
\* takes now is newer than anything of the topic that was sent.
LEMMA MultRecvRoom ==
  ASSUME PubInv, Room, NEW u \in Topics, MultRecv(u)
  PROVE  Room'
<1>1. PICK q, h : q = tq[u] /\ h = Head(q)
  OBVIOUS
<1>2. /\ mpc[u] = "loop" /\ snap[u] = {} /\ MultFree(u) /\ q # <<>>
      /\ mval' = [mval EXCEPT ![u] = h] /\ tq' = [tq EXCEPT ![u] = Tail(q)]
      /\ mpc' = [mpc EXCEPT ![u] = "snapshot"] /\ to' = [to EXCEPT ![u] = None]
      /\ UNCHANGED <<pump, nrecv, topics, snap, box>>
  BY <1>1 DEF MultRecv, RoundOver, subs
<1>3. Shapes /\ tq \in [Topics -> Seq(Values)] /\ q \in Seq(Values) /\ MultShape /\ None \notin Subs
  BY <1>1, PubSubAssumption DEF PubInv, Shapes, PubShape
<1>4. /\ mval'[u] = h /\ mpc'[u] = "snapshot" /\ tq'[u] = Tail(q) /\ to'[u] = None
      /\ \A t \in Topics : t # u => /\ mval'[t] = mval[t] /\ mpc'[t] = mpc[t]
                                    /\ tq'[t] = tq[t] /\ to'[t] = to[t]
  BY <1>2, <1>3 DEF MultShape
<1>5. Order(u) /\ TopicRoom(u)
  BY DEF Room
<1>6. PICK r : r = Tail(q)
  OBVIOUS
<1>7. /\ Len(q) \in Nat /\ Len(q) > 0 /\ DOMAIN q = 1..Len(q) /\ h = q[1]
      /\ DOMAIN r = 1..(Len(q) - 1) /\ \A i \in DOMAIN r : r[i] = q[i + 1]
  BY <1>1, <1>2, <1>3, <1>6
<1>8. 1 \in DOMAIN q /\ \A i \in DOMAIN r : i \in Nat /\ i + 1 \in DOMAIN q /\ 1 < i + 1
  BY <1>7
<1>9. Items(r) \subseteq Items(q) /\ h \in Items(q)
  BY <1>7, <1>8 DEF Items
<1>10. nrecv \in Nat /\ mval[u] \in Nat /\ Items(q) \subseteq Nat /\ Buf[u] \in Nat
  BY <1>1, <1>3, PubNumbers
<1>11. /\ \A v \in Items(q) : /\ Source[v] = u /\ mval[u] < v
                              /\ v <= nrecv /\ (pump = "route" => v # nrecv)
       /\ \A i, j \in DOMAIN q : i < j => q[i] < q[j]
  BY <1>1, <1>5 DEF Order
<1>12. Order(u)'
  <2>1. \A i, j \in DOMAIN r : i < j => r[i] < r[j]
    <3>1. ASSUME NEW i \in DOMAIN r, NEW j \in DOMAIN r, i < j PROVE r[i] < r[j]
      <4>1. i + 1 < j + 1
        BY <1>8, <3>1
      <4> QED
        BY <1>7, <1>8, <1>11, <4>1
    <3> QED
      BY <3>1
  <2>2. \A v \in Items(r) : h < v
    <3>1. \A i \in DOMAIN r : h < r[i]
      BY <1>7, <1>8, <1>11
    <3> QED
      BY <3>1 DEF Items
  <2>3. Items(tq[u])' = Items(r)
    BY <1>4, <1>6 DEF Items
  <2> QED
    BY <1>2, <1>4, <1>6, <1>9, <1>11, <2>1, <2>2, <2>3 DEF Order
<1>13. TopicRoom(u)'
  <2>1. \A i \in DOMAIN r : ~(i > Buf[u])
    <3>1. ASSUME NEW i \in DOMAIN r PROVE ~(i > Buf[u])
      <4>1. i + 1 > Buf[u] => i + 1 = Buf[u] + 1
        BY <1>1, <1>5, <1>8 DEF TopicRoom
      <4> QED
        BY <1>8, <1>10, <4>1
    <3> QED
      BY <3>1
  <2>2. u \in topics
    BY <1>1, <1>2, <1>5 DEF TopicRoom
  <2> QED
    BY <1>2, <1>4, <1>6, <2>1, <2>2 DEF TopicRoom
<1>14. ASSUME NEW t \in Topics PROVE Order(t)' /\ TopicRoom(t)'
  <2>1. CASE t = u
    BY <1>12, <1>13, <2>1
  <2>2. CASE t # u
    <3>1. Order(t) /\ TopicRoom(t)
      BY DEF Room
    <3> QED
      BY <1>2, <1>4, <2>2, <3>1, OrderKept, TopicKept
  <2> QED
    BY <2>1, <2>2
<1>15. ASSUME NEW c \in Subs PROVE SubRoom(c)'
  <2>0. SubRoom(c)
    BY DEF Room
  <2>1. /\ \A i \in DOMAIN box[c] : i \in Nat /\ box[c][i] \in Values /\ box[c][i] \in Items(box[c])
        /\ Items(box[c]) \subseteq Values /\ Cap[c] \in Nat
        /\ \A v \in Values : v \in Nat /\ Source[v] \in Topics
    <3>1. /\ \A i \in DOMAIN box[c] : i \in Nat /\ box[c][i] \in Values
          /\ Items(box[c]) \subseteq Values /\ Cap[c] \in Nat
          /\ \A v \in Values : v \in Nat
      BY <1>3, PubNumbers
    <3> QED
      BY <3>1, PubConstants DEF Items
  <2>2. Items(box[c])' = Items(box[c])
    BY <1>2 DEF Items
  <2>3. mval[u] < h /\ h \in Nat
    BY <1>9, <1>10, <1>11
  <2>4. ASSUME NEW v \in Items(box[c])
        PROVE  /\ v <= mval'[Source[v]]
               /\ v = mval'[Source[v]] => mpc'[Source[v]] # "snapshot" /\ c \notin snap'[Source[v]]
    <3>1. v \in Nat /\ Source[v] \in Topics
      BY <2>1
    <3>2. /\ v <= mval[Source[v]]
          /\ v = mval[Source[v]] => mpc[Source[v]] # "snapshot" /\ c \notin snap[Source[v]]
      BY <2>0 DEF SubRoom
    <3>3. CASE Source[v] = u
      <4>1. v < h
        BY <1>10, <2>3, <3>1, <3>2, <3>3
      <4>2. v <= h /\ v # h
        BY <2>3, <3>1, <4>1
      <4> QED
        BY <1>4, <3>3, <4>2
    <3>4. CASE Source[v] # u
      BY <1>2, <1>4, <3>1, <3>2, <3>4
    <3> QED
      BY <3>3, <3>4
  <2>5. ASSUME NEW i \in DOMAIN box[c], i > Cap[c]
        PROVE  to'[Source[box[c][i]]] = c /\ mval'[Source[box[c][i]]] = box[c][i]
    <3>1. to[Source[box[c][i]]] = c /\ mval[Source[box[c][i]]] = box[c][i]
      BY <2>0, <2>5 DEF SubRoom
    <3>2. Source[box[c][i]] # u
      <4> SUFFICES ASSUME Source[box[c][i]] = u PROVE FALSE
        OBVIOUS
      <4>1. to[u] = c /\ mval[u] = box[c][i] /\ c # None
        BY <1>3, <3>1
      <4>2. i <= Cap[c]
        BY <1>2, <4>1 DEF MultFree, Accepted
      <4> QED
        BY <2>1, <2>5, <4>2
    <3>3. Source[box[c][i]] \in Topics
      BY <2>1
    <3> QED
      BY <1>4, <3>1, <3>2, <3>3
  <2> QED
    BY <1>2, <2>0, <2>2, <2>4, <2>5 DEF SubRoom
<1> QED
  BY <1>14, <1>15 DEF Room

LEMMA SnapshotRoom ==
  ASSUME PubInv, Room, NEW u \in Topics, Snapshot(u)
  PROVE  Room'
<1>1. /\ mpc[u] = "snapshot" /\ snap' = [snap EXCEPT ![u] = taps[u]]
      /\ mpc' = [mpc EXCEPT ![u] = "loop"]
      /\ UNCHANGED <<pump, nrecv, topics, tq, mval, to, box>>
  BY DEF Snapshot, pubs, subs
<1>2. Shapes /\ MultShape
  BY DEF PubInv, Shapes
<1>3. \A t \in Topics : t # u => mpc'[t] = mpc[t] /\ snap'[t] = snap[t]
  BY <1>1, <1>2 DEF MultShape
<1>4. \A t \in Topics : Order(t)' /\ TopicRoom(t)'
  BY <1>1, OrderKept, TopicKept DEF Room
<1>5. ASSUME NEW c \in Subs PROVE SubRoom(c)'
  <2>0. SubRoom(c) /\ Items(box[c])' = Items(box[c])
    BY <1>1 DEF Room, Items
  <2>1. \A v \in Items(box[c]) : Source[v] \in Topics
    BY <1>2, PubNumbers, PubConstants
  <2>2. ASSUME NEW v \in Items(box[c]), v = mval[Source[v]]
        PROVE  mpc'[Source[v]] # "snapshot" /\ c \notin snap'[Source[v]]
    <3>1. mpc[Source[v]] # "snapshot" /\ c \notin snap[Source[v]]
      BY <2>0, <2>2 DEF SubRoom
    <3> QED
      BY <1>1, <1>3, <2>1, <3>1
  <2> QED
    BY <1>1, <2>0, <2>2 DEF SubRoom
<1> QED
  BY <1>4, <1>5 DEF Room

LEMMA MultCloseRoom ==
  ASSUME PubInv, Room, NEW u \in Topics, MultClose(u)
  PROVE  Room'
<1>1. /\ mpc' = [mpc EXCEPT ![u] = "exited"]
      /\ UNCHANGED <<pump, nrecv, topics, tq, mval, snap, to, box>>
  BY DEF MultClose, pubs
<1>2. Shapes /\ MultShape
  BY DEF PubInv, Shapes
<1>3. \A t \in Topics : mpc'[t] = "snapshot" => mpc[t] = "snapshot"
  BY <1>1, <1>2 DEF MultShape
<1>4. \A t \in Topics : Order(t)' /\ TopicRoom(t)'
  BY <1>1, OrderKept, TopicKept DEF Room
<1>5. ASSUME NEW c \in Subs PROVE SubRoom(c)'
  <2>0. SubRoom(c) /\ Items(box[c])' = Items(box[c])
    BY <1>1 DEF Room, Items
  <2>1. \A v \in Items(box[c]) : Source[v] \in Topics
    BY <1>2, PubNumbers, PubConstants
  <2> QED
    BY <1>1, <1>3, <2>0, <2>1 DEF SubRoom
<1> QED
  BY <1>4, <1>5 DEF Room

\* The send before was accepted, so the mult has one value past a buffer, this one.
LEMMA DeliverRoom ==
  ASSUME PubInv, Room, NEW u \in Topics, NEW d \in Subs, Deliver(u, d)
  PROVE  Room'
<1>1. PICK x, q : x = mval[u] /\ q = box[d]
  OBVIOUS
<1>2. /\ mpc[u] = "loop" /\ MultFree(u) /\ d \in snap[u] /\ box' = [box EXCEPT ![d] = Append(q, x)]
      /\ snap' = [snap EXCEPT ![u] = snap[u] \ {d}] /\ to' = [to EXCEPT ![u] = d]
      /\ UNCHANGED <<pump, nrecv, topics, tq, mpc, mval>>
  BY <1>1 DEF Deliver, pubs
<1>3. Shapes /\ MultShape /\ SubShape /\ x \in Values /\ None \notin Subs
  BY <1>1, <1>2, PubSubAssumption DEF PubInv, Shapes, Serving
<1>4. /\ snap'[u] = snap[u] \ {d} /\ to'[u] = d
      /\ \A t \in Topics : t # u => snap'[t] = snap[t] /\ to'[t] = to[t]
  BY <1>2, <1>3 DEF MultShape
<1>5. \A t \in Topics : Order(t)' /\ TopicRoom(t)'
  BY <1>2, OrderKept, TopicKept DEF Room
<1>6. Source[x] = u /\ x \in Nat /\ mval[u] = x
  <2>1. x \in Nat /\ x # 0
    BY <1>3, PubNumbers
  <2> QED
    BY <1>1, <2>1 DEF Room, Order
<1>7. \A c \in Subs : \A i \in DOMAIN box[c] : i > Cap[c] => Source[box[c][i]] # u
  <2> SUFFICES ASSUME NEW c \in Subs, NEW i \in DOMAIN box[c], i > Cap[c], Source[box[c][i]] = u
               PROVE  FALSE
    OBVIOUS
  <2>1. to[u] = c /\ mval[u] = box[c][i] /\ c # None
    BY <1>3 DEF Room, SubRoom
  <2>2. i <= Cap[c]
    BY <1>2, <2>1 DEF MultFree, Accepted
  <2>3. i \in Nat /\ Cap[c] \in Nat
    BY <1>3, PubNumbers
  <2> QED
    BY <2>2, <2>3
<1>8. ASSUME NEW c \in Subs, c # d PROVE SubRoom(c)'
  <2>0. SubRoom(c)
    BY DEF Room
  <2>1. box'[c] = box[c] /\ Items(box[c])' = Items(box[c])
    <3>1. box'[c] = box[c]
      BY <1>2, <1>3, <1>8 DEF SubShape
    <3> QED
      BY <3>1 DEF Items
  <2>2. \A v \in Items(box[c]) : Source[v] \in Topics
    BY <1>3, PubNumbers, PubConstants
  <2>3. \A v \in Items(box[c]) : c \in snap'[Source[v]] => c \in snap[Source[v]]
    BY <1>4, <2>2
  <2>4. \A i \in DOMAIN box[c] : box[c][i] \in Items(box[c])
    BY DEF Items
  <2>5. \A i \in DOMAIN box[c] : i > Cap[c] => to'[Source[box[c][i]]] = c
    BY <1>4, <1>7, <2>0, <2>2, <2>4 DEF SubRoom
  <2>6. \A i, j \in DOMAIN box'[c] : box'[c][i] = box'[c][j] => i = j
    BY <2>0, <2>1 DEF SubRoom
  <2>7. \A v \in Items(box[c]) :
          /\ v <= mval'[Source[v]]
          /\ v = mval'[Source[v]] => mpc'[Source[v]] # "snapshot" /\ c \notin snap'[Source[v]]
    BY <1>2, <2>0, <2>3 DEF SubRoom
  <2>8. \A i \in DOMAIN box[c] : i > Cap[c] => mval'[Source[box[c][i]]] = box[c][i]
    BY <1>2, <2>0 DEF SubRoom
  <2> QED
    BY <2>1, <2>5, <2>6, <2>7, <2>8 DEF SubRoom
<1>9. SubRoom(d)'
  <2>0. SubRoom(d)
    BY DEF Room
  <2>1. PICK a : a = Append(q, x)
    OBVIOUS
  <2>2. box'[d] = a /\ q \in Seq(Values)
    BY <1>1, <1>2, <1>3, <2>1 DEF SubShape
  <2>3. /\ Len(q) \in Nat /\ DOMAIN q = 1..Len(q) /\ DOMAIN a = 1..(Len(q) + 1)
        /\ \A i \in 1..Len(q) : a[i] = q[i]
        /\ a[Len(q) + 1] = x
    BY <1>3, <2>1, <2>2
  <2>4. \A i \in DOMAIN a : (i \in DOMAIN q /\ a[i] = q[i]) \/ (i = Len(q) + 1 /\ a[i] = x)
    BY <2>3
  <2>5. Items(a) = Items(q) \cup {x}
    BY <1>3, <2>1, <2>2, AppendItems
  <2>6. \A i \in DOMAIN q : q[i] \in Items(q) /\ Source[q[i]] \in Topics
    <3>1. \A i \in DOMAIN q : q[i] \in Values
      BY <2>2
    <3> QED
      BY <3>1, PubConstants DEF Items
  <2>7. x \notin Items(q)
    BY <1>1, <1>2, <1>6, <2>0 DEF SubRoom
  <2>8. \A i, j \in DOMAIN a : a[i] = a[j] => i = j
    <3>1. \A i, j \in DOMAIN q : q[i] = q[j] => i = j
      BY <1>1, <2>0 DEF SubRoom
    <3> QED
      BY <2>4, <2>6, <2>7, <3>1
  <2>9. \A v \in Items(q) : Source[v] \in Topics
    BY <1>1, <1>3, PubNumbers, PubConstants
  <2>10. ASSUME NEW v \in Items(a)
         PROVE  /\ v <= mval[Source[v]]
                /\ v = mval[Source[v]] => mpc[Source[v]] # "snapshot" /\ d \notin snap'[Source[v]]
    <3>1. CASE v = x
      <4>1. x <= mval[u]
        BY <1>6
      <4> QED
        BY <1>2, <1>4, <1>6, <3>1, <4>1
    <3>2. CASE v \in Items(q)
      <4>1. /\ v <= mval[Source[v]]
            /\ v = mval[Source[v]] => mpc[Source[v]] # "snapshot" /\ d \notin snap[Source[v]]
        BY <1>1, <2>0, <3>2 DEF SubRoom
      <4> QED
        BY <1>4, <2>9, <3>2, <4>1
    <3> QED
      BY <2>5, <3>1, <3>2
  <2>11. ASSUME NEW i \in DOMAIN a, i > Cap[d]
         PROVE  to'[Source[a[i]]] = d /\ mval[Source[a[i]]] = a[i]
    <3>1. CASE i \in DOMAIN q /\ a[i] = q[i]
      <4>1. to[Source[q[i]]] = d /\ mval[Source[q[i]]] = q[i] /\ Source[q[i]] # u
        BY <1>1, <1>7, <2>0, <2>11, <3>1 DEF SubRoom
      <4> QED
        BY <1>4, <2>6, <3>1, <4>1
    <3>2. CASE i = Len(q) + 1 /\ a[i] = x
      BY <1>4, <1>6, <3>2
    <3> QED
      BY <2>4, <3>1, <3>2
  <2>12. Items(box[d])' = Items(a)
    BY <2>2 DEF Items
  <2>13. mval' = mval /\ mpc' = mpc
    BY <1>2
  <2>14. \A i \in DOMAIN box'[d] : i > Cap[d] =>
           to'[Source[box'[d][i]]] = d /\ mval'[Source[box'[d][i]]] = box'[d][i]
    BY <2>2, <2>11, <2>13
  <2>15. \A v \in Items(box[d])' :
           /\ v <= mval'[Source[v]]
           /\ v = mval'[Source[v]] => mpc'[Source[v]] # "snapshot" /\ d \notin snap'[Source[v]]
    BY <2>10, <2>12, <2>13
  <2> QED
    BY <2>2, <2>8, <2>14, <2>15 DEF SubRoom
<1> QED
  BY <1>5, <1>8, <1>9 DEF Room

LEMMA TakeRoom ==
  ASSUME PubInv, Room, NEW d \in Subs, Take(d)
  PROVE  Room'
<1>1. PICK q, r : q = box[d] /\ r = Tail(q)
  OBVIOUS
<1>2. /\ q # <<>> /\ box' = [box EXCEPT ![d] = r]
      /\ UNCHANGED <<pump, nrecv, topics, tq, mpc, mval, snap, to>>
  BY <1>1 DEF Take, pubs, mults
<1>3. Shapes /\ SubShape /\ q \in Seq(Values)
  BY <1>1 DEF PubInv, Shapes, SubShape
<1>4. box'[d] = r /\ \A c \in Subs : c # d => box'[c] = box[c]
  BY <1>2, <1>3 DEF SubShape
<1>5. \A t \in Topics : Order(t)' /\ TopicRoom(t)'
  BY <1>2, OrderKept, TopicKept DEF Room
<1>6. /\ Len(q) \in Nat /\ DOMAIN q = 1..Len(q) /\ DOMAIN r = 1..(Len(q) - 1)
      /\ \A i \in DOMAIN r : r[i] = q[i + 1]
  BY <1>1, <1>2, <1>3
<1>7. \A i \in DOMAIN r : i \in Nat /\ i + 1 \in DOMAIN q /\ (i > Cap[d] => i + 1 > Cap[d])
  BY <1>3, <1>6, PubNumbers
<1>8. SubRoom(d)'
  <2>0. SubRoom(d)
    BY DEF Room
  <2>1. \A i, j \in DOMAIN r : r[i] = r[j] => i = j
    <3>1. ASSUME NEW i \in DOMAIN r, NEW j \in DOMAIN r, r[i] = r[j] PROVE i = j
      <4>1. i + 1 = j + 1
        BY <1>1, <1>6, <1>7, <2>0, <3>1 DEF SubRoom
      <4> QED
        BY <1>7, <4>1
    <3> QED
      BY <3>1
  <2>2. Items(r) \subseteq Items(q) /\ Items(box[d])' = Items(r)
    BY <1>4, <1>6, <1>7 DEF Items
  <2>3. \A i \in DOMAIN r : i > Cap[d] => to[Source[r[i]]] = d /\ mval[Source[r[i]]] = r[i]
    BY <1>1, <1>6, <1>7, <2>0 DEF SubRoom
  <2> QED
    BY <1>1, <1>2, <1>4, <2>0, <2>1, <2>2, <2>3 DEF SubRoom
<1>9. ASSUME NEW c \in Subs, c # d PROVE SubRoom(c)'
  <2>1. SubRoom(c) /\ box'[c] = box[c]
    BY <1>4, <1>9 DEF Room
  <2> QED
    BY <1>2, <2>1, SubKept
<1> QED
  BY <1>5, <1>8, <1>9 DEF Room

\* The other steps take nothing from a channel and add nothing to one.
LEMMA RoomKept ==
  ASSUME PubInv, Room, topics \subseteq topics', UNCHANGED <<nrecv, tq, mpc, mval, to, box>>,
         pump' = "route" => pump = "route", \A t \in Topics : snap'[t] \subseteq snap[t]
  PROVE  Room'
<1>1. \A t \in Topics : Order(t)' /\ TopicRoom(t)'
  BY OrderKept, TopicKept DEF Room
<1>2. \A c \in Subs : \A v \in Items(box[c]) : Source[v] \in Topics
  BY PubNumbers, PubConstants DEF PubInv
<1>3. \A c \in Subs : SubRoom(c)'
  BY <1>2, SubKept DEF Room
<1> QED
  BY <1>1, <1>3 DEF Room

\* Every step keeps the room.
LEMMA RoomNext == PubInv /\ Room /\ [PubSubNext]_pubSubVars => Room'
<1> SUFFICES ASSUME PubInv, Room, [PubSubNext]_pubSubVars PROVE Room'
  OBVIOUS
<1>1. CASE PubStep
  <2>1. CASE PubClose
    BY <2>1, RoomKept DEF PubClose, mults, subs
  <2> QED
    BY <1>1, <2>1, PubRecvRoom, PubRouteRoom DEF PubStep
<1>2. ASSUME NEW t \in Topics, MultStep(t) PROVE Room'
  <2>1. ASSUME NEW c \in Subs, DropTap(t, c) PROVE Room'
    <3>1. \A u \in Topics : snap'[u] \subseteq snap[u]
      BY <2>1 DEF DropTap, PubInv, Shapes, MultShape
    <3> QED
      BY <2>1, <3>1, RoomKept DEF DropTap, pubs, subs
  <2> QED
    BY <1>2, <2>1, MultRecvRoom, SnapshotRoom, MultCloseRoom, DeliverRoom DEF MultStep
<1>3. ASSUME NEW p \in Clients, Find(p) PROVE Room'
  <2>1. /\ UNCHANGED <<pump, nrecv, tq, mpc, mval, snap, to, box>>
        /\ topics \subseteq topics'
    BY <1>3 DEF Find, mults, subs
  <2> QED
    BY <2>1, RoomKept
<1>4. ASSUME NEW p \in Clients, NEW t \in Topics, Tap(p, t) \/ Untap(p, t) PROVE Room'
  <2>1. UNCHANGED <<pump, nrecv, topics, tq, mpc, mval, snap, to, box>>
    BY <1>4 DEF Tap, Untap, pubs, mults, subs
  <2> QED
    BY <2>1, RoomKept
<1>5. ASSUME NEW c \in Subs, Take(c) \/ CloseSub(c) PROVE Room'
  <2>1. CASE CloseSub(c)
    BY <2>1, RoomKept DEF CloseSub, pubs, mults
  <2> QED
    BY <1>5, <2>1, TakeRoom
<1>6. CASE UNCHANGED pubSubVars
  BY <1>6, RoomKept DEF pubSubVars, pubs, mults, subs
<1> QED
  BY <1>1, <1>2, <1>3, <1>4, <1>5, <1>6 DEF PubSubNext, ClientStep

\* The types, with the lengths of the channels: the pub's pump is parked on one topic
\* at most, so a topic's channel has one value past its buffer, and a subscriber's
\* channel one for each topic, whatever the mults do (chan_pump.go:415-456).
THEOREM PubSubTypes == PubSubSpec => []PubSubTypeOK
<1>1. PubInv /\ Room => PubSubTypeOK
  <2> SUFFICES ASSUME PubInv, Room PROVE PubSubTypeOK
    OBVIOUS
  <2>0. Shapes
    BY DEF PubInv
  <2>1. ASSUME NEW t \in Topics PROVE tq[t] \in Seq(Values) /\ Len(tq[t]) <= Buf[t] + 1
    <3>1. tq[t] \in Seq(Values) /\ Buf[t] \in Nat
      BY <2>0, PubNumbers
    <3>2. Len(tq[t]) \in Nat /\ DOMAIN tq[t] = 1..Len(tq[t])
      BY <3>1
    <3>3. \A i \in DOMAIN tq[t] : i > Buf[t] => i = Buf[t] + 1
      BY DEF Room, TopicRoom
    <3>4. CASE Len(tq[t]) = 0
      BY <3>1, <3>4
    <3>5. CASE Len(tq[t]) # 0
      <4>1. Len(tq[t]) \in DOMAIN tq[t]
        BY <3>2, <3>5
      <4> QED
        BY <3>1, <3>2, <3>3, <4>1
    <3> QED
      BY <3>1, <3>4, <3>5
  <2>2. ASSUME NEW c \in Subs
        PROVE  box[c] \in Seq(Values) /\ Len(box[c]) <= Cap[c] + Cardinality(Topics)
    <3>1. box[c] \in Seq(Values) /\ Cap[c] \in Nat /\ SubRoom(c)
      BY <2>0, PubNumbers DEF Room
    <3>2. Len(box[c]) \in Nat /\ DOMAIN box[c] = 1..Len(box[c])
      BY <3>1
    <3>3. IsFiniteSet(Topics) /\ Cardinality(Topics) \in Nat
      BY PubSubAssumption, FS_CardinalityType
    <3> DEFINE P == (Cap[c] + 1)..Len(box[c])
               f == [i \in P |-> Source[box[c][i]]]
    <3>4. \A i \in P : i \in DOMAIN box[c] /\ i > Cap[c]
      BY <3>1, <3>2
    <3>5. \A i \in P : box[c][i] \in Values /\ Source[box[c][i]] \in Topics
      BY <3>1, <3>4, PubConstants
    <3>6. \A i, j \in P : Source[box[c][i]] = Source[box[c][j]] => i = j
      <4>1. \A i \in P : mval[Source[box[c][i]]] = box[c][i]
        BY <3>1, <3>4 DEF SubRoom
      <4> QED
        BY <3>1, <3>4, <4>1 DEF SubRoom
    <3>7. f \in Injection(P, Topics)
      BY <3>5, <3>6 DEF Injection, IsInjective
    <3>8. Cardinality(P) <= Cardinality(Topics)
      <4> HIDE DEF P, f
      <4> QED
        BY <3>3, <3>7, FS_Injection
    <3>9. Cardinality(P) = IF Cap[c] + 1 > Len(box[c]) THEN 0 ELSE Len(box[c]) - (Cap[c] + 1) + 1
      <4>1. Cap[c] + 1 \in Int /\ Len(box[c]) \in Int
        BY <3>1, <3>2
      <4> QED
        BY <4>1, FS_Interval
    <3> HIDE DEF P, f
    <3> QED
      BY <3>1, <3>2, <3>3, <3>8, <3>9
  <2>3. \A p \in Clients : ncalls[p] \in 0..Len(Calls[p])
    BY <2>0 DEF Shapes, ClientShape
  <2>4. \A c \in Subs : got[c] \in Seq(Values)
    BY <2>0 DEF Shapes, SubShape
  <2> QED
    BY <2>0, <2>1, <2>2, <2>3, <2>4
       DEF Shapes, PubShape, MultShape, TapShape, SubShape, ClientShape, PastShape, PubSubTypeOK
<1> QED
  BY <1>1, PubInit, PubNext, RoomInit, RoomNext, PTL DEF PubSubSpec
===============================================================================
