------------------------------- MODULE Agent -------------------------------
(***************************************************************************)
(* One lang.Agent (pkg/lang/agent.go): a value, an action queue drained by *)
(* one goroutine, and the goroutines that send, await, await-for, restart  *)
(* and configure it.  The queue is a Go channel of QCap slots (external):  *)
(* a sender parks when it is full and nobody but the drainer receives.     *)
(* Each critical section of a.mtx is one step, and so is each queue        *)
(* operation and each call out of the package (action, watch, handler).    *)
(***************************************************************************)
EXTENDS Naturals, Sequences, FiniteSets

CONSTANTS
  Clients,     \* goroutines that use the agent
  Drainer,     \* the goroutine NewAgent starts
  QCap,        \* capacity of a.queue (32 in the code)
  Calls,       \* the operations each client may use for its first, second ... call
  BodyEnds,    \* how an action may end
  WatchEnds,   \* how notifying the watches may end
  Nests,       \* the clients whose actions, with the watches and the handler, may send to the agent
  MaxCalls     \* bound: calls per client

Operations == {"send", "await", "awaitfor", "restart", "clear", "mode", "handler"}

ASSUME AgentAssumption ==
  /\ Drainer \notin Clients
  /\ QCap \in Nat \ {0} /\ MaxCalls \in Nat
  /\ Calls \in [Clients -> [1..MaxCalls -> SUBSET Operations]]
  /\ BodyEnds \subseteq {"ok", "panic"} /\ WatchEnds \subseteq {"ok", "panic"}
  /\ Nests \subseteq Clients

VARIABLES
  state,    \* a.state: the values it was built from, oldest first
  err,      \* a.err # nil
  mode,     \* a.errorMode
  handler,  \* a.errorHandler # nil
  queue,    \* the buffer of a.queue
  sendq,    \* goroutines parked sending on it, longest waiting first
  item,     \* the entry each goroutine is sending, or sent last
  fired,    \* latches whose done channel is closed
  dpc,      \* where the drainer is
  cur,      \* the entry it runs
  old,      \* the state the action was given
  emode,    \* the error mode recordError read
  pc, op,   \* where each client is, and in which call
  held,     \* the state a clear-agent-errors has read
  expired,  \* the deadline of a client's await-for has passed
  ncalls,   \* calls it has made
  before,   \* history: the actions pending when its await began
  ran       \* history: the actions run, in order

cell   == <<state, err, mode, handler>>
chan   == <<queue, sendq, item>>
drain  == <<dpc, cur, old, emode>>
client == <<pc, op, held, expired, ncalls, before>>
vars   == <<state, err, mode, handler, queue, sendq, item, fired,
            dpc, cur, old, emode, pc, op, held, expired, ncalls, before,
            ran>>

Senders == Clients \cup {Drainer}

\* What goes through the queue: an action, or the latch of an await.  An
\* action sent while another runs has that action's sender and number, nested.
Entry == [kind : {"act", "latch", "none"}, by : Senders, n : 0..MaxCalls, nested : BOOLEAN]
NoEntry == [kind |-> "none", by |-> Drainer, n |-> 0, nested |-> FALSE]

Modes == {"fail", "continue"}

TypeOK ==
  /\ state \in Seq(Entry) /\ err \in BOOLEAN
  /\ mode \in Modes /\ handler \in BOOLEAN
  /\ queue \in Seq(Entry) /\ Len(queue) <= QCap
  /\ sendq \in Seq(Senders) /\ item \in [Senders -> Entry]
  /\ fired \subseteq Entry
  /\ dpc \in {"idle", "start", "body", "park", "install", "watch", "error", "handler", "fail"}
  /\ cur \in Entry /\ old \in Seq(Entry) /\ emode \in Modes
  /\ pc \in [Clients -> {"idle", "enqueue", "park", "latch", "check", "clear"}]
  /\ held \in [Clients -> Seq(Entry)]
  /\ op \in [Clients -> {"none", "send", "await", "awaitfor"}]
  /\ expired \in [Clients -> BOOLEAN]
  /\ ncalls \in [Clients -> 0..MaxCalls]
  /\ before \in [Clients -> SUBSET Entry]
  /\ ran \in Seq(Entry)

Init ==
  /\ state = <<>> /\ err = FALSE
  /\ mode \in Modes /\ handler \in BOOLEAN
  /\ queue = <<>> /\ sendq = <<>> /\ item = [p \in Senders |-> NoEntry]
  /\ fired = {}
  /\ dpc = "idle" /\ cur = NoEntry /\ old = <<>> /\ emode = "fail"
  /\ pc = [p \in Clients |-> "idle"]
  /\ op = [p \in Clients |-> "none"]
  /\ held = [p \in Clients |-> <<>>]
  /\ expired = [p \in Clients |-> FALSE]
  /\ ncalls = [p \in Clients |-> 0]
  /\ before = [p \in Clients |-> {}]
  /\ ran = <<>>
----------------------------------------------------------------------------
(***************************************************************************)
(* The drainer: for act := range a.queue { act() }.                        *)
(***************************************************************************)

\* The drainer is inside runAction.
Busy == dpc # "idle"

\* It receives the next entry; a parked sender's entry takes the free slot.
\* A latch closes its done channel there and then.
Take ==
  /\ ~Busy /\ queue # <<>>
  /\ cur' = Head(queue)
  /\ IF Head(queue).kind = "latch"
     THEN fired' = fired \cup {Head(queue)} /\ UNCHANGED dpc
     ELSE dpc' = "start" /\ UNCHANGED fired
  /\ IF sendq = <<>>
     THEN queue' = Tail(queue) /\ UNCHANGED <<sendq, pc, op>>
     ELSE LET s == Head(sendq) IN
          /\ queue' = Append(Tail(queue), item[s])
          /\ sendq' = Tail(sendq)
          /\ pc' = [pc EXCEPT ![s] = IF op[s] = "send" THEN "idle" ELSE "latch"]
          /\ op' = [op EXCEPT ![s] = IF op[s] = "send" THEN "none" ELSE op[s]]
  /\ UNCHANGED <<cell, item, old, emode, held, expired, ncalls, before, ran>>

\* Mutant: a failed agent keeps the action for later, behind the others.
Mut_RunAction ==
  /\ dpc = "start"
  /\ IF err
     THEN dpc' = "idle" /\ queue' = Append(queue, cur) /\ UNCHANGED <<old, ran>>
     ELSE dpc' = "body" /\ old' = state /\ ran' = Append(ran, cur) /\ UNCHANGED queue
  /\ UNCHANGED <<cell, sendq, item, fired, cur, emode, client>>

\* runAction's first critical section: a failed agent drops the action.
RunAction ==
  /\ dpc = "start"
  /\ IF err
     THEN dpc' = "idle" /\ UNCHANGED <<old, ran>>
     ELSE dpc' = "body" /\ old' = state /\ ran' = Append(ran, cur)
  /\ UNCHANGED <<cell, chan, fired, cur, emode, client>>

\* The action returns, or panics and is recovered.
BodyEnd ==
  /\ dpc = "body"
  /\ \E e \in BodyEnds : dpc' = IF e = "ok" THEN "install" ELSE "error"
  /\ UNCHANGED <<cell, chan, fired, cur, old, emode, client, ran>>

\* The action, a watch or the error handler sends to this agent, once in the run of
\* an action: they all run on the drainer.  (Send's error check passes: the agent has
\* not failed while the drainer runs an action, its watches or its handler.)
NestedSend ==
  /\ dpc \in {"body", "watch", "handler"} /\ cur.by \in Nests /\ ~cur.nested
  /\ item[Drainer] # [cur EXCEPT !.nested = TRUE]
  /\ item' = [item EXCEPT ![Drainer] = [cur EXCEPT !.nested = TRUE]]
  /\ IF Len(queue) < QCap
     THEN queue' = Append(queue, item'[Drainer]) /\ UNCHANGED <<sendq, dpc>>
     ELSE sendq' = Append(sendq, Drainer) /\ dpc' = "park" /\ UNCHANGED queue
  /\ UNCHANGED <<cell, fired, cur, old, emode, client, ran>>

\* runAction's second critical section.
Install ==
  /\ dpc = "install"
  /\ state' = Append(old, cur)
  /\ dpc' = "watch"
  /\ UNCHANGED <<err, mode, handler, chan, fired, cur, old, emode, client, ran>>

\* Mutant: a panicking watch is not recovered and ends the drainer.
Mut_NotifyWatches ==
  /\ dpc = "watch"
  /\ \E e \in WatchEnds : dpc' = IF e = "ok" THEN "idle" ELSE "dead"
  /\ UNCHANGED <<cell, chan, fired, cur, old, emode, client, ran>>

\* notifyWatches under its recover.
NotifyWatches ==
  /\ dpc = "watch"
  /\ \E e \in WatchEnds : dpc' = IF e = "ok" THEN "idle" ELSE "error"
  /\ UNCHANGED <<cell, chan, fired, cur, old, emode, client, ran>>

\* recordError reads the handler and the mode, and calls the handler if any.
RecordError ==
  /\ dpc = "error"
  /\ emode' = mode
  /\ dpc' = IF handler THEN "handler" ELSE IF mode = "fail" THEN "fail" ELSE "idle"
  /\ UNCHANGED <<cell, chan, fired, cur, old, client, ran>>

\* The handler, if any, has returned (its panic is swallowed): fail the agent
\* unless the mode that was read said to continue.
RecordErrorEnd ==
  /\ dpc \in {"handler", "fail"}
  /\ err' = (err \/ emode = "fail")
  /\ dpc' = "idle"
  /\ UNCHANGED <<state, mode, handler, chan, fired, cur, old, emode, client, ran>>
----------------------------------------------------------------------------
(***************************************************************************)
(* The clients.                                                            *)
(***************************************************************************)

Begin(p, o) ==
  /\ pc[p] = "idle" /\ ncalls[p] < MaxCalls /\ o \in Calls[p][ncalls[p] + 1]
  /\ ncalls' = [ncalls EXCEPT ![p] = @ + 1]

\* The actions sent before this moment that have not finished.
Pending ==
  {queue[i] : i \in {j \in DOMAIN queue : queue[j].kind = "act"}}
    \cup (IF Busy THEN {cur} ELSE {})

\* Send, Await and AwaitForOne start alike: a failed agent is refused, and an
\* entry is made ready for the queue.
Submit(p, o, kind) ==
  /\ Begin(p, o)
  /\ IF err
     THEN UNCHANGED <<pc, op, item, before>>
     ELSE /\ pc' = [pc EXCEPT ![p] = "enqueue"]
          /\ op' = [op EXCEPT ![p] = o]
          /\ item' = [item EXCEPT ![p] = [kind |-> kind, by |-> p, n |-> ncalls[p] + 1,
                                          nested |-> FALSE]]
          /\ before' = [before EXCEPT ![p] = IF kind = "latch" THEN Pending ELSE {}]
  /\ UNCHANGED <<cell, queue, sendq, fired, drain, held, expired, ran>>

Send(p)        == Submit(p, "send", "act")
AwaitForOne(p) == Submit(p, "awaitfor", "latch")

\* Mutant: nothing queued, nothing to wait for.
Mut_Await(p) ==
  IF queue = <<>>
  THEN /\ Begin(p, "await")
       /\ pc' = [pc EXCEPT ![p] = "check"]
       /\ op' = [op EXCEPT ![p] = "await"]
       /\ before' = [before EXCEPT ![p] = Pending]
       /\ UNCHANGED <<cell, chan, fired, drain, held, expired, ran>>
  ELSE Submit(p, "await", "latch")

Await(p) == Submit(p, "await", "latch")

\* a.queue <- entry: a send then returns, an await goes on to wait.
Enqueue(p) ==
  /\ pc[p] = "enqueue"
  /\ IF Len(queue) < QCap
     THEN /\ queue' = Append(queue, item[p])
          /\ pc' = [pc EXCEPT ![p] = IF op[p] = "send" THEN "idle" ELSE "latch"]
          /\ op' = [op EXCEPT ![p] = IF op[p] = "send" THEN "none" ELSE op[p]]
          /\ UNCHANGED sendq
     ELSE /\ sendq' = Append(sendq, p)
          /\ pc' = [pc EXCEPT ![p] = "park"]
          /\ UNCHANGED <<queue, op>>
  /\ UNCHANGED <<cell, item, fired, drain, held, expired, ncalls, before, ran>>

\* An await or await-for returns; nobody else knows its latch.
Return(p) ==
  /\ pc' = [pc EXCEPT ![p] = "idle"]
  /\ op' = [op EXCEPT ![p] = "none"]
  /\ fired' = fired \ {item[p]}
  /\ item' = [item EXCEPT ![p] = NoEntry]
  /\ expired' = [expired EXCEPT ![p] = FALSE]
  /\ before' = [before EXCEPT ![p] = {}]

\* The deadline of an await-for passes.
Deadline(p) ==
  /\ op[p] = "awaitfor" /\ ~expired[p]
  /\ expired' = [expired EXCEPT ![p] = TRUE]
  /\ UNCHANGED <<cell, chan, fired, drain, pc, op, held, ncalls, before, ran>>

\* Mutant: the wait ignores the timer.
Mut_AwaitWake(p) ==
  /\ pc[p] = "latch" /\ item[p] \in fired
  /\ pc' = [pc EXCEPT ![p] = "check"]
  /\ UNCHANGED <<cell, chan, fired, drain, op, held, expired, ncalls, before, ran>>

\* <-done, and in an await-for the timer too.
AwaitWake(p) ==
  /\ pc[p] = "latch"
  /\ \/ /\ item[p] \in fired
        /\ pc' = [pc EXCEPT ![p] = "check"]
        /\ UNCHANGED <<op, item, fired, expired, before>>
     \/ op[p] = "awaitfor" /\ expired[p] /\ Return(p)
  /\ UNCHANGED <<cell, queue, sendq, drain, held, ncalls, ran>>

\* The error check after the latch has fired.
AwaitCheck(p) ==
  /\ pc[p] = "check"
  /\ Return(p)
  /\ UNCHANGED <<cell, queue, sendq, drain, held, ncalls, ran>>

\* Mutant: an agent that has not failed may be restarted too.
Mut_RestartWith(v) ==
  state' = v /\ err' = FALSE

\* Restart(v): install v and clear the error of a failed agent.
RestartWith(v) ==
  \/ err /\ state' = v /\ err' = FALSE
  \/ ~err /\ UNCHANGED <<state, err>>

\* restart-agent, with a state of the client's own.
Restart(p) ==
  /\ Begin(p, "restart")
  /\ RestartWith(<<[kind |-> "none", by |-> p, n |-> ncalls[p] + 1, nested |-> FALSE]>>)
  /\ UNCHANGED <<mode, handler, chan, fired, drain, pc, op, held, expired, before, ran>>

\* clear-agent-errors: a.Restart(a.Deref()), two critical sections.
ClearDeref(p) ==
  /\ Begin(p, "clear")
  /\ held' = [held EXCEPT ![p] = state]
  /\ pc' = [pc EXCEPT ![p] = "clear"]
  /\ UNCHANGED <<cell, chan, fired, drain, op, expired, before, ran>>

ClearRestart(p) ==
  /\ pc[p] = "clear"
  /\ RestartWith(held[p])
  /\ pc' = [pc EXCEPT ![p] = "idle"]
  /\ held' = [held EXCEPT ![p] = <<>>]
  /\ UNCHANGED <<mode, handler, chan, fired, drain, op, expired, ncalls, before, ran>>

SetErrorMode(p) ==
  /\ Begin(p, "mode")
  /\ mode' \in Modes
  /\ UNCHANGED <<state, err, handler, chan, fired, drain, pc, op, held, expired, before, ran>>

SetErrorHandler(p) ==
  /\ Begin(p, "handler")
  /\ handler' \in BOOLEAN
  /\ UNCHANGED <<state, err, mode, chan, fired, drain, pc, op, held, expired, before, ran>>
----------------------------------------------------------------------------
\* What the package runs by itself: between two calls out, and inside calls.
DrainStep == Take \/ RunAction \/ Install \/ RecordError
Inside(p) == Enqueue(p) \/ AwaitWake(p) \/ AwaitCheck(p) \/ ClearRestart(p)

\* The user's code: actions, watches and handlers return.
CallsReturn == BodyEnd \/ NotifyWatches \/ RecordErrorEnd

Invoke(p) ==
  \/ Send(p) \/ Await(p) \/ AwaitForOne(p)
  \/ Restart(p) \/ ClearDeref(p) \/ SetErrorMode(p) \/ SetErrorHandler(p)

Next ==
  \/ DrainStep \/ CallsReturn \/ NestedSend
  \/ \E p \in Clients : Invoke(p) \/ Inside(p) \/ Deadline(p)

Spec == Init /\ [][Next]_vars

\* Go schedules every runnable goroutine and fires every timer; actions, watches
\* and handlers return.
FairSpec ==
  /\ Spec
  /\ WF_vars(DrainStep) /\ WF_vars(CallsReturn)
  /\ \A p \in Clients : WF_vars(Inside(p)) /\ WF_vars(Deadline(p))
----------------------------------------------------------------------------
(***************************************************************************)
(* Properties.                                                             *)
(***************************************************************************)

\* Actions are serialized: the value an action was given is still the agent's
\* state when its result is installed, although runAction reads and writes it
\* in two critical sections and Restart writes it too (agent.go:221-259,
\* 363-372): no update is lost.
NoLostUpdate == dpc \in {"body", "install"} => old = state /\ ~err

\* Actions run in send order (agent.go:195-196): two actions of one client run
\* in the order it sent them, whatever parks, fails or is dropped in between.
SendOrder ==
  \A i, j \in DOMAIN ran :
    (i < j /\ ran[i].by = ran[j].by /\ ran[i].nested = ran[j].nested)
      => ran[i].n < ran[j].n

\* When the latch of an await has fired, no action sent before the await began
\* is still queued or running (agent.go:300-302).
AwaitCoversSent ==
  \A p \in Clients : pc[p] = "check" => before[p] \cap Pending = {}

\* Every call returns while actions return: parked senders are let in, latches
\* fire, also past failures and restarts.  The one exception is an action, a watch
\* or a handler that sends to its own agent while the queue is full, which parks
\* the drainer for good.
CallsFinish == \A p \in Clients : (pc[p] # "idle") ~> (pc[p] = "idle" \/ dpc = "park")

\* An await-for whose latch is in the queue returns by its deadline, also when
\* the drainer never gets to it (agent.go:325-327: "but no later than the shared
\* absolute deadline").
DeadlineHonoured ==
  \A p \in Clients : (op[p] = "awaitfor" /\ pc[p] = "latch") ~> (op[p] # "awaitfor")
=============================================================================
