-------------------------------- MODULE Alts --------------------------------
(***************************************************************************)
(* lang.Alts (pkg/lang/chan_alts.go): alts! on several channels at once.   *)
(* A call tries its ports in order without blocking (tryReady), answers    *)
(* the :default if there is one, and else waits in one reflect.Select; a   *)
(* write to a channel with a transducer or to a promise-chan has no select *)
(* case and is retried on a timer.  An offer to a transducer channel runs  *)
(* the step with c.mu held: it adds any number of elements, parks when the *)
(* buffer fills up meanwhile, and keeps the others from c.mu; a throwing   *)
(* ex-handler leaves c.mu locked.                                          *)
(*                                                                         *)
(* A channel is abstracted to its buffer, its lock and its closing (module *)
(* Channel has the detail; of a transducer, what its completion adds or    *)
(* throws and a reduced step, which closes the channel, are left to it).   *)
(* The goroutines that serve it are callers of Alts too, a single port     *)
(* standing for <! and >!.  A goroutine parked in the select is passive:   *)
(* whoever completes one of its cases completes its call.                  *)
(* reflect.Select is external; which of several parked peers is served     *)
(* first is left open.                                                     *)
(***************************************************************************)
EXTENDS Naturals, Sequences, FiniteSets

CONSTANTS
  Procs,     \* goroutines that call alts!
  Chans,     \* the channels
  Cap,       \* the capacity of each
  Kind,      \* what each is: "plain", "xform" (a transducer) or "promise"
  Menu,      \* the calls each goroutine makes: port vectors, with :default or without
  Closable,  \* the channels that close! or a timer closes
  XAdds,     \* how many elements a step of a transducer may add
  Throws,    \* the channels whose ex-handler may throw
  NoProc,    \* nobody holds c.mu ...
  Closer,    \* ... or a close! that runs the transducer's completion
  MaxCalls   \* bound: calls of each goroutine

Ports == [c : Chans, write : BOOLEAN]

ASSUME AltsAssumption ==
  /\ Cap \in [Chans -> Nat] /\ Kind \in [Chans -> {"plain", "xform", "promise"}]
  /\ \A c \in Chans : Kind[c] = "xform" => Cap[c] > 0
  /\ \A p \in Procs : \A m \in Menu[p] :
       m.ports \in Seq(Ports) /\ m.ports # <<>> /\ m.dflt \in BOOLEAN
  /\ Closable \subseteq Chans /\ MaxCalls \in [Procs -> Nat]
  /\ XAdds \subseteq Nat /\ NoProc \notin Procs /\ Closer \notin Procs /\ NoProc # Closer

VARIABLES
  buf,      \* the buffer of each channel; for a promise-chan, its value
  closed,   \* the channels that close! has closed
  mu,       \* who holds c.mu from one step to the next
  todo,     \* the elements that the transducer step of each goroutine has still to add
  pc,       \* where each goroutine is
  ports,    \* the ports of its call, a write port with its value
  dflt,     \* the call has a :default
  at,       \* the port it is trying
  res,      \* its last result: the port's index (0 for :default) and what came of it
  ncalls,   \* calls it has made
  got,      \* history: the values reads have returned, and from which channel
  shut      \* history: the channels of its call that were closed when it began

stepping == <<mu, todo>>
alts == <<buf, closed, stepping, pc, ports, dflt, at, res, ncalls, got, shut>>

\* The value of the i-th port of p's n-th call, or an element that a transducer
\* makes of it.
Value == [by : Procs, n : Nat, port : Nat, part : Nat]
Answers == {"none", "true", "false", "value", "nil", "default", "panic"}

AltsTypeOK ==
  /\ buf \in [Chans -> Seq(Value)] /\ closed \subseteq Chans
  /\ \A c \in Chans : Len(buf[c]) <= IF Kind[c] = "promise" THEN 1 ELSE Cap[c]
  /\ mu \in [Chans -> Procs \cup {NoProc, Closer}] /\ todo \in [Procs -> Nat]
  /\ pc \in [Procs -> {"idle", "pass", "add", "select", "parked", "drain"}]
  /\ \A p \in Procs : \A i \in DOMAIN ports[p] : ports[p][i].c \in Chans
  /\ \A p \in Procs : pc[p] \in {"pass", "add", "drain"} => at[p] \in DOMAIN ports[p]
  /\ \A p \in Procs : pc[p] = "idle" => res[p].port \in DOMAIN ports[p] \cup {0}
  /\ \A p \in Procs : res[p].ans \in Answers /\ ncalls[p] \in 0..MaxCalls[p]
  /\ dflt \in [Procs -> BOOLEAN]
  /\ got \subseteq Value \X Chans /\ shut \in [Procs -> SUBSET Chans]

AltsInit ==
  /\ buf = [c \in Chans |-> <<>>] /\ closed = {}
  /\ mu = [c \in Chans |-> NoProc] /\ todo = [p \in Procs |-> 0]
  /\ pc = [p \in Procs |-> "idle"]
  /\ ports = [p \in Procs |-> <<>>] /\ dflt = [p \in Procs |-> FALSE]
  /\ at = [p \in Procs |-> 1]
  /\ res = [p \in Procs |-> [port |-> 0, ans |-> "none", v |-> <<>>]]
  /\ ncalls = [p \in Procs |-> 0]
  /\ got = {} /\ shut = [p \in Procs |-> {}]
-----------------------------------------------------------------------------
\* The ports of q that read (write) c, and the goroutines parked with such a case.
Cases(q, c, w) == {i \in DOMAIN ports[q] : ports[q][i].c = c /\ ports[q][i].write = w}
Waiting(c, w)  == {q \in Procs : pc[q] = "parked" /\ Cases(q, c, w) # {}}

\* Of several reads of c in one call it does not matter which: alts! answers c.
IndexOf(q, c) == CHOOSE i \in Cases(q, c, FALSE) : TRUE
Readers(c) == Waiting(c, FALSE)
Writers(c) == IF Kind[c] = "plain" THEN Waiting(c, TRUE) ELSE {}

\* The calls of the goroutines in DOMAIN f end with the results f.
Finish(f) ==
  /\ pc' = [q \in Procs |-> IF q \in DOMAIN f THEN "idle" ELSE pc[q]]
  /\ res' = [q \in Procs |-> IF q \in DOMAIN f THEN f[q] ELSE res[q]]
  /\ at' = [q \in Procs |-> IF q \in DOMAIN f THEN 1 ELSE at[q]]
  /\ UNCHANGED <<ports, dflt, ncalls, shut>>

Result(i, ans, v) == [port |-> i, ans |-> ans, v |-> v]
Alone(p, r) == [q \in {p} |-> r]
Both(p, r, q, s) == [x \in {p, q} |-> IF x = p THEN r ELSE s]

\* A receive of c: the buffer's first value, whose slot a parked writer's value
\* takes, or the value of a parked writer.
CanGet(c) == buf[c] # <<>> \/ Writers(c) # {}
GetFrom(p, i, c) ==
  \/ /\ buf[c] # <<>> /\ Writers(c) = {}
     /\ buf' = [buf EXCEPT ![c] = Tail(@)]
     /\ got' = got \cup {<<Head(buf[c]), c>>}
     /\ Finish(Alone(p, Result(i, "value", <<Head(buf[c])>>)))
     /\ UNCHANGED <<closed, stepping>>
  \/ \E w \in Writers(c) : \E j \in Cases(w, c, TRUE) :
       LET line == Append(buf[c], ports[w][j].v)
       IN  /\ buf' = [buf EXCEPT ![c] = Tail(line)]
           /\ got' = got \cup {<<Head(line), c>>}
           /\ Finish(Both(p, Result(i, "value", <<Head(line)>>), w, Result(j, "true", <<>>)))
           /\ UNCHANGED <<closed, stepping>>

\* A send on c: to a parked reader, or into the buffer.
Room(c) == Len(buf[c]) < Cap[c]
CanPut(c) == Readers(c) # {} \/ Room(c)
PutOn(p, i, c) ==
  LET v == ports[p][i].v IN
  \/ \E r \in Readers(c) :
       /\ got' = got \cup {<<v, c>>}
       /\ Finish(Both(p, Result(i, "true", <<>>), r, Result(IndexOf(r, c), "value", <<v>>)))
       /\ UNCHANGED <<buf, closed, stepping>>
  \/ /\ Readers(c) = {} /\ Room(c)
     /\ buf' = [buf EXCEPT ![c] = Append(@, v)]
     /\ Finish(Alone(p, Result(i, "true", <<>>)))
     /\ UNCHANGED <<closed, got, stepping>>

\* c.done has fired: close!, or a promise-chan's first put.
Fired(c) == (c \in closed /\ mu[c] # Closer) \/ (Kind[c] = "promise" /\ buf[c] # <<>>)

\* The parked readers of c wake, each committed to this port.
Wake(c) ==
  /\ pc' = [q \in Procs |-> IF q \in Readers(c) THEN "drain" ELSE pc[q]]
  /\ at' = [q \in Procs |-> IF q \in Readers(c) THEN IndexOf(q, c) ELSE at[q]]

\* A read of c that finds c.done fired: a promise-chan's value stays, another
\* channel's final drain probe decides value versus nil.
ReadEnded(p, i, c) ==
  \/ /\ Kind[c] = "promise" /\ buf[c] # <<>>
     /\ Finish(Alone(p, Result(i, "value", buf[c]))) /\ UNCHANGED <<buf, closed, got, stepping>>
  \/ Kind[c] # "promise" /\ GetFrom(p, i, c)
  \/ /\ buf[c] = <<>> /\ Writers(c) = {}
     /\ Finish(Alone(p, Result(i, "nil", <<>>))) /\ UNCHANGED <<buf, closed, got, stepping>>
-----------------------------------------------------------------------------
\* p calls alts! on the ports ps.
Begin(p, ps, d) ==
  /\ pc[p] = "idle"
  /\ pc' = [pc EXCEPT ![p] = "pass"]
  /\ ports' = [ports EXCEPT ![p] = ps]
  /\ dflt' = [dflt EXCEPT ![p] = d]
  /\ at' = [at EXCEPT ![p] = 1]
  /\ shut' = [shut EXCEPT ![p] = closed \cap {ps[i].c : i \in DOMAIN ps}]
  /\ UNCHANGED <<buf, closed, res, got, stepping>>

Call(p) ==
  /\ ncalls[p] < MaxCalls[p]
  /\ ncalls' = [ncalls EXCEPT ![p] = @ + 1]
  /\ \E m \in Menu[p] :
       Begin(p, [i \in DOMAIN m.ports |->
                   [c |-> m.ports[i].c, write |-> m.ports[i].write,
                    v |-> [by |-> p, n |-> ncalls[p] + 1, port |-> i, part |-> 0]]], m.dflt)

\* tryReady of a write port, with c.mu: ChanOffer, or promisePut.
TryWrite(p, i, c) ==
  /\ mu[c] = NoProc
  /\ \/ /\ c \in closed
        /\ Finish(Alone(p, Result(i, "false", <<>>))) /\ UNCHANGED <<buf, closed, got, stepping>>
     \/ c \notin closed /\ Kind[c] = "plain" /\ PutOn(p, i, c)
     \/ /\ c \notin closed /\ Kind[c] = "promise" /\ buf[c] # <<>>
        /\ Finish(Alone(p, Result(i, "true", <<>>))) /\ UNCHANGED <<buf, closed, got, stepping>>

\* The first put of a promise-chan delivers and wakes the readers.
Deliver(p, i, c) ==
  /\ c \notin closed /\ Kind[c] = "promise" /\ buf[c] = <<>>
  /\ buf' = [buf EXCEPT ![c] = <<ports[p][i].v>>]
  /\ pc' = [q \in Procs |-> IF q = p THEN "idle"
                            ELSE IF q \in Readers(c) THEN "drain" ELSE pc[q]]
  /\ at' = [q \in Procs |-> IF q \in Readers(c) THEN IndexOf(q, c) ELSE at[q]]
  /\ res' = [res EXCEPT ![p] = Result(i, "true", <<>>)]
  /\ UNCHANGED <<closed, ports, dflt, ncalls, got, shut, stepping>>

\* Mutant: the step is run without a look at c.closed.
Mut_EnterStep(p, c) ==
  /\ mu[c] = NoProc /\ Kind[c] = "xform" /\ Room(c)
  /\ mu' = [mu EXCEPT ![c] = p]
  /\ \E k \in XAdds : todo' = [todo EXCEPT ![p] = k]
  /\ pc' = [pc EXCEPT ![p] = "add"]
  /\ UNCHANGED <<buf, closed, ports, dflt, at, res, ncalls, got, shut>>

\* An offer to a transducer channel with room enters the step, and keeps c.mu.
EnterStep(p, c) ==
  /\ mu[c] = NoProc /\ c \notin closed /\ Kind[c] = "xform" /\ Room(c)
  /\ mu' = [mu EXCEPT ![c] = p]
  /\ \E k \in XAdds : todo' = [todo EXCEPT ![p] = k]
  /\ pc' = [pc EXCEPT ![p] = "add"]
  /\ UNCHANGED <<buf, closed, ports, dflt, at, res, ncalls, got, shut>>

\* bufferAdd of the step's next element: to a parked reader, or into the buffer,
\* and else it waits.
StepAdd(p) ==
  LET c == ports[p][at[p]].c
      v == [ports[p][at[p]].v EXCEPT !.part = todo[p]]
  IN /\ pc[p] = "add" /\ todo[p] > 0
     /\ todo' = [todo EXCEPT ![p] = @ - 1]
     /\ \/ \E r \in Readers(c) :
             /\ got' = got \cup {<<v, c>>}
             /\ Finish(Alone(r, Result(IndexOf(r, c), "value", <<v>>)))
             /\ UNCHANGED buf
        \/ /\ Readers(c) = {} /\ Room(c)
           /\ buf' = [buf EXCEPT ![c] = Append(@, v)]
           /\ UNCHANGED <<pc, ports, dflt, at, res, ncalls, got, shut>>
     /\ UNCHANGED <<closed, mu>>

\* Mutant: an offer that was accepted is taken for one that would block.
Mut_StepEnd(p) ==
  LET c == ports[p][at[p]].c IN
  /\ pc[p] = "add" /\ todo[p] = 0
  /\ mu' = [mu EXCEPT ![c] = NoProc]
  /\ pc' = [pc EXCEPT ![p] = IF at[p] = Len(ports[p]) THEN "select" ELSE "pass"]
  /\ at' = [at EXCEPT ![p] = IF @ = Len(ports[p]) THEN @ ELSE @ + 1]
  /\ UNCHANGED <<buf, closed, ports, dflt, res, ncalls, got, shut, todo>>

\* The step has returned, and c.mu is released; or its ex-handler threw, which
\* alts! passes on with c.mu locked for ever.
StepEnd(p) ==
  LET c == ports[p][at[p]].c IN
  /\ pc[p] = "add" /\ todo[p] = 0
  /\ \/ mu' = [mu EXCEPT ![c] = NoProc] /\ Finish(Alone(p, Result(at[p], "true", <<>>)))
     \/ c \in Throws /\ mu' = mu /\ Finish(Alone(p, Result(at[p], "panic", <<>>)))
  /\ UNCHANGED <<buf, closed, got, todo>>

WriteReady(c) == mu[c] # NoProc \/ c \in closed \/ Kind[c] = "promise" \/ CanPut(c)
ReadReady(c)  == Fired(c) \/ (Kind[c] # "promise" /\ CanGet(c))

\* The ordered non-blocking pass, port by port; past the last one, the :default
\* or the select.
TryReady(p) ==
  LET i == at[p]
      c == ports[p][i].c
      w == ports[p][i].write
      last == i = Len(ports[p])
  IN /\ pc[p] = "pass"
     /\ \/ w /\ (TryWrite(p, i, c) \/ Deliver(p, i, c) \/ EnterStep(p, c))
        \/ ~w /\ Fired(c) /\ ReadEnded(p, i, c)
        \/ ~w /\ ~Fired(c) /\ Kind[c] # "promise" /\ GetFrom(p, i, c)
        \/ /\ IF w THEN ~WriteReady(c) ELSE ~ReadReady(c)
           /\ \/ /\ last /\ dflt[p]
                 /\ Finish(Alone(p, Result(0, "default", <<>>)))
              \/ /\ last /\ ~dflt[p]
                 /\ pc' = [pc EXCEPT ![p] = "select"]
                 /\ UNCHANGED <<ports, dflt, at, res, ncalls, shut>>
              \/ /\ ~last
                 /\ at' = [at EXCEPT ![p] = i + 1]
                 /\ UNCHANGED <<pc, ports, dflt, res, ncalls, shut>>
           /\ UNCHANGED <<buf, closed, got, stepping>>

\* A write to a transducer channel or a promise-chan has no select case.
Polled(p, i) == ports[p][i].write /\ Kind[ports[p][i].c] # "plain"

\* The case of port i can fire.  A raw send does not look at c.closed.
CaseReady(p, i) ==
  LET c == ports[p][i].c IN
  IF ports[p][i].write THEN Kind[c] = "plain" /\ CanPut(c) ELSE ReadReady(c)

\* reflect.Select: one of the ready cases, or park.
Select(p) ==
  /\ pc[p] = "select"
  /\ \/ \E i \in DOMAIN ports[p] :
          LET c == ports[p][i].c IN
          /\ CaseReady(p, i)
          /\ \/ ports[p][i].write /\ PutOn(p, i, c)
             \/ ~ports[p][i].write /\ Fired(c) /\ ReadEnded(p, i, c)
             \/ ~ports[p][i].write /\ Kind[c] # "promise" /\ GetFrom(p, i, c)
     \/ /\ \A i \in DOMAIN ports[p] : ~CaseReady(p, i)
        /\ pc' = [pc EXCEPT ![p] = "parked"]
        /\ UNCHANGED <<buf, closed, ports, dflt, at, res, ncalls, got, shut, stepping>>

\* altsResult of a done case.
Drain(p) == pc[p] = "drain" /\ ReadEnded(p, at[p], ports[p][at[p]].c)

\* The poll timer of a call with a polled port: the pass is run again.
Tick(p) ==
  /\ pc[p] = "parked"
  /\ \E i \in DOMAIN ports[p] : Polled(p, i)
  /\ pc' = [pc EXCEPT ![p] = "pass"]
  /\ at' = [at EXCEPT ![p] = 1]
  /\ UNCHANGED <<buf, closed, ports, dflt, res, ncalls, got, shut, stepping>>

\* Mutant: c.done is not closed.
Mut_Close(c) ==
  /\ c \in Closable \ closed /\ mu[c] = NoProc
  /\ closed' = closed \cup {c}
  /\ UNCHANGED <<buf, pc, at, ports, dflt, res, ncalls, got, shut, stepping>>

\* close! of c, with c.mu, and the timer of (timeout ms); the completion of a
\* transducer runs before done fires.
Close(c) ==
  /\ c \in Closable \ closed /\ mu[c] = NoProc
  /\ closed' = closed \cup {c}
  /\ \/ Kind[c] # "xform" /\ Wake(c) /\ mu' = mu
     \/ Kind[c] = "xform" /\ mu' = [mu EXCEPT ![c] = Closer] /\ UNCHANGED <<pc, at>>
  /\ UNCHANGED <<buf, ports, dflt, res, ncalls, got, shut, todo>>

\* The completion has returned, which it need not.
CloseDone(c) ==
  /\ mu[c] = Closer
  /\ mu' = [mu EXCEPT ![c] = NoProc]
  /\ Wake(c)
  /\ UNCHANGED <<buf, closed, ports, dflt, res, ncalls, got, shut, todo>>

AltsStep(p) == TryReady(p) \/ StepAdd(p) \/ StepEnd(p) \/ Select(p) \/ Drain(p) \/ Tick(p)

AltsNext ==
  \/ \E p \in Procs : Call(p) \/ AltsStep(p)
  \/ \E c \in Chans : Close(c) \/ CloseDone(c)

AltsSpec == AltsInit /\ [][AltsNext]_alts

\* Go schedules every goroutine inside a call, and poll timers fire.
AltsFairSpec == AltsSpec /\ \A p \in Procs : WF_alts(AltsStep(p))
-----------------------------------------------------------------------------
(***************************************************************************)
(* Properties.                                                             *)
(***************************************************************************)

\* Of all the ports of one call at most one takes effect: a value its ports offer,
\* or an element made of it, is on a channel, or was received, only when the call
\* has returned, with that port and true (or what an ex-handler threw), or is in
\* that port's transducer step; and what was received is gone from the channel.
\* (Parked senders are completed by their receivers, and the poll timer reruns the
\* pass, chan_alts.go:268-320.)
OnePortOnly ==
  LET Held(c) == {buf[c][i] : i \in DOMAIN buf[c]} IN
  /\ \A v \in (UNION {Held(c) : c \in Chans}) \cup {g[1] : g \in got} :
       v.n = ncalls[v.by] =>
         \/ pc[v.by] = "add" /\ at[v.by] = v.port
         \/ /\ pc[v.by] = "idle"
            /\ res[v.by].port = v.port /\ res[v.by].ans \in {"true", "panic"}
  /\ \A g \in got : Kind[g[2]] # "promise" => g[1] \notin Held(g[2])

\* A channel that was closed before alts! was called takes no value of that call,
\* although the blocking phase sends without looking at c.closed: the ordered pass
\* has answered false by then (chan_alts.go:162-173, 279-281).
ClosedTakesNothing ==
  \A p \in Procs : res[p].port \in DOMAIN ports[p] /\ pc[p] = "idle"
                     /\ ports[p][res[p].port].write /\ ports[p][res[p].port].c \in shut[p]
                   => res[p].ans = "false"

\* The call waits for c.mu, which a step or a completion holds, or in its own step
\* for room.
Blocked(p) ==
  \/ /\ pc[p] = "pass" /\ ports[p][at[p]].write /\ mu[ports[p][at[p]].c] # NoProc
  \/ pc[p] = "add" /\ todo[p] > 0 /\ ~CanPut(ports[p][at[p]].c)

\* A call with a read port whose channel is done, or a polled write port on a closed
\* channel, returns, so a (timeout ms) among the ports bounds the wait; unless it is
\* blocked for ever at a write port with a transducer, which tryReady's offer! may
\* be although offer! "must never block" (chan.go:324-333).  A parked plain write
\* alone does not return: it outlives close! (chan_alts.go:227-228).
ClosedPortReturns ==
  \A p \in Procs :
    (pc[p] # "idle" /\ \E i \in DOMAIN ports[p] :
        IF ports[p][i].write THEN Polled(p, i) /\ ports[p][i].c \in closed
                             ELSE Fired(ports[p][i].c))
      ~> (pc[p] = "idle" \/ []Blocked(p))
=============================================================================
