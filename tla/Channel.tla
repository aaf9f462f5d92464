------------------------------- MODULE Channel -------------------------------
(***************************************************************************)
(* One lang.Channel (pkg/lang/chan.go): the value behind core.async's      *)
(* chan / promise-chan / timeout, shared by goroutines that call >!, <!,   *)
(* close!, offer!, poll!, put! and take! on it.                            *)
(*                                                                         *)
(* A Channel wraps a Go channel c.ch that is never closed, a second Go     *)
(* channel c.done whose closing signals close!, and a mutex c.mu.  The     *)
(* Go channel is modelled from the language's semantics (external): a      *)
(* FIFO buffer, a FIFO queue of parked senders and one of parked           *)
(* receivers.  An action is what a goroutine does between two points at    *)
(* which another goroutine can be observed: a critical section of c.mu     *)
(* that touches no Go channel is one step, each Go channel operation is    *)
(* a step of its own.                                                      *)
(***************************************************************************)
EXTENDS Naturals, Sequences, FiniteSets, Functions

CONSTANTS
  Procs,         \* goroutines that call the channel API
  Workers,       \* the members of Procs that put! and take! may spawn
  NoProc,        \* "c.mu is not held"
  Ops,           \* the API calls the goroutines make
  Shapes,        \* the kinds of channel considered
  XOutcomes,     \* how one transducer step may go
  FlushOutcomes, \* how the transducer's completion may go
  MaxOps,        \* bound: API calls per goroutine
  MaxPart        \* bound: elements one transducer call adds

\* The fields that the constructors set and nothing changes: cap(c.ch), c.policy,
\* c.step # nil, c.promise, and whether the ex-handler returns a substitute.
\* SetXform and the policy constructors demand a buffer, and NewPromiseChan
\* builds a bare latch (chan_builtins.go rejects the other combinations).
ChanShape ==
  {s \in [cap : Nat, policy : {"fixed", "dropping", "sliding"},
          xform : BOOLEAN, promise : BOOLEAN, exh : BOOLEAN] :
     /\ (s.xform \/ s.policy # "fixed") => s.cap > 0
     /\ s.promise => ~s.xform /\ s.policy = "fixed"}

\* One run of the transducer: how many elements it adds, and how it ends.  On a
\* panic the ex-handler runs; "throw" is a panic whose ex-handler panics too.
Outcome == [n : Nat, end : {"ok", "reduced", "panic", "throw"}]

ASSUME ChannelAssumption ==
  /\ Workers \subseteq Procs
  /\ NoProc \notin Procs
  /\ Ops \subseteq {"send", "recv", "close", "offer", "poll", "put", "take"}
  /\ \A s \in Shapes : s \in ChanShape
  /\ XOutcomes \subseteq Outcome /\ FlushOutcomes \subseteq Outcome
  /\ MaxOps \in Nat /\ MaxPart \in Nat
  /\ \A o \in XOutcomes \cup FlushOutcomes : o.n + 1 <= MaxPart

VARIABLES
  shape,     \* which channel this is
  buf,       \* the buffer of c.ch
  sendq,     \* goroutines parked sending on c.ch, longest waiting first
  recvq,     \* goroutines parked in select {c.ch, c.done}
  done,      \* c.done has been closed
  closed,    \* c.closed
  mu,        \* the goroutine that holds c.mu
  delivered, \* c.delivered
  pval,      \* c.pval: <<>> or the latched element
  pc, op,    \* where each goroutine is, and in which call
  todo,      \* elements its call has still to add to the buffer
  end,       \* how its transducer step ends
  nops,      \* API calls it has made
  taken,     \* history: elements takes have returned, in order
  lost,      \* history: elements a buffer policy discarded
  rejected,  \* history: those of them discarded by the put that brought them
  sawNil,    \* history: a take has returned nil
  res,       \* the last result each goroutine got
  crashed    \* "close of closed channel": the Go runtime panicked

goChan   == <<buf, sendq, recvq>>
latch    == <<delivered, pval>>
history  == <<taken, lost, rejected, sawNil>>
vars     == <<shape, buf, sendq, recvq, done, closed, mu, delivered, pval,
              pc, op, todo, end, nops, taken, lost, rejected, sawNil, res,
              crashed>>

Cap      == shape.cap
Policy   == shape.policy
HasXform == shape.xform
Promise  == shape.promise

\* Puts run under c.mu: there is a transducer, or a dropping or sliding buffer.
Guarded == HasXform \/ Policy # "fixed"

\* The elements of the n-th call of goroutine by: part 0 is the value itself,
\* 1..MaxPart what a transducer makes of it, the rest what its completion adds.
Elem == [by : Procs, n : 0..MaxOps, part : 0..2 * MaxPart]

PCs == {"unborn", "born", "idle", "add", "park", "evict", "readd", "try",
        "select", "wait", "drain", "await", "close"}
OpNames == {"none", "send", "recv", "close", "offer", "put"}
Ends    == {"ok", "reduced", "throw"}
Results == {"none", "true", "false", "nil", "value", "panic"}

TypeOK ==
  /\ shape \in Shapes
  /\ buf \in Seq(Elem) /\ Len(buf) <= Cap
  /\ sendq \in Seq(Procs) /\ recvq \in Seq(Procs)
  /\ done \in BOOLEAN /\ closed \in BOOLEAN
  /\ mu \in Procs \cup {NoProc}
  /\ delivered \in BOOLEAN /\ pval \in Seq(Elem)
  /\ pc \in [Procs -> PCs]
  /\ op \in [Procs -> OpNames]
  /\ todo \in [Procs -> Seq(Elem)]
  /\ end \in [Procs -> Ends]
  /\ nops \in [Procs -> 0..MaxOps]
  /\ taken \in Seq(Elem)
  /\ lost \subseteq Elem /\ rejected \subseteq Elem
  /\ sawNil \in BOOLEAN
  /\ res \in [Procs -> Results]
  /\ crashed \in BOOLEAN

Init ==
  /\ shape \in Shapes
  /\ buf = <<>> /\ sendq = <<>> /\ recvq = <<>>
  /\ done = FALSE /\ closed = FALSE /\ mu = NoProc
  /\ delivered = FALSE /\ pval = <<>>
  /\ pc = [p \in Procs |-> IF p \in Workers THEN "unborn" ELSE "idle"]
  /\ op = [p \in Procs |-> "none"]
  /\ todo = [p \in Procs |-> <<>>]
  /\ end = [p \in Procs |-> "ok"]
  /\ nops = [p \in Procs |-> 0]
  /\ taken = <<>> /\ lost = {} /\ rejected = {} /\ sawNil = FALSE
  /\ res = [p \in Procs |-> "none"]
  /\ crashed = FALSE
------------------------------------------------------------------------------
(***************************************************************************)
(* The Go channel c.ch (external).                                         *)
(***************************************************************************)

\* A send completes at once: a receiver is parked or the buffer has room.
CanSend == recvq # <<>> \/ Len(buf) < Cap

\* A receive completes at once: a value is buffered or a sender is parked.
CanRecv == buf # <<>> \/ sendq # <<>>

\* What a receive returns when CanRecv holds.
Front == IF buf # <<>> THEN Head(buf) ELSE Head(todo[Head(sendq)])

\* The buffer after a receive: a parked sender's element takes the free slot.
BufAfterRecv ==
  IF buf = <<>> THEN <<>>
  ELSE IF sendq = <<>> THEN Tail(buf)
  ELSE Append(Tail(buf), Head(todo[Head(sendq)]))

\* The first parked sender's send has completed: it runs on.
Released(q, f, v) == IF q = <<>> THEN f ELSE [f EXCEPT ![Head(q)] = v]

\* Goroutine p sends Head(todo[p]).
GoSend(p) ==
  /\ CanSend
  /\ todo' = [todo EXCEPT ![p] = Tail(@)]
  /\ IF recvq # <<>>
     THEN LET r == Head(recvq) IN
          /\ recvq' = Tail(recvq)
          /\ taken' = Append(taken, Head(todo[p]))
          /\ pc' = [pc EXCEPT ![p] = "add", ![r] = "idle"]
          /\ op' = [op EXCEPT ![r] = "none"]
          /\ res' = [res EXCEPT ![r] = "value"]
          /\ UNCHANGED buf
     ELSE /\ buf' = Append(buf, Head(todo[p]))
          /\ pc' = [pc EXCEPT ![p] = "add"]
          /\ UNCHANGED <<recvq, taken, op, res>>
  /\ UNCHANGED <<sendq, lost, rejected, sawNil>>

\* Goroutine p receives Front; its call returns it.
GoRecv(p) ==
  /\ CanRecv
  /\ taken' = Append(taken, Front)
  /\ buf' = BufAfterRecv
  /\ sendq' = IF sendq = <<>> THEN <<>> ELSE Tail(sendq)
  /\ pc' = [Released(sendq, pc, "add") EXCEPT ![p] = "idle"]
  /\ todo' = IF sendq = <<>> THEN todo
             ELSE [todo EXCEPT ![Head(sendq)] = Tail(@)]
  /\ op' = [op EXCEPT ![p] = "none"]
  /\ res' = [res EXCEPT ![p] = "value"]
  /\ UNCHANGED <<recvq, lost, rejected, sawNil>>

\* close(c.done) by p, whose call returns: parked receivers wake to their
\* final drain probe.  Closing c.done twice is a Go runtime panic.
CloseDone(p) ==
  /\ done' = TRUE
  /\ crashed' = (crashed \/ done)
  /\ recvq' = <<>>
  /\ pc' = [q \in Procs |-> IF q = p THEN "idle"
                            ELSE IF pc[q] = "wait" THEN "drain" ELSE pc[q]]
------------------------------------------------------------------------------
(***************************************************************************)
(* Calls.                                                                  *)
(***************************************************************************)

\* Goroutine p enters call o: a client of its own accord, a spawned worker
\* because it was spawned to.
Enter(p, o) ==
  \/ /\ pc[p] = "idle" /\ p \notin Workers /\ o \in Ops
     /\ nops[p] < MaxOps
     /\ nops' = [nops EXCEPT ![p] = @ + 1]
  \/ /\ pc[p] = "born" /\ op[p] = o
     /\ UNCHANGED nops

\* The value p puts: a fresh one, or the one its spawner gave it.
Arg(p) == IF pc[p] = "born" THEN Head(todo[p])
          ELSE [by |-> p, n |-> nops[p] + 1, part |-> 0]

\* p's call returns r without having touched the Go channel.
Return(p, r) ==
  /\ pc' = [pc EXCEPT ![p] = "idle"]
  /\ op' = [op EXCEPT ![p] = "none"]
  /\ res' = [res EXCEPT ![p] = r]
  /\ todo' = [todo EXCEPT ![p] = <<>>]

\* Mutant: an expanding step hands its elements on in reverse.
Mut_Emitted(e, base, o) == [i \in 1..o.n |-> [e EXCEPT !.part = base + 1 + o.n - i]]

\* SetXform's guarded step: the elements handed to bufferAdd.  A panic drops
\* the value, and a non-nil ex-handler result takes its place.
Emitted(e, base, o) ==
  LET k == o.n + (IF o.end = "panic" /\ shape.exh THEN 1 ELSE 0)
  IN  [i \in 1..k |-> [e EXCEPT !.part = base + i]]

\* What becomes of the call: a handled panic is as good as a normal return.
Ending(o) == IF o.end = "panic" THEN "ok" ELSE o.end

\* Mutant: the put does not hold c.mu while it runs.
Mut_LockedPut(p, o, e) ==
  /\ pc' = [pc EXCEPT ![p] = "add"]
  /\ op' = [op EXCEPT ![p] = o]
  /\ todo' = [todo EXCEPT ![p] = <<e>>]
  /\ UNCHANGED <<mu, end, res>>

\* Under c.mu, p feeds the value e to the transducer or the buffer policy.
LockedPut(p, o, e) ==
  /\ mu' = p
  /\ pc' = [pc EXCEPT ![p] = "add"]
  /\ op' = [op EXCEPT ![p] = o]
  /\ IF HasXform
     THEN \E x \in XOutcomes :
            /\ todo' = [todo EXCEPT ![p] = Emitted(e, 0, x)]
            /\ end' = [end EXCEPT ![p] = Ending(x)]
     ELSE /\ todo' = [todo EXCEPT ![p] = <<e>>]
          /\ end' = [end EXCEPT ![p] = "ok"]
  /\ UNCHANGED res

\* p holds the value e and no lock; the Go channel operation comes next.
UnlockedPut(p, o, e, next) ==
  /\ pc' = [pc EXCEPT ![p] = next]
  /\ op' = [op EXCEPT ![p] = o]
  /\ todo' = [todo EXCEPT ![p] = <<e>>]
  /\ UNCHANGED <<mu, end, res>>

\* ChanSend: >! and >!!, and the goroutine put! spawns.
ChanSend(p) ==
  /\ ~Promise
  /\ Enter(p, "send")
  /\ mu = NoProc
  /\ \/ closed /\ Return(p, "false") /\ UNCHANGED <<mu, end>>
     \/ ~closed /\ ~Guarded /\ UnlockedPut(p, "send", Arg(p), "add")
     \/ ~closed /\ Guarded /\ LockedPut(p, "send", Arg(p))
  /\ UNCHANGED <<goChan, done, closed, latch, history, crashed>>

\* An offer that would block: offer! answers nil, put! leaves the put to a
\* goroutine it spawns and answers true.
WouldBlock(p, o, e) ==
  \/ o = "offer" /\ Return(p, "nil")
  \/ /\ o = "put"
     /\ \E w \in Workers :
          /\ pc[w] = "unborn"
          /\ pc' = [pc EXCEPT ![p] = "idle", ![w] = "born"]
          /\ op' = [op EXCEPT ![p] = "none", ![w] = "send"]
          /\ todo' = [todo EXCEPT ![p] = <<>>, ![w] = <<e>>]
          /\ res' = [res EXCEPT ![p] = "true"]

\* Mutant: the buffer is not looked at before the transducer runs.
Mut_ChanOffer(p, o) ==
  /\ o \in {"offer", "put"}
  /\ ~Promise
  /\ Enter(p, o)
  /\ mu = NoProc
  /\ \/ closed /\ Return(p, "false") /\ UNCHANGED <<mu, end>>
     \/ ~closed /\ Guarded /\ LockedPut(p, o, Arg(p))
     \/ ~closed /\ ~Guarded /\ UnlockedPut(p, o, Arg(p), "try")
  /\ UNCHANGED <<goChan, done, closed, latch, history, crashed>>

\* ChanOffer, called as offer! or by put!.
ChanOffer(p, o) ==
  /\ o \in {"offer", "put"}
  /\ ~Promise
  /\ Enter(p, o)
  /\ mu = NoProc
  /\ \/ closed /\ Return(p, "false") /\ UNCHANGED <<mu, end>>
     \/ ~closed /\ HasXform /\ Len(buf) < Cap /\ LockedPut(p, o, Arg(p))
     \/ ~closed /\ HasXform /\ Len(buf) = Cap /\ WouldBlock(p, o, Arg(p)) /\ UNCHANGED <<mu, end>>
     \/ ~closed /\ ~HasXform /\ Policy # "fixed" /\ LockedPut(p, o, Arg(p))
     \/ ~closed /\ ~HasXform /\ Policy = "fixed" /\ UnlockedPut(p, o, Arg(p), "try")
  /\ UNCHANGED <<goChan, done, closed, latch, history, crashed>>

\* The offer's one non-blocking send on a plain channel.
OfferTry(p) ==
  /\ pc[p] = "try"
  /\ \/ GoSend(p)
     \/ ~CanSend /\ WouldBlock(p, op[p], Head(todo[p])) /\ UNCHANGED <<goChan, history>>
  /\ UNCHANGED <<done, closed, mu, latch, end, nops, crashed>>

\* Mutant: a fixed buffer sends without blocking too, and a full one swallows the element.
Mut_BufferAdd(p) ==
  /\ pc[p] = "add" /\ todo[p] # <<>>
  /\ \/ GoSend(p)
     \/ /\ ~CanSend
        /\ todo' = [todo EXCEPT ![p] = Tail(@)]
        /\ UNCHANGED <<goChan, pc, op, res, history>>
  /\ UNCHANGED <<done, closed, mu, latch, end, nops, crashed>>

\* bufferAdd of Head(todo[p]): a fixed buffer parks the goroutine, a dropping
\* one discards the element, a sliding one goes on to evict the oldest.
BufferAdd(p) ==
  /\ pc[p] = "add" /\ todo[p] # <<>>
  /\ \/ GoSend(p)
     \/ /\ ~CanSend /\ Policy = "fixed"
        /\ sendq' = Append(sendq, p)
        /\ pc' = [pc EXCEPT ![p] = "park"]
        /\ UNCHANGED <<buf, recvq, todo, op, res, history>>
     \/ /\ ~CanSend /\ Policy = "dropping"
        /\ lost' = lost \cup {Head(todo[p])}
        /\ todo' = [todo EXCEPT ![p] = Tail(@)]
        /\ UNCHANGED <<goChan, pc, op, res, taken, rejected, sawNil>>
     \/ /\ ~CanSend /\ Policy = "sliding"
        /\ pc' = [pc EXCEPT ![p] = "evict"]
        /\ UNCHANGED <<goChan, todo, op, res, history>>
  /\ UNCHANGED <<done, closed, mu, latch, end, nops, crashed>>

\* A sliding bufferAdd's non-blocking receive; takers may have emptied the
\* buffer meanwhile.  (No sender ever parks on a sliding channel.)
SlideEvict(p) ==
  /\ pc[p] = "evict"
  /\ pc' = [pc EXCEPT ![p] = "readd"]
  /\ IF buf = <<>> THEN UNCHANGED <<buf, lost>>
     ELSE buf' = Tail(buf) /\ lost' = lost \cup {Head(buf)}
  /\ UNCHANGED <<sendq, recvq, done, closed, mu, latch, op, todo, end, nops,
                 taken, rejected, sawNil, res, crashed>>

\* Its second non-blocking send, which would drop the new element.
SlideReadd(p) ==
  /\ pc[p] = "readd"
  /\ \/ GoSend(p)
     \/ /\ ~CanSend
        /\ lost' = lost \cup {Head(todo[p])}
        /\ rejected' = rejected \cup {Head(todo[p])}
        /\ todo' = [todo EXCEPT ![p] = Tail(@)]
        /\ pc' = [pc EXCEPT ![p] = "add"]
        /\ UNCHANGED <<goChan, op, res, taken, sawNil>>
  /\ UNCHANGED <<done, closed, mu, latch, end, nops, crashed>>

\* p's put has added everything: unlock and answer true, or go on to close
\* the channel when the transducer said reduced.  No deferred unlock: a throwing
\* ex-handler unwinds the call with c.mu still locked.
PutReturn(p) ==
  /\ pc[p] = "add" /\ todo[p] = <<>> /\ op[p] \in {"send", "offer", "put"}
  /\ mu' = IF mu = p /\ end[p] # "throw" THEN NoProc ELSE mu
  /\ res' = [res EXCEPT ![p] = IF end[p] = "throw" THEN "panic" ELSE "true"]
  /\ IF end[p] = "reduced"
     THEN pc' = [pc EXCEPT ![p] = "close"] /\ UNCHANGED op
     ELSE pc' = [pc EXCEPT ![p] = "idle"] /\ op' = [op EXCEPT ![p] = "none"]
  /\ UNCHANGED <<goChan, done, closed, latch, todo, end, nops, history, crashed>>

\* Mutant: close! does not look at c.closed.
Mut_CloseLocked(p, n) ==
  /\ mu = NoProc
  /\ op' = [op EXCEPT ![p] = "none"]
  /\ closed' = TRUE
  /\ CloseDone(p)
  /\ UNCHANGED <<buf, sendq, latch, history, mu, todo, end>>

\* ChanClose up to the end of its critical section, or, with a transducer,
\* to the start of its completion arity.
CloseLocked(p, n) ==
  /\ mu = NoProc
  /\ op' = [op EXCEPT ![p] = IF ~closed /\ HasXform THEN "close" ELSE "none"]
  /\ closed' = TRUE
  /\ IF ~closed /\ HasXform
     THEN /\ mu' = p
          /\ pc' = [pc EXCEPT ![p] = "add"]
          /\ \E x \in FlushOutcomes :
               /\ todo' = [todo EXCEPT ![p] =
                             Emitted([by |-> p, n |-> n, part |-> 0], MaxPart, x)]
               /\ end' = [end EXCEPT ![p] = Ending(x)]
          /\ UNCHANGED <<recvq, done, crashed>>
     ELSE /\ UNCHANGED <<mu, todo, end>>
          /\ IF closed \/ (Promise /\ delivered)
             THEN pc' = [pc EXCEPT ![p] = "idle"] /\ UNCHANGED <<recvq, done, crashed>>
             ELSE CloseDone(p)
  /\ UNCHANGED <<buf, sendq, latch, history>>

\* close!, and the timer of (timeout ms).
ChanClose(p) ==
  /\ Enter(p, "close")
  /\ CloseLocked(p, nops[p] + 1)
  /\ res' = [res EXCEPT ![p] = "nil"]

\* The close a reduced put performs on its way out.
ReducedClose(p) ==
  /\ pc[p] = "close"
  /\ CloseLocked(p, nops[p])
  /\ UNCHANGED <<nops, res>>

\* Mutant: c.done is not fired after the flush.
Mut_FlushReturn(p) ==
  /\ pc[p] = "add" /\ todo[p] = <<>> /\ op[p] = "close"
  /\ pc' = [pc EXCEPT ![p] = "idle"]
  /\ mu' = NoProc
  /\ op' = [op EXCEPT ![p] = "none"]
  /\ UNCHANGED <<goChan, done, closed, latch, todo, end, nops, history, res, crashed>>

\* The completion arity has flushed: fire c.done, unlock (deferred) and return.
\* A throwing ex-handler unwinds past close(c.done).
FlushReturn(p) ==
  /\ pc[p] = "add" /\ todo[p] = <<>> /\ op[p] = "close"
  /\ \/ end[p] # "throw" /\ CloseDone(p) /\ UNCHANGED res
     \/ /\ end[p] = "throw"
        /\ pc' = [pc EXCEPT ![p] = "idle"]
        /\ res' = [res EXCEPT ![p] = "panic"]
        /\ UNCHANGED <<recvq, done, crashed>>
  /\ mu' = NoProc
  /\ op' = [op EXCEPT ![p] = "none"]
  /\ UNCHANGED <<buf, sendq, closed, latch, todo, end, nops, history>>
------------------------------------------------------------------------------
\* ChanRecv's first, non-blocking probe: <! and <!!, and take!'s goroutine.
ChanRecv(p) ==
  /\ Enter(p, "recv")
  /\ \/ ~Promise /\ GoRecv(p)
     \/ /\ Promise \/ ~CanRecv
        /\ pc' = [pc EXCEPT ![p] = IF Promise THEN "await" ELSE "select"]
        /\ op' = [op EXCEPT ![p] = "recv"]
        /\ UNCHANGED <<goChan, todo, res, history>>
  /\ UNCHANGED <<done, closed, mu, latch, end, crashed>>

\* Mutant: nil as soon as c.done is ready, without the final drain probe.
Mut_RecvSelect(p) ==
  /\ pc[p] = "select"
  /\ \/ GoRecv(p)
     \/ done /\ Return(p, "nil") /\ UNCHANGED <<goChan, history>>
  /\ UNCHANGED <<done, closed, mu, latch, end, nops, crashed>>

\* Its blocking select on data and done: a random ready case, or park.
RecvSelect(p) ==
  /\ pc[p] = "select"
  /\ \/ GoRecv(p)
     \/ done /\ pc' = [pc EXCEPT ![p] = "drain"] /\ UNCHANGED <<goChan, todo, op, res, history>>
     \/ /\ ~done /\ ~CanRecv
        /\ recvq' = Append(recvq, p)
        /\ pc' = [pc EXCEPT ![p] = "wait"]
        /\ UNCHANGED <<buf, sendq, todo, op, res, history>>
  /\ UNCHANGED <<done, closed, mu, latch, end, nops, crashed>>

\* The final drain probe decides value versus nil.
RecvDrain(p) ==
  /\ pc[p] = "drain"
  /\ \/ GoRecv(p)
     \/ /\ ~CanRecv
        /\ Return(p, "nil")
        /\ sawNil' = TRUE
        /\ UNCHANGED <<goChan, taken, lost, rejected>>
  /\ UNCHANGED <<done, closed, mu, latch, end, nops, crashed>>

\* A take on a promise-chan: <-c.done, then c.pval without the lock.
PromiseRecv(p) ==
  /\ pc[p] = "await" /\ done
  /\ Return(p, IF pval = <<>> THEN "nil" ELSE "value")
  /\ taken' = taken \o pval
  /\ sawNil' = (sawNil \/ pval = <<>>)
  /\ UNCHANGED <<goChan, done, closed, mu, latch, end, nops, lost, rejected, crashed>>

\* Mutant: poll! peeks at a queue as it does at a promise-chan.
Mut_ChanPoll(p) ==
  /\ Enter(p, "poll")
  /\ Return(p, IF CanRecv THEN "value" ELSE "nil")
  /\ taken' = IF CanRecv THEN Append(taken, Front) ELSE taken
  /\ UNCHANGED <<goChan, lost, rejected, sawNil, done, closed, mu, latch, end, crashed>>

\* ChanPoll: poll!.
ChanPoll(p) ==
  /\ Enter(p, "poll")
  /\ \/ ~Promise /\ GoRecv(p)
     \/ /\ Promise /\ done /\ pval # <<>>
        /\ Return(p, "value")
        /\ taken' = taken \o pval
        /\ UNCHANGED <<goChan, lost, rejected, sawNil>>
     \/ /\ IF Promise THEN ~done \/ pval = <<>> ELSE ~CanRecv
        /\ Return(p, "nil")
        /\ UNCHANGED <<goChan, history>>
  /\ UNCHANGED <<done, closed, mu, latch, end, crashed>>

\* Mutant: a later put overwrites the latched value.
Mut_PromisePut(p) ==
  /\ Promise
  /\ \E o \in {"send", "offer", "put"} : Enter(p, o)
  /\ mu = NoProc
  /\ ~closed
  /\ delivered' = TRUE /\ pval' = <<Arg(p)>>
  /\ CloseDone(p)
  /\ UNCHANGED <<buf, sendq, closed, mu, end, history, res, op, todo>>

\* promisePut: the put of a promise-chan, whichever call makes it.
PromisePut(p) ==
  /\ Promise
  /\ \E o \in {"send", "offer", "put"} : Enter(p, o)
  /\ mu = NoProc
  /\ IF closed \/ delivered
     THEN /\ Return(p, IF closed THEN "false" ELSE "true")
          /\ UNCHANGED <<recvq, done, latch, crashed>>
     ELSE /\ delivered' = TRUE /\ pval' = <<Arg(p)>>
          /\ CloseDone(p)
          /\ res' = [res EXCEPT ![p] = "true"]
          /\ UNCHANGED <<op, todo>>
  /\ UNCHANGED <<buf, sendq, closed, mu, end, history>>

\* ChanTakeAsync: take! spawns a goroutine that receives.
ChanTakeAsync(p) ==
  /\ Enter(p, "take")
  /\ \E w \in Workers :
       /\ pc[w] = "unborn"
       /\ pc' = [pc EXCEPT ![w] = "born"]
       /\ op' = [op EXCEPT ![w] = "recv"]
  /\ res' = [res EXCEPT ![p] = "nil"]
  /\ UNCHANGED <<goChan, done, closed, mu, latch, todo, end, history, crashed>>
------------------------------------------------------------------------------
\* What a client decides to call, and what a goroutine inside a call does.
Call(p) ==
  \/ ChanSend(p) \/ (\E o \in {"offer", "put"} : ChanOffer(p, o)) \/ ChanClose(p)
  \/ ChanRecv(p) \/ ChanPoll(p) \/ PromisePut(p) \/ ChanTakeAsync(p)

Step(p) ==
  \/ OfferTry(p) \/ BufferAdd(p) \/ SlideEvict(p) \/ SlideReadd(p) \/ PutReturn(p)
  \/ ReducedClose(p) \/ FlushReturn(p)
  \/ RecvSelect(p) \/ RecvDrain(p) \/ PromiseRecv(p)

Next == (\E p \in Procs : Call(p) \/ Step(p)) /\ UNCHANGED shape

Spec == Init /\ [][Next]_vars

\* Go schedules every runnable goroutine: a goroutine inside a call, or
\* spawned to make one, keeps running while it can.
Running(p) == (Step(p) \/ (pc[p] = "born" /\ Call(p))) /\ UNCHANGED shape

FairSpec == Spec /\ \A p \in Procs : WF_vars(Running(p))
------------------------------------------------------------------------------
(***************************************************************************)
(* Properties.                                                             *)
(***************************************************************************)

\* A put that parked before close! outlives it: <! answers nil only when
\* c.done has fired and, at that instant, neither the buffer nor a parked
\* sender has anything to give (ChanRecv's final drain probe, chan.go:249-279).
NilOnlyWhenDrained ==
  [][\A p \in Procs :
       (op[p] = "recv" /\ pc[p] # "idle" /\ pc'[p] = "idle" /\ res'[p] = "nil")
         => done /\ buf = <<>> /\ sendq = <<>> /\ pval = <<>>]_vars

\* On the channels whose puts run under c.mu, once some take has seen the end of
\* the channel (nil) no take ever gets a value again: chan.go:252-254, "before nil
\* forever".  closed is set under the lock that every put holds while it adds; a
\* plain channel's put looks at closed, unlocks and then sends.
GuardedNilForever == [][Guarded /\ sawNil => taken' = taken]_vars

\* A goroutine is inside the transducer (its step or its completion).
InXform(p) == HasXform /\ pc[p] \in {"add", "park", "evict", "readd"}

\* c.mu serializes the transducer: no two goroutines are ever inside it, and
\* once close! has begun its completion no put steps it again, although a step
\* may park for long holding the lock (chan.go:45-47, 211-224, 291-306).
XformSerialized ==
  \A p \in Procs : InXform(p) =>
    /\ closed => op[p] = "close"
    /\ \A q \in Procs \ {p} : ~InXform(q)

\* Each element is in at most one place: with one goroutine that is adding it, in
\* the buffer, taken, or discarded by the buffer policy.  Nothing is delivered
\* twice, nor after it was discarded.
NoDuplicates ==
  ~Promise =>
    /\ \A i, j \in DOMAIN taken : i # j => taken[i] # taken[j]
    /\ \A i, j \in DOMAIN buf : i # j => buf[i] # buf[j]
    /\ Range(taken) \cap (Range(buf) \cup lost) = {}
    /\ Range(buf) \cap lost = {}
    /\ \A p \in Procs :
         /\ Range(todo[p]) \cap (Range(taken) \cup Range(buf) \cup lost) = {}
         /\ \A q \in Procs \ {p} : Range(todo[p]) \cap Range(todo[q]) = {}

\* What a put or a completion has begun to add and no take has got yet: buffered, or
\* with the goroutine, parked or not, that is inside bufferAdd.
Accepted ==
  Range(buf) \cup
    UNION {Range(todo[p]) : p \in {q \in Procs : pc[q] \in {"add", "park", "evict", "readd"}}}

\* Nothing vanishes: whatever races, closes or wakes, an accepted element stays until
\* a take returns it or a dropping or sliding buffer discards it; a fixed buffer
\* discards none (bufferAdd and ChanRecv, chan.go:151-178, 249-279).
NothingVanishes ==
  [][/\ Accepted \subseteq Accepted' \cup Range(taken') \cup lost'
     /\ Policy = "fixed" => lost' = lost]_vars

\* No put! has left its value to a goroutine of its own (chan.go:395-414).
NoHandOff == \A w \in Workers : pc[w] = "unborn"

\* The elements one goroutine puts come out in the order it put them, whatever
\* parks, closes or is evicted in between (ChanSend and ChanOffer, chan.go:187-229,
\* 309-355).
Earlier(d, e) == d.n < e.n \/ (d.n = e.n /\ d.part < e.part)
PerProducerOrder ==
  ~Promise /\ NoHandOff => \A i, j \in DOMAIN taken :
    (i < j /\ taken[i].by = taken[j].by) => Earlier(taken[i], taken[j])

\* A sliding buffer takes in every new element: the branch of bufferAdd that
\* drops it "rather than block" (chan.go:170-173) is never reached, because
\* every put holds c.mu and takers only make room.
SlidingAdmitsNewest == Policy = "sliding" => rejected = {}

\* And it keeps the newest: what it evicts is older than anything of that
\* producer it still holds.
SlidingKeepsNewest ==
  Policy = "sliding" =>
    /\ SlidingAdmitsNewest
    /\ NoHandOff => \A e \in lost, i \in DOMAIN buf :
                      e.by = buf[i].by => Earlier(e, buf[i])

\* A promise-chan is a latch: all takes of one channel agree, on one value or
\* on nil, however puts, offers and close! race (chan.go:66-73, 231-247).
PromiseLatch ==
  Promise => /\ \A i \in DOMAIN taken : taken[i] = taken[1]
             /\ ~(sawNil /\ taken # <<>>)

\* c.done is closed at most once, by whichever of close!, a reduced put and a
\* promise-chan's first put gets there: no "close of closed channel" panic.
NoDoubleClose == ~crashed

\* A put or close! that a throwing ex-handler unwound: c.mu stays locked, or
\* c.done is never closed.
Poisoned == \E q \in Procs : end[q] = "throw"

\* close! wakes every blocked take: a goroutine inside <! on a channel whose
\* closed flag is set returns, also when the transducer's completion must
\* first push its elements past a full buffer.  Only a throwing ex-handler
\* leaves takers behind (chan.go:291-306).
CloseWakesTakers ==
  \A p \in Procs : (closed /\ op[p] = "recv") ~> (op[p] # "recv" \/ Poisoned)

\* offer! answers at once but for one case: a transducer that makes several
\* elements of one value finds room for the first, and may park its caller,
\* c.mu held, on a later one (chan.go:332-341).
OfferParksLate ==
  \A p \in Procs : (op[p] = "offer" /\ pc[p] = "park")
                       => HasXform /\ mu = p /\ Head(todo[p]).part > 1
==============================================================================
