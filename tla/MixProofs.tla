------------------------------ MODULE MixProofs ------------------------------
(***************************************************************************)
(* alts! commits to one port, and respects channels that were closed       *)
(* before, for any goroutines, channels and port vectors; the mix, built   *)
(* on it, loses no change and reads no input that was never open, for any  *)
(* inputs, controls and callers.                                           *)
(***************************************************************************)
EXTENDS Mix, FiniteSetTheorems, TLAPS

(***************************************************************************)
(* alts!.  A value is [by, n, port, part]; a goroutine inside its n-th     *)
(* call has no value numbered n on a channel or received, except the parts *)
(* that the transducer step it is in has added, so what is offered by the  *)
(* call that ends, or added by the step, is new.                           *)
(***************************************************************************)
\* ps is a vector of ports.
SeqPorts(ps) == ps \in Seq({ps[i] : i \in DOMAIN ps}) /\ \A i \in DOMAIN ps : ps[i].c \in Chans

\* The types that the argument needs, in parts.
TypeBuf   == buf \in [Chans -> Seq(Value)] /\ got \subseteq Value \X Chans /\ closed \subseteq Chans
TypePc    == pc \in [Procs -> {"idle", "pass", "add", "select", "parked", "drain"}]
TypePorts == DOMAIN ports = Procs /\ \A p \in Procs : SeqPorts(ports[p])
TypeCalls == /\ ncalls \in [Procs -> Nat] /\ shut \in [Procs -> SUBSET Chans]
             /\ at \in [Procs -> Nat] /\ dflt \in [Procs -> BOOLEAN] /\ DOMAIN res = Procs
             /\ todo \in [Procs -> Nat]

Types == TypeBuf /\ TypePc /\ TypePorts /\ TypeCalls

\* A goroutine tries one of its ports; a step is that of a write with a transducer.
AtInv == \A p \in Procs : /\ pc[p] \in {"pass", "add", "drain"} => at[p] \in DOMAIN ports[p]
                          /\ pc[p] = "add" => /\ ports[p][at[p]].write
                                              /\ Kind[ports[p][at[p]].c] = "xform"

\* What holds whatever the values are.
Flow == TypePc /\ TypePorts /\ TypeCalls /\ AtInv /\ closed \subseteq Chans /\ DOMAIN buf = Chans

\* The values of a call are its own.
OwnInv ==
  \A p \in Procs : pc[p] # "idle" =>
    \A i \in DOMAIN ports[p] : ports[p][i].v = [by |-> p, n |-> ncalls[p], port |-> i, part |-> 0]

\* v is in the sequence s, whose elements are all different.
In(v, s) == \E i \in DOMAIN s : v = s[i]
Inj(s)   == \A i, j \in DOMAIN s : s[i] = s[j] => i = j

\* v is on a channel, or was received.
OnOffer(v) == (\E c \in Chans : In(v, buf[c])) \/ (\E g \in got : v = g[1])

\* A value of the last call of a goroutine is out only if that call ended with it,
\* or is in the step that has added it.
Committed(v) ==
  /\ v.n <= ncalls[v.by]
  /\ v.n = ncalls[v.by] =>
       \/ pc[v.by] = "add" /\ at[v.by] = v.port /\ v.part > todo[v.by]
       \/ pc[v.by] = "idle" /\ res[v.by].port = v.port /\ res[v.by].ans \in {"true", "panic"}

OfferInv == \A v \in Value : OnOffer(v) => Committed(v)

\* A value is on a channel once, and not after it was received.
UniqueInv ==
  /\ \A c \in Chans : Inj(buf[c])
  /\ \A g \in got : Kind[g[2]] # "promise" => ~In(g[1], buf[g[2]])

\* A write of p to a channel that was closed when its call began.
Dead(p, i) == ports[p][i].write /\ ports[p][i].c \in shut[p]

\* The ordered pass does not get past such a port.
ShutInv ==
  \A p \in Procs :
    /\ shut[p] \subseteq closed
    /\ pc[p] = "pass" => \A i \in DOMAIN ports[p] : i < at[p] => ~Dead(p, i)
    /\ pc[p] \in {"select", "parked", "drain"} => \A i \in DOMAIN ports[p] : ~Dead(p, i)
    /\ pc[p] = "add" => ~Dead(p, at[p])
    /\ pc[p] = "idle" /\ res[p].port \in DOMAIN ports[p] /\ Dead(p, res[p].port)
         => res[p].ans = "false"

AInv == AtInv /\ OwnInv /\ OfferInv /\ UniqueInv /\ ShutInv
-----------------------------------------------------------------------------
\* The channel of a port, and its place.
LEMMA PortFacts ==
  ASSUME TypePorts, NEW p \in Procs, NEW i \in DOMAIN ports[p]
  PROVE  /\ ports[p][i].c \in Chans
         /\ i \in Nat /\ i <= Len(ports[p]) /\ Len(ports[p]) \in Nat /\ 1 <= i
<1>1. ports[p] \in Seq({ports[p][k] : k \in DOMAIN ports[p]}) /\ ports[p][i].c \in Chans
  BY DEF TypePorts, SeqPorts
<1>2. i \in 1..Len(ports[p]) /\ Len(ports[p]) \in Nat
  BY <1>1
<1> QED
  BY <1>1, <1>2

\* A sequence with channels is a vector of ports.
LEMMA SeqPortsFact ==
  ASSUME NEW S, NEW s \in Seq(S), \A i \in DOMAIN s : s[i].c \in Chans
  PROVE  SeqPorts(s)
<1>1. DOMAIN s = 1..Len(s) /\ Len(s) \in Nat /\ s \in [1..Len(s) -> S]
  OBVIOUS
<1> DEFINE R == {s[i] : i \in DOMAIN s}
<1>2. \A i \in 1..Len(s) : s[i] \in R
  BY <1>1
<1> HIDE DEF R
<1>3. s \in [1..Len(s) -> R]
  BY <1>1, <1>2
<1>4. s \in Seq(R)
  BY <1>1, <1>3
<1> QED
  BY <1>4 DEF SeqPorts, R

\* A call ends alone.
LEMMA FinishAlone ==
  ASSUME NEW p \in Procs, NEW r, Finish(Alone(p, r)), TypePc, TypeCalls
  PROVE  /\ pc'[p] = "idle" /\ res'[p] = r /\ TypePc' /\ at' \in [Procs -> Nat] /\ DOMAIN res' = Procs
         /\ \A q \in Procs : q # p => pc'[q] = pc[q] /\ res'[q] = res[q] /\ at'[q] = at[q]
         /\ UNCHANGED <<ports, dflt, ncalls, shut>>
<1>1. DOMAIN Alone(p, r) = {p} /\ Alone(p, r)[p] = r
  BY DEF Alone
<1> QED
  BY <1>1 DEF Finish, TypePc, TypeCalls

\* Two calls end together.
LEMMA FinishBoth ==
  ASSUME NEW p \in Procs, NEW q \in Procs, p # q, NEW r, NEW s, Finish(Both(p, r, q, s)),
         TypePc, TypeCalls
  PROVE  /\ pc'[p] = "idle" /\ pc'[q] = "idle" /\ res'[p] = r /\ res'[q] = s
         /\ TypePc' /\ at' \in [Procs -> Nat] /\ DOMAIN res' = Procs
         /\ \A x \in Procs : x # p /\ x # q =>
              pc'[x] = pc[x] /\ res'[x] = res[x] /\ at'[x] = at[x]
         /\ UNCHANGED <<ports, dflt, ncalls, shut>>
<1>1. DOMAIN Both(p, r, q, s) = {p, q} /\ Both(p, r, q, s)[p] = r /\ Both(p, r, q, s)[q] = s
  BY DEF Both
<1> QED
  BY <1>1 DEF Finish, TypePc, TypeCalls

\* A parked writer or reader has a port on the channel it waits for.
LEMMA WriterFacts ==
  ASSUME NEW c, NEW w \in Writers(c), NEW j \in Cases(w, c, TRUE)
  PROVE  w \in Procs /\ pc[w] = "parked" /\ j \in DOMAIN ports[w] /\ ports[w][j].c = c
<1>1. w \in Waiting(c, TRUE)
  BY DEF Writers
<1> QED
  BY <1>1 DEF Waiting, Cases

LEMMA ReaderFacts ==
  ASSUME NEW c, NEW q \in Readers(c)
  PROVE  /\ q \in Procs /\ pc[q] = "parked"
         /\ IndexOf(q, c) \in DOMAIN ports[q] /\ ports[q][IndexOf(q, c)].c = c
         /\ \E i \in DOMAIN ports[q] : ports[q][i].c = c /\ ports[q][i].write = FALSE
<1>1. q \in Procs /\ pc[q] = "parked" /\ Cases(q, c, FALSE) # {}
  BY DEF Readers, Waiting
<1>2. IndexOf(q, c) \in Cases(q, c, FALSE)
  BY <1>1 DEF IndexOf
<1> QED
  BY <1>1, <1>2 DEF Cases

\* Only p's call ends, with the answer a on port i.
Ends(p, i, a) ==
  /\ pc'[p] = "idle" /\ res'[p].port = i /\ res'[p].ans = a
  /\ \A q \in Procs : q # p => pc'[q] = pc[q] /\ res'[q] = res[q] /\ at'[q] = at[q]

\* The calls of p and q end.
EndsBoth(p, i, a, q, j, b) ==
  /\ q \in Procs /\ q # p /\ pc[q] = "parked" /\ j \in DOMAIN ports[q]
  /\ pc'[p] = "idle" /\ res'[p].port = i /\ res'[p].ans = a
  /\ pc'[q] = "idle" /\ res'[q].port = j /\ res'[q].ans = b
  /\ \A x \in Procs : x # p /\ x # q => pc'[x] = pc[x] /\ res'[x] = res[x] /\ at'[x] = at[x]

\* What stays, and what has its type, when calls end.
Framed ==
  /\ UNCHANGED <<closed, ports, dflt, ncalls, shut, todo>>
  /\ TypePc' /\ at' \in [Procs -> Nat] /\ DOMAIN res' = Procs

\* A receive ends p's call, and that of a parked writer whose value moves up.
LEMMA GetEffect ==
  ASSUME TypePc, TypeCalls, NEW p \in Procs, pc[p] # "parked", NEW i, NEW c \in Chans,
         GetFrom(p, i, c)
  PROVE  /\ Framed
         /\ \/ /\ buf[c] # <<>> /\ buf' = [buf EXCEPT ![c] = Tail(buf[c])]
               /\ got' = got \cup {<<Head(buf[c]), c>>} /\ Ends(p, i, "value")
            \/ \E w \in Procs : \E j \in DOMAIN ports[w] :
                 /\ w \in Writers(c) /\ ports[w][j].c = c
                 /\ buf' = [buf EXCEPT ![c] = Tail(Append(buf[c], ports[w][j].v))]
                 /\ got' = got \cup {<<Head(Append(buf[c], ports[w][j].v)), c>>}
                 /\ EndsBoth(p, i, "value", w, j, "true")
<1> USE DEF Framed, Result, stepping
<1>1. CASE /\ buf[c] # <<>> /\ Writers(c) = {}
           /\ buf' = [buf EXCEPT ![c] = Tail(@)]
           /\ got' = got \cup {<<Head(buf[c]), c>>}
           /\ Finish(Alone(p, Result(i, "value", <<Head(buf[c])>>)))
           /\ UNCHANGED <<closed, stepping>>
  BY <1>1, FinishAlone DEF Ends
<1>2. ASSUME NEW w \in Writers(c), NEW j \in Cases(w, c, TRUE),
             buf' = [buf EXCEPT ![c] = Tail(Append(buf[c], ports[w][j].v))],
             got' = got \cup {<<Head(Append(buf[c], ports[w][j].v)), c>>},
             Finish(Both(p, Result(i, "value", <<Head(Append(buf[c], ports[w][j].v))>>),
                         w, Result(j, "true", <<>>))),
             UNCHANGED <<closed, stepping>>
      PROVE  /\ Framed /\ w \in Procs /\ j \in DOMAIN ports[w] /\ ports[w][j].c = c
             /\ EndsBoth(p, i, "value", w, j, "true")
  <2>1. w \in Procs /\ pc[w] = "parked" /\ w # p /\ j \in DOMAIN ports[w] /\ ports[w][j].c = c
    BY WriterFacts
  <2>2. Framed /\ EndsBoth(p, i, "value", w, j, "true")
    BY <1>2, <2>1, FinishBoth DEF EndsBoth
  <2> QED
    BY <2>1, <2>2
<1>3. \/ /\ buf[c] # <<>> /\ Writers(c) = {}
         /\ buf' = [buf EXCEPT ![c] = Tail(@)]
         /\ got' = got \cup {<<Head(buf[c]), c>>}
         /\ Finish(Alone(p, Result(i, "value", <<Head(buf[c])>>)))
         /\ UNCHANGED <<closed, stepping>>
      \/ \E w \in Writers(c) : \E j \in Cases(w, c, TRUE) :
           /\ buf' = [buf EXCEPT ![c] = Tail(Append(buf[c], ports[w][j].v))]
           /\ got' = got \cup {<<Head(Append(buf[c], ports[w][j].v)), c>>}
           /\ Finish(Both(p, Result(i, "value", <<Head(Append(buf[c], ports[w][j].v))>>),
                          w, Result(j, "true", <<>>)))
           /\ UNCHANGED <<closed, stepping>>
  BY DEF GetFrom
<1> QED
  BY <1>1, <1>2, <1>3

\* A send ends p's call, and that of the parked reader it serves.
LEMMA PutEffect ==
  ASSUME TypePc, TypeCalls, NEW p \in Procs, pc[p] # "parked", NEW i, NEW c \in Chans, PutOn(p, i, c)
  PROVE  /\ Framed
         /\ \/ /\ buf' = [buf EXCEPT ![c] = Append(buf[c], ports[p][i].v)] /\ got' = got
               /\ Ends(p, i, "true") /\ Readers(c) = {} /\ Room(c)
            \/ \E r \in Procs : \E j \in DOMAIN ports[r] :
                 /\ buf' = buf /\ got' = got \cup {<<ports[p][i].v, c>>}
                 /\ EndsBoth(p, i, "true", r, j, "value")
                 /\ r \in Readers(c)
<1> USE DEF Framed, Result, stepping
<1>1. CASE /\ Readers(c) = {} /\ Room(c)
           /\ buf' = [buf EXCEPT ![c] = Append(@, ports[p][i].v)]
           /\ Finish(Alone(p, Result(i, "true", <<>>)))
           /\ UNCHANGED <<closed, got, stepping>>
  BY <1>1, FinishAlone DEF Ends
<1>2. ASSUME NEW r \in Readers(c),
             got' = got \cup {<<ports[p][i].v, c>>},
             Finish(Both(p, Result(i, "true", <<>>), r,
                         Result(IndexOf(r, c), "value", <<ports[p][i].v>>))),
             UNCHANGED <<buf, closed, stepping>>
      PROVE  Framed /\ \E j \in DOMAIN ports[r] :
                 /\ r \in Procs /\ buf' = buf /\ got' = got \cup {<<ports[p][i].v, c>>}
                 /\ EndsBoth(p, i, "true", r, j, "value")
                 /\ r \in Readers(c)
  <2> DEFINE j == IndexOf(r, c)
  <2>2. r \in Procs /\ pc[r] = "parked" /\ r # p /\ j \in DOMAIN ports[r]
    <3>1. r \in Procs /\ pc[r] = "parked" /\ IndexOf(r, c) \in DOMAIN ports[r]
      BY ReaderFacts
    <3> QED
      BY <3>1
  <2> HIDE DEF j
  <2>3. Framed /\ EndsBoth(p, i, "true", r, j, "value")
    BY <1>2, <2>2, FinishBoth DEF EndsBoth, j
  <2> QED
    BY <1>2, <2>2, <2>3
<1> QED
  BY <1>1, <1>2 DEF PutOn
-----------------------------------------------------------------------------
(***************************************************************************)
(* What one step of a call does, whichever of TryReady, StepAdd, StepEnd,  *)
(* Select, Drain and Tick it is.                                           *)
(***************************************************************************)
\* It reads from the channel of a port, or writes to it,
Takes(p) ==
  \E i \in DOMAIN ports[p] :
    /\ pc[p] \in {"pass", "select", "drain"}
    /\ ~ports[p][i].write \/ (pc[p] = "drain" /\ i = at[p])
    /\ Kind[ports[p][i].c] # "promise" /\ GetFrom(p, i, ports[p][i].c)

Gives(p) ==
  \E i \in DOMAIN ports[p] :
    /\ ports[p][i].write /\ pc[p] \in {"pass", "select"}
    /\ pc[p] = "pass" => ports[p][i].c \notin closed
    /\ Kind[ports[p][i].c] # "promise" /\ PutOn(p, i, ports[p][i].c)

Delivers(p) ==
  \E i \in DOMAIN ports[p] :
    ports[p][i].write /\ pc[p] = "pass" /\ Deliver(p, i, ports[p][i].c)

\* or answers with no effect on a channel,
AnswersOnly(p) ==
  \E i, a, v :
    /\ i \in DOMAIN ports[p] \cup {0} /\ a \in Answers
    /\ Finish(Alone(p, Result(i, a, v))) /\ UNCHANGED <<buf, closed, got, todo>>
    /\ i # 0 /\ i \in DOMAIN ports[p] /\ ports[p][i].write
         => a = "false" \/ pc[p] \in {"drain", "add"} \/ ports[p][i].c \notin closed
    /\ pc[p] = "add" => i = at[p] /\ a \in {"true", "panic"}

\* or only goes on.
PastPort(p) == pc[p] = "pass" /\ (ports[p][at[p]].write => ports[p][at[p]].c \notin closed)

GoesOn(p) ==
  /\ UNCHANGED <<buf, closed, ports, dflt, res, ncalls, got, shut>>
  /\ \/ /\ PastPort(p) /\ at[p] = Len(ports[p]) /\ pc' = [pc EXCEPT ![p] = "select"] /\ at' = at
        /\ todo' = todo
     \/ /\ PastPort(p) /\ at[p] # Len(ports[p]) /\ at' = [at EXCEPT ![p] = at[p] + 1] /\ pc' = pc
        /\ todo' = todo
     \/ /\ PastPort(p) /\ ports[p][at[p]].write /\ Kind[ports[p][at[p]].c] = "xform"
        /\ pc' = [pc EXCEPT ![p] = "add"] /\ at' = at
        /\ \E k \in Nat : todo' = [todo EXCEPT ![p] = k]
     \/ /\ pc[p] = "select" /\ pc' = [pc EXCEPT ![p] = "parked"] /\ at' = at /\ todo' = todo
        /\ \A i \in DOMAIN ports[p] : ~CaseReady(p, i)
     \/ /\ pc[p] = "parked" /\ pc' = [pc EXCEPT ![p] = "pass"] /\ at' = [at EXCEPT ![p] = 1]
        /\ DOMAIN ports[p] # {} /\ todo' = todo

\* A read that finds the channel done takes a value, or answers.
LEMMA ReadEndedCases ==
  ASSUME NEW p \in Procs, NEW i \in DOMAIN ports[p], ReadEnded(p, i, ports[p][i].c),
         pc[p] \in {"pass", "select", "drain"}, ~ports[p][i].write \/ (pc[p] = "drain" /\ i = at[p])
  PROVE  Takes(p) \/ AnswersOnly(p)
<1> DEFINE c == ports[p][i].c
<1>1. CASE /\ Kind[c] = "promise" /\ buf[c] # <<>>
           /\ Finish(Alone(p, Result(i, "value", buf[c]))) /\ UNCHANGED <<buf, closed, got, stepping>>
  BY <1>1, Zenon DEF AnswersOnly, Answers, stepping
<1>2. CASE Kind[c] # "promise" /\ GetFrom(p, i, c)
  BY <1>2 DEF Takes
<1>3. CASE Finish(Alone(p, Result(i, "nil", <<>>))) /\ UNCHANGED <<buf, closed, got, stepping>>
  BY <1>3, Zenon DEF AnswersOnly, Answers, stepping
<1> QED
  BY <1>1, <1>2, <1>3 DEF ReadEnded

\* TryReady is one of these steps.
LEMMA TryReadyCases ==
  ASSUME AtInv, NEW p \in Procs, TryReady(p)
  PROVE  pc[p] = "pass" /\ (Takes(p) \/ Gives(p) \/ Delivers(p) \/ AnswersOnly(p) \/ GoesOn(p))
<1> DEFINE i == at[p]
           c == ports[p][i].c
           w == ports[p][i].write
<1>1. pc[p] = "pass" /\ i \in DOMAIN ports[p]
  BY DEF TryReady, AtInv
<1>2. CASE w /\ TryWrite(p, i, c)
  <2>1. CASE c \in closed /\ Finish(Alone(p, Result(i, "false", <<>>))) /\ UNCHANGED <<buf, closed, got, stepping>>
    BY <2>1, <1>1, Zenon DEF AnswersOnly, Answers, stepping
  <2>2. CASE c \notin closed /\ Kind[c] = "plain" /\ PutOn(p, i, c)
    BY <2>2, <1>1, <1>2 DEF Gives
  <2>3. CASE c \notin closed /\ Finish(Alone(p, Result(i, "true", <<>>))) /\ UNCHANGED <<buf, closed, got, stepping>>
    BY <2>3, <1>1, Zenon DEF AnswersOnly, Answers, stepping
  <2> QED
    BY <1>1, <1>2, <2>1, <2>2, <2>3 DEF TryWrite
<1>3. CASE w /\ Deliver(p, i, c)
  BY <1>1, <1>3 DEF Delivers
<1>4. CASE ~w /\ Fired(c) /\ ReadEnded(p, i, c)
  BY <1>1, <1>4, ReadEndedCases
<1>5. CASE ~w /\ ~Fired(c) /\ Kind[c] # "promise" /\ GetFrom(p, i, c)
  BY <1>1, <1>5 DEF Takes
<1>6. CASE /\ IF w THEN ~WriteReady(c) ELSE ~ReadReady(c)
           /\ \/ /\ i = Len(ports[p]) /\ dflt[p]
                 /\ Finish(Alone(p, Result(0, "default", <<>>)))
              \/ /\ i = Len(ports[p]) /\ ~dflt[p]
                 /\ pc' = [pc EXCEPT ![p] = "select"]
                 /\ UNCHANGED <<ports, dflt, at, res, ncalls, shut>>
              \/ /\ i # Len(ports[p])
                 /\ at' = [at EXCEPT ![p] = i + 1]
                 /\ UNCHANGED <<pc, ports, dflt, res, ncalls, shut>>
           /\ UNCHANGED <<buf, closed, got, stepping>>
  <2>1. PastPort(p)
    BY <1>1, <1>6 DEF PastPort, WriteReady
  <2>2. CASE Finish(Alone(p, Result(0, "default", <<>>)))
    BY <1>1, <1>6, <2>2, Zenon DEF AnswersOnly, Answers, stepping
  <2>3. CASE ~ Finish(Alone(p, Result(0, "default", <<>>)))
    BY <1>1, <1>6, <2>1, <2>3 DEF GoesOn, stepping
  <2> QED
    BY <2>2, <2>3
<1>7. CASE w /\ EnterStep(p, c)
  <2>1. PastPort(p)
    BY <1>1, <1>7 DEF PastPort, EnterStep
  <2>2. PICK k \in XAdds : todo' = [todo EXCEPT ![p] = k]
    BY <1>7 DEF EnterStep
  <2>3. k \in Nat
    BY AltsAssumption
  <2> QED
    BY <1>1, <1>7, <2>1, <2>2, <2>3 DEF EnterStep, GoesOn
<1> QED
  BY <1>1, <1>2, <1>3, <1>4, <1>5, <1>6, <1>7 DEF TryReady

\* So is Select.
LEMMA SelectCases ==
  ASSUME NEW p \in Procs, Select(p)
  PROVE  pc[p] = "select" /\ (Takes(p) \/ Gives(p) \/ AnswersOnly(p) \/ GoesOn(p))
<1>1. pc[p] = "select"
  BY DEF Select
<1>2. ASSUME NEW i \in DOMAIN ports[p], CaseReady(p, i),
             \/ ports[p][i].write /\ PutOn(p, i, ports[p][i].c)
             \/ ~ports[p][i].write /\ Fired(ports[p][i].c) /\ ReadEnded(p, i, ports[p][i].c)
             \/ /\ ~ports[p][i].write /\ Kind[ports[p][i].c] # "promise"
                /\ GetFrom(p, i, ports[p][i].c)
      PROVE  Takes(p) \/ Gives(p) \/ AnswersOnly(p)
  <2>1. CASE ports[p][i].write /\ PutOn(p, i, ports[p][i].c)
    BY <1>1, <1>2, <2>1 DEF Gives, CaseReady
  <2>2. CASE ~ports[p][i].write /\ ReadEnded(p, i, ports[p][i].c)
    BY <1>1, <2>2, ReadEndedCases
  <2>3. CASE ~ports[p][i].write /\ Kind[ports[p][i].c] # "promise" /\ GetFrom(p, i, ports[p][i].c)
    BY <1>1, <2>3 DEF Takes
  <2> QED
    BY <1>2, <2>1, <2>2, <2>3
<1>3. CASE /\ \A i \in DOMAIN ports[p] : ~CaseReady(p, i)
           /\ pc' = [pc EXCEPT ![p] = "parked"]
           /\ UNCHANGED <<buf, closed, ports, dflt, at, res, ncalls, got, shut, stepping>>
  BY <1>1, <1>3 DEF GoesOn, stepping
<1> QED
  BY <1>1, <1>2, <1>3 DEF Select

\* And every step of a call.
LEMMA StepCases ==
  ASSUME AtInv, NEW p \in Procs, AltsStep(p)
  PROVE  /\ pc[p] \in {"pass", "add", "select", "parked", "drain"}
         /\ Takes(p) \/ Gives(p) \/ Delivers(p) \/ AnswersOnly(p) \/ GoesOn(p) \/ StepAdd(p)
<1>1. CASE TryReady(p)
  BY <1>1, TryReadyCases
<1>2. CASE Select(p)
  BY <1>2, SelectCases
<1>3. CASE Drain(p)
  <2>1. pc[p] = "drain" /\ at[p] \in DOMAIN ports[p] /\ ReadEnded(p, at[p], ports[p][at[p]].c)
    BY <1>3 DEF Drain, AtInv
  <2> QED
    BY <2>1, ReadEndedCases
<1>4. CASE Tick(p)
  <2>1. pc[p] = "parked" /\ GoesOn(p)
    BY <1>4 DEF Tick, GoesOn, stepping
  <2> QED
    BY <2>1
<1>5. CASE StepAdd(p)
  BY <1>5 DEF StepAdd
<1>6. CASE StepEnd(p)
  <2>1. pc[p] = "add" /\ at[p] \in DOMAIN ports[p] /\ UNCHANGED <<buf, closed, got, todo>>
    BY <1>6 DEF StepEnd, AtInv
  <2>2. CASE Finish(Alone(p, Result(at[p], "true", <<>>)))
    BY <2>1, <2>2, Zenon DEF AnswersOnly, Answers
  <2>3. CASE Finish(Alone(p, Result(at[p], "panic", <<>>)))
    BY <2>1, <2>3, Zenon DEF AnswersOnly, Answers
  <2> QED
    BY <1>6, <2>1, <2>2, <2>3 DEF StepEnd
<1> QED
  BY <1>1, <1>2, <1>3, <1>4, <1>5, <1>6 DEF AltsStep
-----------------------------------------------------------------------------
\* Taking the first of a sequence without repetition.
LEMMA TailFacts ==
  ASSUME NEW V, NEW s \in Seq(V), s # <<>>, Inj(s)
  PROVE  /\ Tail(s) \in Seq(V) /\ Inj(Tail(s)) /\ Head(s) \in V
         /\ ~In(Head(s), Tail(s)) /\ In(Head(s), s)
         /\ \A x : In(x, Tail(s)) => In(x, s)
<1>1. /\ Len(s) \in Nat /\ Len(s) >= 1 /\ DOMAIN s = 1..Len(s) /\ Head(s) = s[1]
      /\ Tail(s) \in Seq(V) /\ DOMAIN Tail(s) = 1..(Len(s) - 1)
      /\ \A i \in 1..(Len(s) - 1) : Tail(s)[i] = s[i + 1]
  OBVIOUS
<1>2. \A i \in DOMAIN Tail(s) : i + 1 \in DOMAIN s /\ Tail(s)[i] = s[i + 1] /\ i + 1 # 1
  BY <1>1
<1>3. Inj(Tail(s))
  <2> SUFFICES ASSUME NEW i \in DOMAIN Tail(s), NEW j \in DOMAIN Tail(s), Tail(s)[i] = Tail(s)[j]
               PROVE  i = j
    BY DEF Inj
  <2>1. i + 1 = j + 1
    BY <1>2 DEF Inj
  <2> QED
    BY <1>1, <2>1
<1>4. 1 \in DOMAIN s /\ In(Head(s), s) /\ Head(s) \in V
  BY <1>1 DEF In
<1>5. ~In(Head(s), Tail(s))
  BY <1>1, <1>2, <1>4 DEF In, Inj
<1>6. \A x : In(x, Tail(s)) => In(x, s)
  BY <1>2 DEF In
<1> QED
  BY <1>1, <1>3, <1>4, <1>5, <1>6

\* Appending a value that is not there.
LEMMA AppendFacts ==
  ASSUME NEW V, NEW s \in Seq(V), NEW v \in V, Inj(s), ~In(v, s)
  PROVE  /\ Append(s, v) \in Seq(V) /\ Append(s, v) # <<>> /\ Inj(Append(s, v))
         /\ \A x : In(x, Append(s, v)) => In(x, s) \/ x = v
<1>1. /\ Len(s) \in Nat /\ DOMAIN s = 1..Len(s) /\ Append(s, v) \in Seq(V)
      /\ DOMAIN Append(s, v) = 1..(Len(s) + 1) /\ Append(s, v)[Len(s) + 1] = v
      /\ \A i \in 1..Len(s) : Append(s, v)[i] = s[i]
  OBVIOUS
<1>2. \A i \in DOMAIN Append(s, v) :
        (i \in DOMAIN s /\ Append(s, v)[i] = s[i]) \/ (i = Len(s) + 1 /\ Append(s, v)[i] = v)
  <2> TAKE i \in DOMAIN Append(s, v)
  <2>1. i \in Nat /\ 1 <= i /\ i <= Len(s) + 1
    BY <1>1
  <2>2. CASE i = Len(s) + 1
    BY <1>1, <2>2
  <2>3. CASE i # Len(s) + 1
    <3>1. Len(s) \in Nat
      OBVIOUS
    <3>2. i \in 1..Len(s)
      BY <3>1, <2>1, <2>3
    <3>3. Append(s, v)[i] = s[i]
      BY <3>2
    <3>4. i \in DOMAIN s
      BY <3>2
    <3> QED
      BY <3>3, <3>4
  <2> QED
    BY <2>2, <2>3
<1>3. \A x : In(x, Append(s, v)) => In(x, s) \/ x = v
  BY <1>2 DEF In
<1>4. Inj(Append(s, v))
  BY <1>2 DEF Inj, In
<1>5. Append(s, v) # <<>>
  <2>1. Len(Append(s, v)) = Len(s) + 1 /\ Len(<<>>) = 0
    OBVIOUS
  <2> QED
    BY <1>1, <2>1
<1> QED
  BY <1>1, <1>3, <1>4, <1>5

\* What a call in progress offers is not out yet.
LEMMA FreshOffer ==
  ASSUME TypePorts, TypeCalls, OwnInv, OfferInv, NEW p \in Procs, pc[p] \notin {"idle", "add"},
         NEW i \in DOMAIN ports[p]
  PROVE  /\ ports[p][i].v \in Value /\ ~OnOffer(ports[p][i].v)
         /\ ports[p][i].v = [by |-> p, n |-> ncalls[p], port |-> i, part |-> 0]
<1>1. ports[p][i].v = [by |-> p, n |-> ncalls[p], port |-> i, part |-> 0]
  BY DEF OwnInv
<1>2. ports[p][i].v \in Value
  BY <1>1, PortFacts DEF TypeCalls, Value
<1>3. ~OnOffer(ports[p][i].v)
  BY <1>1, <1>2 DEF OfferInv, Committed
<1> QED
  BY <1>1, <1>2, <1>3

\* Nor is the next element of a step.
LEMMA FreshPart ==
  ASSUME TypePorts, TypeCalls, AtInv, OwnInv, OfferInv, NEW p \in Procs, pc[p] = "add", todo[p] > 0,
         NEW v, v = [ports[p][at[p]].v EXCEPT !.part = todo[p]]
  PROVE  /\ v \in Value /\ ~OnOffer(v)
         /\ v.by = p /\ v.n = ncalls[p] /\ v.port = at[p] /\ v.part = todo[p]
<1>1. at[p] \in DOMAIN ports[p] /\ ncalls[p] \in Nat /\ todo[p] \in Nat
  BY DEF AtInv, TypeCalls
<1>2. ports[p][at[p]].v = [by |-> p, n |-> ncalls[p], port |-> at[p], part |-> 0]
  BY <1>1 DEF OwnInv
<1>3. v = [by |-> p, n |-> ncalls[p], port |-> at[p], part |-> todo[p]]
  BY <1>2
<1>4. v \in Value /\ v.by = p /\ v.n = ncalls[p] /\ v.port = at[p] /\ v.part = todo[p]
  BY <1>1, <1>3, PortFacts DEF Value
<1>5. ~(v.part > todo[p])
  BY <1>1, <1>4
<1>6. ~Committed(v)
  BY <1>4, <1>5, Zenon DEF Committed
<1>7. ~OnOffer(v)
  BY <1>4, <1>6 DEF OfferInv
<1> QED
  BY <1>4, <1>7

\* x was offered by a call that has just ended with it, or has just added it.
Newly(x) ==
  /\ x.n = ncalls[x.by]
  /\ \/ pc'[x.by] = "add" /\ at'[x.by] = x.port /\ x.part > todo'[x.by]
     \/ pc'[x.by] = "idle" /\ res'[x.by].port = x.port /\ res'[x.by].ans \in {"true", "panic"}

\* q's call stays ended, or goes on with its step, or ends with it.
Keeps(q) ==
  /\ pc[q] = "idle" => pc'[q] = "idle" /\ res'[q] = res[q]
  /\ pc[q] = "add" =>
       \/ pc'[q] = "add" /\ at'[q] = at[q] /\ todo'[q] \in Nat /\ todo'[q] <= todo[q]
       \/ pc'[q] = "idle" /\ res'[q].port = at[q] /\ res'[q].ans \in {"true", "panic"}

\* Nothing else comes out, and calls that had ended stay as they were.
LEMMA OfferStep ==
  ASSUME TypeCalls, OfferInv, ncalls' = ncalls,
         \A q \in Procs : Keeps(q),
         \A x \in Value : OnOffer(x)' => OnOffer(x) \/ Newly(x)
  PROVE  OfferInv'
<1> SUFFICES ASSUME NEW x \in Value, OnOffer(x)'  PROVE Committed(x)'
  BY DEF OfferInv
<1>1. x.by \in Procs /\ x.n \in Nat /\ x.part \in Nat /\ ncalls[x.by] \in Nat /\ todo[x.by] \in Nat
  BY DEF Value, TypeCalls
<1>2. CASE OnOffer(x)
  <2>1. Committed(x) /\ Keeps(x.by)
    BY <1>1, <1>2 DEF OfferInv
  <2> QED
    BY <1>1, <2>1 DEF Committed, Keeps
<1>3. CASE Newly(x)
  BY <1>1, <1>3 DEF Newly, Committed
<1> QED
  BY <1>2, <1>3
-----------------------------------------------------------------------------
\* q's call goes on as it was, or ends with an answer that respects closed channels.
Settled(q) ==
  \/ pc'[q] = pc[q] /\ res'[q] = res[q] /\ at'[q] = at[q]
  \/ /\ pc[q] # "idle" /\ pc'[q] = "idle"
     /\ pc[q] = "add" => res'[q].port = at[q] /\ res'[q].ans \in {"true", "panic"}
     /\ res'[q].port \in DOMAIN ports[q] /\ Dead(q, res'[q].port) => res'[q].ans = "false"

\* A step in which calls end, whatever becomes of the values.
LEMMA SettledStep ==
  ASSUME Types, AtInv, OwnInv, ShutInv, Framed, \A q \in Procs : Settled(q)
  PROVE  /\ TypePc' /\ TypePorts' /\ TypeCalls' /\ AtInv' /\ OwnInv' /\ ShutInv'
         /\ \A q \in Procs : Keeps(q)
<1>1. TypePc' /\ TypePorts' /\ TypeCalls'
  BY DEF Types, Framed, TypePorts, SeqPorts, TypeCalls
<1>2. \A q \in Procs : Keeps(q)
  BY DEF Types, TypeCalls, Settled, Framed, Keeps
<1>3. AtInv' /\ OwnInv'
  BY DEF AtInv, OwnInv, Settled, Framed
<1>4. ShutInv'
  <2> SUFFICES ASSUME NEW q \in Procs
               PROVE  /\ shut'[q] \subseteq closed'
                      /\ pc'[q] = "pass" => \A i \in DOMAIN ports'[q] : i < at'[q] => ~Dead(q, i)'
                      /\ pc'[q] \in {"select", "parked", "drain"} => \A i \in DOMAIN ports'[q] : ~Dead(q, i)'
                      /\ pc'[q] = "add" => ~Dead(q, at[q])'
                      /\ pc'[q] = "idle" /\ res'[q].port \in DOMAIN ports'[q] /\ Dead(q, res[q].port)'
                           => res'[q].ans = "false"
    BY DEF ShutInv
  <2>1. \A i : Dead(q, i)' <=> Dead(q, i)
    BY DEF Dead, Framed
  <2>2. (Dead(q, res[q].port)' <=> Dead(q, res'[q].port)) /\ (Dead(q, at[q])' <=> Dead(q, at'[q]))
    BY DEF Dead, Framed
  <2> QED
    BY <2>1, <2>2 DEF ShutInv, Settled, Framed
<1> QED
  BY <1>1, <1>2, <1>3, <1>4

\* What p offers when it may is not dead.
LEMMA NotDead ==
  ASSUME ShutInv, NEW p \in Procs, NEW i \in DOMAIN ports[p],
         ~ports[p][i].write \/ pc[p] \in {"select", "parked", "drain"} \/ ports[p][i].c \notin closed
  PROVE  ~Dead(p, i)
  BY DEF ShutInv, Dead

\* The channel c gives its first value to a receiver.
LEMMA GotStep ==
  ASSUME TypeBuf, UniqueInv, NEW c \in Chans, NEW s \in Seq(Value), s # <<>>, Inj(s),
         \A x : In(x, s) => In(x, buf[c]) \/ ~OnOffer(x),
         buf' = [buf EXCEPT ![c] = Tail(s)], got' = got \cup {<<Head(s), c>>}, UNCHANGED closed
  PROVE  /\ TypeBuf' /\ UniqueInv'
         /\ \A x \in Value : OnOffer(x)' => OnOffer(x) \/ In(x, s)
<1>1. /\ Tail(s) \in Seq(Value) /\ Inj(Tail(s)) /\ Head(s) \in Value
      /\ ~In(Head(s), Tail(s)) /\ In(Head(s), s)
      /\ \A x : In(x, Tail(s)) => In(x, s)
  BY TailFacts
<1>2. TypeBuf'
  BY <1>1 DEF TypeBuf
<1>3. buf'[c] = Tail(s) /\ \A d \in Chans : d # c => buf'[d] = buf[d]
  BY DEF TypeBuf
<1>4. \A x \in Value : OnOffer(x)' => OnOffer(x) \/ In(x, s)
  <2> TAKE x \in Value
  <2>1. ASSUME NEW d \in Chans, In(x, buf'[d])  PROVE OnOffer(x) \/ In(x, s)
    BY <1>1, <1>3, <2>1 DEF OnOffer
  <2>2. ASSUME NEW g \in got', x = g[1]  PROVE OnOffer(x) \/ In(x, s)
    BY <1>1, <2>2 DEF OnOffer
  <2> QED
    BY <2>1, <2>2 DEF OnOffer, In
<1>5. \A d \in Chans : Inj(buf'[d])
  BY <1>1, <1>3 DEF UniqueInv
<1>6. ASSUME NEW g \in got', Kind[g[2]] # "promise"  PROVE ~In(g[1], buf'[g[2]])
  <2>1. CASE g \in got /\ g[2] # c
    BY <1>3, <1>6, <2>1 DEF UniqueInv, TypeBuf
  <2>2. CASE g \in got /\ g[2] = c
    <3>1. OnOffer(g[1]) /\ ~In(g[1], buf[c])
      BY <1>6, <2>2 DEF OnOffer, UniqueInv
    <3> QED
      BY <1>1, <1>3, <2>2, <3>1
  <2>3. CASE g = <<Head(s), c>>
    BY <1>1, <1>3, <2>3
  <2> QED
    BY <2>1, <2>2, <2>3
<1>7. UniqueInv'
  BY <1>5, <1>6 DEF UniqueInv, Inj, In
<1> QED
  BY <1>2, <1>4, <1>7

\* p takes a value: the invariant stays.
LEMMA TakesKeeps ==
  ASSUME Types, AInv, NEW p \in Procs, Takes(p)
  PROVE  Types' /\ AInv'
<1> USE DEF Types, AInv
<1>1. PICK i \in DOMAIN ports[p] :
        /\ pc[p] \in {"pass", "select", "drain"} /\ (~ports[p][i].write \/ (pc[p] = "drain" /\ i = at[p]))
        /\ GetFrom(p, i, ports[p][i].c)
  BY DEF Takes
<1> DEFINE c == ports[p][i].c
<1>2. c \in Chans /\ buf[c] \in Seq(Value) /\ Inj(buf[c])
  BY PortFacts DEF TypeBuf, UniqueInv
<1>3. ~Dead(p, i)
  BY <1>1, NotDead
<1> HIDE DEF c
<1>4. /\ Framed
      /\ \/ /\ buf[c] # <<>> /\ buf' = [buf EXCEPT ![c] = Tail(buf[c])]
            /\ got' = got \cup {<<Head(buf[c]), c>>} /\ Ends(p, i, "value")
         \/ \E w \in Procs : \E j \in DOMAIN ports[w] :
              /\ ports[w][j].c = c
              /\ buf' = [buf EXCEPT ![c] = Tail(Append(buf[c], ports[w][j].v))]
              /\ got' = got \cup {<<Head(Append(buf[c], ports[w][j].v)), c>>}
              /\ EndsBoth(p, i, "value", w, j, "true")
  BY <1>1, <1>2, GetEffect DEF c
<1>5. ncalls' = ncalls /\ closed' = closed
  BY <1>4 DEF Framed
<1>6. CASE /\ buf[c] # <<>> /\ buf' = [buf EXCEPT ![c] = Tail(buf[c])]
           /\ got' = got \cup {<<Head(buf[c]), c>>} /\ Ends(p, i, "value")
  <2>1. \A q \in Procs : Settled(q)
    BY <1>1, <1>3, <1>6 DEF Ends, Settled
  <2>2. /\ TypePc' /\ TypePorts' /\ TypeCalls' /\ AtInv' /\ OwnInv' /\ ShutInv'
        /\ \A q \in Procs : Keeps(q)
    BY <1>4, <2>1, SettledStep
  <2>3. /\ TypeBuf' /\ UniqueInv'
        /\ \A x \in Value : OnOffer(x)' => OnOffer(x) \/ In(x, buf[c])
    BY <1>2, <1>5, <1>6, GotStep
  <2>4. \A x \in Value : OnOffer(x)' => OnOffer(x)
    BY <1>2, <2>3 DEF OnOffer
  <2>5. OfferInv'
    BY <1>5, <2>2, <2>4, OfferStep
  <2> QED
    BY <2>2, <2>3, <2>5
<1>7. ASSUME NEW w \in Procs, NEW j \in DOMAIN ports[w],
             buf' = [buf EXCEPT ![c] = Tail(Append(buf[c], ports[w][j].v))],
             got' = got \cup {<<Head(Append(buf[c], ports[w][j].v)), c>>},
             EndsBoth(p, i, "value", w, j, "true")
      PROVE  Types' /\ AInv'
  <2> DEFINE v == ports[w][j].v
             line == Append(buf[c], v)
  <2>1. pc[w] = "parked" /\ ~Dead(w, j)
    BY <1>7, NotDead DEF EndsBoth
  <2>2. \A q \in Procs : Settled(q)
    BY <1>1, <1>3, <1>7, <2>1 DEF EndsBoth, Settled
  <2>3. /\ TypePc' /\ TypePorts' /\ TypeCalls' /\ AtInv' /\ OwnInv' /\ ShutInv'
        /\ \A q \in Procs : Keeps(q)
    BY <1>4, <2>2, SettledStep
  <2>4. v \in Value /\ ~OnOffer(v) /\ v = [by |-> w, n |-> ncalls[w], port |-> j, part |-> 0]
    BY <2>1, FreshOffer
  <2>5. ~In(v, buf[c])
    BY <1>2, <2>4 DEF OnOffer
  <2>6. Newly(v)
    BY <1>7, <2>4 DEF Newly, EndsBoth
  <2>7. buf' = [buf EXCEPT ![c] = Tail(line)] /\ got' = got \cup {<<Head(line), c>>}
    BY <1>7
  <2> HIDE DEF v
  <2>8. /\ line \in Seq(Value) /\ line # <<>> /\ Inj(line)
        /\ \A x : In(x, line) => In(x, buf[c]) \/ x = v
    BY <1>2, <2>4, <2>5, AppendFacts
  <2> HIDE DEF line
  <2>9. /\ TypeBuf' /\ UniqueInv'
        /\ \A x \in Value : OnOffer(x)' => OnOffer(x) \/ In(x, line)
    BY <1>2, <1>5, <2>4, <2>7, <2>8, GotStep
  <2>10. \A x \in Value : OnOffer(x)' => OnOffer(x) \/ Newly(x)
    BY <1>2, <2>6, <2>8, <2>9 DEF OnOffer
  <2>11. OfferInv'
    BY <1>5, <2>3, <2>10, OfferStep
  <2> QED
    BY <2>3, <2>9, <2>11
<1> QED
  BY <1>4, <1>6, <1>7

\* v, which was not out, comes to be on the channel c or is received from it.
LEMMA PutStep ==
  ASSUME TypeBuf, UniqueInv, NEW c \in Chans, NEW v \in Value, ~OnOffer(v), UNCHANGED closed,
         \/ buf' = [buf EXCEPT ![c] = Append(buf[c], v)] /\ got' = got
         \/ buf' = buf /\ got' = got \cup {<<v, c>>}
  PROVE  /\ TypeBuf' /\ UniqueInv'
         /\ \A x \in Value : OnOffer(x)' => OnOffer(x) \/ x = v
<1>1. buf[c] \in Seq(Value) /\ Inj(buf[c]) /\ ~In(v, buf[c])
  BY DEF TypeBuf, UniqueInv, OnOffer
<1>2. CASE buf' = buf /\ got' = got \cup {<<v, c>>}
  <2>1. TypeBuf' /\ \A x \in Value : OnOffer(x)' => OnOffer(x) \/ x = v
    BY <1>2 DEF TypeBuf, OnOffer, In
  <2>2. \A g \in got' : g \in got \/ (g[1] = v /\ g[2] = c)
    BY <1>2
  <2>3. UniqueInv'
    BY <1>1, <1>2, <2>2 DEF UniqueInv, Inj, In
  <2> QED
    BY <2>1, <2>3
<1>3. CASE buf' = [buf EXCEPT ![c] = Append(buf[c], v)] /\ got' = got
  <2> DEFINE line == Append(buf[c], v)
  <2>1. /\ line \in Seq(Value) /\ Inj(line)
        /\ \A x : In(x, line) => In(x, buf[c]) \/ x = v
    BY <1>1, AppendFacts
  <2>2. buf' = [buf EXCEPT ![c] = line]
    BY <1>3
  <2> HIDE DEF line
  <2>3. TypeBuf'
    BY <1>3, <2>1, <2>2 DEF TypeBuf
  <2>4. buf'[c] = line /\ \A d \in Chans : d # c => buf'[d] = buf[d]
    BY <2>2 DEF TypeBuf
  <2>5. \A x \in Value : OnOffer(x)' => OnOffer(x) \/ x = v
    <3> TAKE x \in Value
    <3>1. ASSUME NEW d \in Chans, In(x, buf'[d])  PROVE OnOffer(x) \/ x = v
      BY <2>1, <2>4, <3>1 DEF OnOffer
    <3>2. ASSUME NEW g \in got', x = g[1]  PROVE OnOffer(x)
      BY <1>3, <3>2 DEF OnOffer
    <3> QED
      BY <3>1, <3>2 DEF OnOffer, In
  <2>6. \A d \in Chans : Inj(buf'[d])
    BY <2>1, <2>4 DEF UniqueInv
  <2>7. ASSUME NEW g \in got', Kind[g[2]] # "promise"  PROVE ~In(g[1], buf'[g[2]])
    <3>1. g \in got /\ g[2] \in Chans /\ ~In(g[1], buf[g[2]]) /\ g[1] # v
      BY <1>3, <2>7 DEF UniqueInv, OnOffer, TypeBuf
    <3> QED
      BY <2>1, <2>4, <3>1
  <2>8. UniqueInv'
    BY <2>6, <2>7 DEF UniqueInv, Inj, In
  <2> QED
    BY <2>3, <2>5, <2>8
<1> QED
  BY <1>2, <1>3

\* p writes: the invariant stays.
LEMMA GivesKeeps ==
  ASSUME Types, AInv, NEW p \in Procs, Gives(p)
  PROVE  Types' /\ AInv'
<1> USE DEF Types, AInv
<1>1. PICK i \in DOMAIN ports[p] :
        /\ pc[p] \in {"pass", "select"} /\ (pc[p] = "pass" => ports[p][i].c \notin closed)
        /\ PutOn(p, i, ports[p][i].c)
  BY DEF Gives
<1> DEFINE c == ports[p][i].c
           v == ports[p][i].v
<1>2. c \in Chans
  BY PortFacts
<1>3. ~Dead(p, i)
  BY <1>1, NotDead
<1>4. v \in Value /\ ~OnOffer(v) /\ v = [by |-> p, n |-> ncalls[p], port |-> i, part |-> 0]
  BY <1>1, FreshOffer
<1> HIDE DEF c
<1>5. /\ Framed
      /\ \/ /\ buf' = [buf EXCEPT ![c] = Append(buf[c], v)] /\ got' = got
            /\ Ends(p, i, "true") /\ Readers(c) = {}
         \/ \E r \in Procs : \E j \in DOMAIN ports[r] :
              /\ buf' = buf /\ got' = got \cup {<<v, c>>}
              /\ EndsBoth(p, i, "true", r, j, "value")
              /\ r \in Readers(c)
  BY <1>1, <1>2, PutEffect DEF c
<1> HIDE DEF v
<1>6. ncalls' = ncalls /\ closed' = closed
  BY <1>5 DEF Framed
<1>7. /\ \A q \in Procs : Settled(q)
      /\ pc'[p] = "idle" /\ res'[p].port = i /\ res'[p].ans = "true"
  <2>1. CASE Ends(p, i, "true")
    BY <1>1, <1>3, <2>1 DEF Ends, Settled
  <2>2. ASSUME NEW r \in Procs, NEW j \in DOMAIN ports[r], EndsBoth(p, i, "true", r, j, "value")
        PROVE  /\ \A q \in Procs : Settled(q)
               /\ pc'[p] = "idle" /\ res'[p].port = i /\ res'[p].ans = "true"
    <3>1. ~Dead(r, j) /\ pc[r] = "parked"
      BY <2>2, NotDead DEF EndsBoth
    <3> QED
      BY <1>1, <1>3, <2>2, <3>1 DEF EndsBoth, Settled
  <2> QED
    BY <1>5, <2>1, <2>2
<1>8. /\ TypePc' /\ TypePorts' /\ TypeCalls' /\ AtInv' /\ OwnInv' /\ ShutInv'
      /\ \A q \in Procs : Keeps(q)
  BY <1>5, <1>7, SettledStep
<1>9. /\ TypeBuf' /\ UniqueInv'
      /\ \A x \in Value : OnOffer(x)' => OnOffer(x) \/ x = v
  BY <1>2, <1>4, <1>5, <1>6, PutStep
<1>10. Newly(v)
  BY <1>4, <1>7 DEF Newly
<1>11. OfferInv'
  BY <1>6, <1>8, <1>9, <1>10, OfferStep
<1> QED
  BY <1>8, <1>9, <1>11

\* The parked readers of c wake on its port.
LEMMA WakeFacts ==
  ASSUME TypePc, TypePorts, TypeCalls, NEW c \in Chans, NEW q \in Readers(c)
  PROVE  q \in Procs /\ pc[q] = "parked" /\ IndexOf(q, c) \in DOMAIN ports[q] /\ IndexOf(q, c) \in Nat
<1>1. q \in Procs /\ pc[q] = "parked" /\ IndexOf(q, c) \in DOMAIN ports[q]
  BY ReaderFacts
<1> QED
  BY <1>1, PortFacts

\* p's call goes on, or ends, and readers wake; the ports and calls stay.
LEMMA WakeStep ==
  ASSUME Types, AtInv, OwnInv, ShutInv, NEW c \in Chans, closed \subseteq closed', TypePc', TypeCalls',
         UNCHANGED <<ports, shut, ncalls>>,
         \A q \in Procs : \/ pc'[q] = pc[q] /\ at'[q] = at[q] /\ res'[q] = res[q]
                          \/ q \in Readers(c) /\ pc'[q] = "drain" /\ at'[q] = IndexOf(q, c)
                          \/ /\ pc[q] \notin {"idle", "add"} /\ pc'[q] = "idle"
                             /\ res'[q].port \in DOMAIN ports[q] => ~Dead(q, res'[q].port)
  PROVE  TypePorts' /\ AtInv' /\ OwnInv' /\ ShutInv'
<1>1. TypePorts'
  BY DEF Types, TypePorts, SeqPorts
<1>2. AtInv' /\ OwnInv'
  BY WakeFacts DEF Types, AtInv, OwnInv
<1>3. ASSUME NEW q \in Procs
      PROVE  /\ shut'[q] \subseteq closed'
             /\ pc'[q] = "pass" => \A i \in DOMAIN ports'[q] : i < at'[q] => ~Dead(q, i)'
             /\ pc'[q] \in {"select", "parked", "drain"} => \A i \in DOMAIN ports'[q] : ~Dead(q, i)'
             /\ pc'[q] = "add" => ~Dead(q, at[q])'
             /\ pc'[q] = "idle" /\ res'[q].port \in DOMAIN ports'[q] /\ Dead(q, res[q].port)'
                  => res'[q].ans = "false"
  <2>1. \A i : Dead(q, i)' <=> Dead(q, i)
    BY DEF Dead
  <2>2. (Dead(q, res[q].port)' <=> Dead(q, res'[q].port)) /\ (Dead(q, at[q])' <=> Dead(q, at'[q]))
    BY DEF Dead
  <2>3. q \in Readers(c) => pc[q] = "parked"
    BY WakeFacts DEF Types
  <2> QED
    BY <2>1, <2>2, <2>3 DEF ShutInv
<1>4. ShutInv'
  BY <1>3 DEF ShutInv
<1> QED
  BY <1>1, <1>2, <1>4

\* p delivers a promise-chan: the invariant stays.
LEMMA DeliversKeeps ==
  ASSUME Types, AInv, NEW p \in Procs, Delivers(p)
  PROVE  Types' /\ AInv'
<1> USE DEF Types, AInv
<1>1. PICK i \in DOMAIN ports[p] : pc[p] = "pass" /\ Deliver(p, i, ports[p][i].c)
  BY DEF Delivers
<1> DEFINE c == ports[p][i].c
           v == ports[p][i].v
<1>2. c \in Chans
  BY PortFacts
<1>3. v \in Value /\ ~OnOffer(v) /\ v = [by |-> p, n |-> ncalls[p], port |-> i, part |-> 0]
  BY <1>1, FreshOffer
<1>4. ~Dead(p, i)
  BY <1>1, NotDead DEF Deliver
<1> HIDE DEF c, v
<1>5. /\ Kind[c] = "promise" /\ buf' = [buf EXCEPT ![c] = <<v>>]
      /\ pc' = [q \in Procs |-> IF q = p THEN "idle"
                                ELSE IF q \in Readers(c) THEN "drain" ELSE pc[q]]
      /\ at' = [q \in Procs |-> IF q \in Readers(c) THEN IndexOf(q, c) ELSE at[q]]
      /\ res' = [res EXCEPT ![p] = Result(i, "true", <<>>)]
      /\ UNCHANGED <<closed, ports, dflt, ncalls, got, shut, todo>>
  BY <1>1 DEF Deliver, c, v, stepping
<1>6. TypePc' /\ TypeCalls'
  BY <1>2, <1>5, WakeFacts DEF TypePc, TypeCalls
<1>7. /\ pc'[p] = "idle" /\ res'[p].port = i /\ res'[p].ans = "true"
      /\ \A q \in Procs \ {p} : res'[q] = res[q]
  BY <1>5 DEF TypeCalls, Result
<1>8. p \notin Readers(c)
  BY <1>1, <1>2, WakeFacts
<1>9. TypePorts' /\ AtInv' /\ OwnInv' /\ ShutInv'
  <2>1. \A q \in Procs : \/ pc'[q] = pc[q] /\ at'[q] = at[q] /\ res'[q] = res[q]
                         \/ q \in Readers(c) /\ pc'[q] = "drain" /\ at'[q] = IndexOf(q, c)
                         \/ /\ pc[q] \notin {"idle", "add"} /\ pc'[q] = "idle"
                            /\ res'[q].port \in DOMAIN ports[q] => ~Dead(q, res'[q].port)
    BY <1>1, <1>4, <1>5, <1>7, <1>8
  <2> QED
    BY <1>2, <1>5, <1>6, <2>1, WakeStep
<1>10. TypeBuf'
  BY <1>2, <1>3, <1>5 DEF TypeBuf
<1>11. buf'[c] = <<v>> /\ \A d \in Chans : d # c => buf'[d] = buf[d]
  BY <1>2, <1>5 DEF TypeBuf
<1>12. UniqueInv'
  <2>1. \A d \in Chans : Inj(buf'[d])
    BY <1>11 DEF Inj, UniqueInv
  <2>2. \A g \in got : Kind[g[2]] # "promise" => g[2] \in Chans \ {c} /\ ~In(g[1], buf'[g[2]])
    BY <1>5, <1>11 DEF UniqueInv, TypeBuf
  <2> QED
    BY <1>5, <2>1, <2>2 DEF UniqueInv, Inj, In
<1>13. \A x \in Value : OnOffer(x)' => OnOffer(x) \/ x = v
  <2> TAKE x \in Value
  <2>1. ASSUME NEW d \in Chans, In(x, buf'[d])  PROVE OnOffer(x) \/ x = v
    BY <1>11, <2>1 DEF OnOffer, In
  <2> QED
    BY <1>5, <2>1 DEF OnOffer, In
<1>14. Newly(v)
  BY <1>3, <1>7 DEF Newly
<1>15. \A q \in Procs : Keeps(q)
  <2>1. \A q \in Readers(c) : pc[q] = "parked"
    BY <1>2, WakeFacts
  <2> QED
    BY <1>1, <1>5, <1>7, <2>1 DEF TypeCalls, Keeps
<1>16. OfferInv'
  BY <1>5, <1>13, <1>14, <1>15, OfferStep
<1> QED
  BY <1>6, <1>9, <1>10, <1>12, <1>16

\* p's call ends without effect on a channel.
LEMMA AnswersKeeps ==
  ASSUME Types, AInv, NEW p \in Procs, pc[p] # "idle", AnswersOnly(p)
  PROVE  Types' /\ AInv'
<1> USE DEF Types, AInv
<1>1. PICK i, a, v :
        /\ Finish(Alone(p, Result(i, a, v))) /\ UNCHANGED <<buf, closed, got, todo>>
        /\ i # 0 /\ i \in DOMAIN ports[p] /\ ports[p][i].write
             => a = "false" \/ pc[p] \in {"drain", "add"} \/ ports[p][i].c \notin closed
        /\ pc[p] = "add" => i = at[p] /\ a \in {"true", "panic"}
  BY DEF AnswersOnly
<1>2. /\ pc'[p] = "idle" /\ res'[p] = Result(i, a, v)
      /\ TypePc' /\ at' \in [Procs -> Nat] /\ DOMAIN res' = Procs
      /\ \A q \in Procs : q # p => pc'[q] = pc[q] /\ res'[q] = res[q] /\ at'[q] = at[q]
      /\ UNCHANGED <<ports, dflt, ncalls, shut>>
  BY <1>1, FinishAlone
<1>3. Framed /\ res'[p].port = i /\ res'[p].ans = a
  BY <1>1, <1>2 DEF Framed, Result
<1>4. i \in DOMAIN ports[p] /\ Dead(p, i) => a = "false"
  <2> SUFFICES ASSUME i \in DOMAIN ports[p], Dead(p, i)  PROVE a = "false"
    OBVIOUS
  <2>1. i # 0 /\ ports[p][i].write
    BY PortFacts DEF Dead
  <2> QED
    BY <1>1, <2>1, NotDead DEF ShutInv
<1>5. \A q \in Procs : Settled(q)
  BY <1>1, <1>2, <1>3, <1>4 DEF Settled
<1>6. /\ TypePc' /\ TypePorts' /\ TypeCalls' /\ AtInv' /\ OwnInv' /\ ShutInv'
      /\ \A q \in Procs : Keeps(q)
  BY <1>3, <1>5, SettledStep
<1>7. TypeBuf' /\ UniqueInv' /\ \A x \in Value : OnOffer(x)' => OnOffer(x)
  BY <1>1 DEF TypeBuf, UniqueInv, OnOffer, Inj, In
<1>8. OfferInv'
  BY <1>2, <1>6, <1>7, OfferStep
<1> QED
  BY <1>6, <1>7, <1>8

\* p's call goes on.
LEMMA GoesOnFlow ==
  ASSUME Flow, NEW p \in Procs, GoesOn(p)
  PROVE  /\ Flow' /\ pc[p] \notin {"idle", "add"} /\ pc'[p] \in {"pass", "add", "select", "parked"}
         /\ \A q \in Procs \ {p} : pc'[q] = pc[q] /\ at'[q] = at[q] /\ todo'[q] = todo[q]
         /\ pc'[p] = "add" => PastPort(p) /\ at' = at
<1> USE DEF Flow
<1>1. UNCHANGED <<buf, closed, ports, dflt, res, ncalls, got, shut>>
  BY DEF GoesOn
<1>2. pc[p] = "pass" => at[p] \in DOMAIN ports[p]
  BY DEF AtInv
<1>3. /\ TypePc' /\ TypePorts' /\ TypeCalls'
      /\ pc[p] \notin {"idle", "add"} /\ pc'[p] \in {"pass", "add", "select", "parked"}
      /\ \A q \in Procs \ {p} : pc'[q] = pc[q] /\ at'[q] = at[q] /\ todo'[q] = todo[q]
      /\ pc'[p] = "add" => /\ PastPort(p) /\ at' = at
                           /\ ports[p][at[p]].write /\ Kind[ports[p][at[p]].c] = "xform"
  <2>1. /\ TypePc' /\ pc[p] \notin {"idle", "add"} /\ pc'[p] \in {"pass", "add", "select", "parked"}
        /\ pc'[p] = "add" => /\ PastPort(p) /\ at' = at
                           /\ ports[p][at[p]].write /\ Kind[ports[p][at[p]].c] = "xform"
    BY DEF GoesOn, PastPort, TypePc
  <2>2. at' \in [Procs -> Nat] /\ todo' \in [Procs -> Nat]
    <3>1. at' = at \/ at' = [at EXCEPT ![p] = at[p] + 1] \/ at' = [at EXCEPT ![p] = 1]
      BY DEF GoesOn
    <3>2. todo' = todo \/ \E k \in Nat : todo' = [todo EXCEPT ![p] = k]
      BY DEF GoesOn
    <3>3. at' \in [Procs -> Nat]
      BY <3>1 DEF TypeCalls
    <3>4. todo' \in [Procs -> Nat]
      BY <3>2 DEF TypeCalls
    <3> QED
      BY <3>3, <3>4
  <2>3. TypePorts' /\ TypeCalls'
    <3>1. TypePorts'
      BY <1>1 DEF TypePorts, SeqPorts
    <3>2. TypeCalls'
      BY <1>1, <2>2 DEF TypeCalls
    <3> QED
      BY <3>1, <3>2
  <2>4. \A q \in Procs \ {p} : pc'[q] = pc[q] /\ at'[q] = at[q] /\ todo'[q] = todo[q]
    BY DEF GoesOn, TypePc, TypeCalls
  <2> QED
    BY <2>1, <2>3, <2>4
<1>4. ports[p] \in Seq({ports[p][i] : i \in DOMAIN ports[p]}) /\ at[p] \in Nat
  BY DEF TypePorts, SeqPorts, TypeCalls
<1>5. AtInv'
  <2>1. pc'[p] \in {"pass", "add"} => at'[p] \in DOMAIN ports[p]
    <3>1. CASE PastPort(p) /\ at[p] # Len(ports[p]) /\ at' = [at EXCEPT ![p] = at[p] + 1] /\ pc' = pc
      BY <1>2, <1>4, <3>1 DEF PastPort, TypeCalls
    <3>2. CASE /\ pc[p] = "parked" /\ pc' = [pc EXCEPT ![p] = "pass"] /\ at' = [at EXCEPT ![p] = 1]
               /\ DOMAIN ports[p] # {}
      <4>1. PICK i \in DOMAIN ports[p] : TRUE
        BY <3>2
      <4>2. 1 \in DOMAIN ports[p]
        BY <1>4, <4>1, PortFacts
      <4> QED
        BY <3>2, <4>2 DEF TypeCalls
    <3>3. CASE pc'[p] = "add"
      BY <1>2, <1>3, <3>3 DEF PastPort
    <3> QED
      BY <3>1, <3>2, <3>3 DEF GoesOn, TypePc
  <2>2. pc'[p] = "add" => ports[p][at'[p]].write /\ Kind[ports[p][at'[p]].c] = "xform"
    BY <1>3
  <2>3. pc'[p] # "drain"
    BY <1>3
  <2> QED
    BY <1>1, <1>3, <2>1, <2>2, <2>3 DEF AtInv
<1> QED
  BY <1>1, <1>3, <1>5

\* It keeps the invariant.
LEMMA GoesOnKeeps ==
  ASSUME Types, AInv, NEW p \in Procs, GoesOn(p)
  PROVE  Types' /\ AInv'
<1> USE DEF Types, AInv
<1>1. UNCHANGED <<buf, closed, ports, dflt, res, ncalls, got, shut>>
  BY DEF GoesOn
<1>2. Flow /\ ports[p] \in Seq({ports[p][i] : i \in DOMAIN ports[p]}) /\ at[p] \in Nat
  BY DEF Flow, TypeBuf, TypePorts, SeqPorts, TypeCalls
<1>3. /\ Flow' /\ pc[p] \notin {"idle", "add"} /\ pc'[p] \in {"pass", "add", "select", "parked"}
      /\ \A q \in Procs \ {p} : pc'[q] = pc[q] /\ at'[q] = at[q] /\ todo'[q] = todo[q]
      /\ pc'[p] = "add" => PastPort(p) /\ at' = at
  BY <1>2, GoesOnFlow
<1>4. TypeBuf' /\ UniqueInv' /\ \A x \in Value : OnOffer(x)' => OnOffer(x)
  BY <1>1 DEF TypeBuf, UniqueInv, OnOffer, Inj, In
<1>5. OfferInv'
  <2>1. \A q \in Procs : Keeps(q)
    BY <1>1, <1>3 DEF TypeCalls, Keeps
  <2> QED
    BY <1>1, <1>4, <2>1, OfferStep
<1>6. OwnInv'
  BY <1>1, <1>3 DEF OwnInv
<1>7. ShutInv'
  <2>1. \A q, i : Dead(q, i)' <=> Dead(q, i)
    BY <1>1 DEF Dead
  <2>2. \A q : (Dead(q, res[q].port)' <=> Dead(q, res[q].port)) /\ (Dead(q, at[q])' <=> Dead(q, at'[q]))
    BY <1>1 DEF Dead
  <2>3. PastPort(p) => ~Dead(p, at[p])
    BY DEF PastPort, ShutInv, Dead
  <2>4. /\ pc'[p] = "pass" => \A i \in DOMAIN ports[p] : i < at'[p] => ~Dead(p, i)
        /\ pc'[p] \in {"select", "parked", "drain"} => \A i \in DOMAIN ports[p] : ~Dead(p, i)
        /\ pc'[p] = "add" => ~Dead(p, at'[p])
    <3>1. CASE PastPort(p) /\ at[p] = Len(ports[p]) /\ pc' = [pc EXCEPT ![p] = "select"] /\ at' = at
      <4>1. \A i \in DOMAIN ports[p] : i < at[p] \/ i = at[p]
        BY <1>2, <3>1, PortFacts
      <4>2. \A i \in DOMAIN ports[p] : ~Dead(p, i)
        BY <2>3, <3>1, <4>1 DEF ShutInv, PastPort
      <4> QED
        BY <3>1, <4>2 DEF TypePc
    <3>2. CASE PastPort(p) /\ at[p] # Len(ports[p]) /\ at' = [at EXCEPT ![p] = at[p] + 1] /\ pc' = pc
      <4>1. at'[p] = at[p] + 1 /\ pc'[p] = "pass" /\ pc[p] = "pass"
        BY <3>2 DEF TypeCalls, PastPort
      <4>2. \A i \in DOMAIN ports[p] : i < at'[p] => i < at[p] \/ i = at[p]
        BY <1>2, <4>1, PortFacts
      <4> QED
        BY <2>3, <3>2, <4>1, <4>2 DEF ShutInv
    <3>3. CASE pc[p] = "select" /\ pc' = [pc EXCEPT ![p] = "parked"]
      BY <3>3 DEF ShutInv, TypePc
    <3>4. CASE pc[p] = "parked" /\ pc' = [pc EXCEPT ![p] = "pass"] /\ at' = [at EXCEPT ![p] = 1]
      BY <3>4, PortFacts DEF TypePc, TypeCalls
    <3>5. CASE PastPort(p) /\ pc' = [pc EXCEPT ![p] = "add"] /\ at' = at
      BY <2>3, <3>5 DEF TypePc
    <3> QED
      BY <3>1, <3>2, <3>3, <3>4, <3>5 DEF GoesOn
  <2> QED
    BY <1>1, <1>3, <2>1, <2>2, <2>4 DEF ShutInv
<1> QED
  BY <1>3, <1>4, <1>5, <1>6, <1>7 DEF Flow

\* The next element of a transducer's step, to a parked reader or into the buffer.
AddsTo(p, c, v) ==
  /\ pc[p] = "add" /\ at[p] \in DOMAIN ports[p] /\ ports[p][at[p]].c = c /\ todo[p] > 0
  /\ ports[p][at[p]].write /\ Kind[c] = "xform"
  /\ v = [ports[p][at[p]].v EXCEPT !.part = todo[p]]
  /\ UNCHANGED <<closed, mu, ports, dflt, ncalls, shut>>
  /\ pc'[p] = "add" /\ at'[p] = at[p] /\ res'[p] = res[p]
  /\ todo' \in [Procs -> Nat] /\ todo'[p] = todo[p] - 1
  /\ \A q \in Procs \ {p} : todo'[q] = todo[q]
  /\ TypePc' /\ at' \in [Procs -> Nat] /\ DOMAIN res' = Procs
  /\ \/ /\ buf' = [buf EXCEPT ![c] = Append(buf[c], v)] /\ got' = got /\ Room(c)
        /\ UNCHANGED <<pc, at, res>>
     \/ /\ buf' = buf /\ got' = got \cup {<<v, c>>}
        /\ \E r \in Readers(c) : \E j \in DOMAIN ports[r] :
             Ends(r, j, "value") /\ r \in Procs /\ pc[r] = "parked"

LEMMA AddEffect ==
  ASSUME Flow, NEW p \in Procs, StepAdd(p)
  PROVE  \E c \in Chans : \E v : AddsTo(p, c, v)
<1> DEFINE c == ports[p][at[p]].c
           v == [ports[p][at[p]].v EXCEPT !.part = todo[p]]
<1>1. /\ pc[p] = "add" /\ at[p] \in DOMAIN ports[p] /\ c \in Chans /\ todo[p] > 0 /\ todo[p] \in Nat
      /\ ports[p][at[p]].write /\ Kind[c] = "xform"
  BY PortFacts DEF StepAdd, Flow, AtInv, TypeCalls
<1>2. /\ todo' = [todo EXCEPT ![p] = todo[p] - 1] /\ UNCHANGED <<closed, mu>>
      /\ \/ \E r \in Readers(c) :
              /\ got' = got \cup {<<v, c>>}
              /\ Finish(Alone(r, Result(IndexOf(r, c), "value", <<v>>)))
              /\ UNCHANGED buf
         \/ /\ Readers(c) = {} /\ Room(c)
            /\ buf' = [buf EXCEPT ![c] = Append(buf[c], v)]
            /\ UNCHANGED <<pc, ports, dflt, at, res, ncalls, got, shut>>
  BY DEF StepAdd
<1>3. /\ todo' \in [Procs -> Nat] /\ todo'[p] = todo[p] - 1
      /\ \A q \in Procs \ {p} : todo'[q] = todo[q]
  <2>1. todo \in [Procs -> Nat] /\ todo[p] - 1 \in Nat
    BY <1>1 DEF Flow, TypeCalls
  <2>2. todo' = [todo EXCEPT ![p] = todo[p] - 1]
    BY <1>2
  <2> QED
    BY <2>1, <2>2
<1> HIDE DEF c, v
<1>4. CASE /\ Room(c) /\ buf' = [buf EXCEPT ![c] = Append(buf[c], v)]
           /\ UNCHANGED <<pc, ports, dflt, at, res, ncalls, got, shut>>
  <2>1. TypePc' /\ at' \in [Procs -> Nat] /\ DOMAIN res' = Procs
    BY <1>4 DEF Flow, TypePc, TypeCalls
  <2> QED
    <3>1. AddsTo(p, c, v)
      BY <1>1, <1>2, <1>3, <1>4, <2>1 DEF c, v, AddsTo
    <3> QED
      BY <1>1, <3>1
<1>5. ASSUME NEW r \in Readers(c), got' = got \cup {<<v, c>>}, UNCHANGED buf,
             Finish(Alone(r, Result(IndexOf(r, c), "value", <<v>>)))
      PROVE  /\ UNCHANGED <<ports, dflt, ncalls, shut>>
             /\ pc'[p] = "add" /\ at'[p] = at[p] /\ res'[p] = res[p]
             /\ TypePc' /\ at' \in [Procs -> Nat] /\ DOMAIN res' = Procs
             /\ \E j \in DOMAIN ports[r] : Ends(r, j, "value") /\ r \in Procs /\ pc[r] = "parked"
  <2>1. r \in Procs /\ pc[r] = "parked" /\ r # p /\ IndexOf(r, c) \in DOMAIN ports[r]
    BY <1>1, ReaderFacts
  <2> DEFINE j == IndexOf(r, c)
  <2>2. j \in DOMAIN ports[r]
    BY <2>1
  <2>3. /\ pc'[r] = "idle" /\ res'[r] = Result(j, "value", <<v>>)
        /\ TypePc' /\ at' \in [Procs -> Nat] /\ DOMAIN res' = Procs
        /\ \A q \in Procs : q # r => pc'[q] = pc[q] /\ res'[q] = res[q] /\ at'[q] = at[q]
        /\ UNCHANGED <<ports, dflt, ncalls, shut>>
    BY <1>5, <2>1, FinishAlone DEF Flow
  <2> HIDE DEF j
  <2>4. Ends(r, j, "value")
    BY <2>3 DEF Ends, Result
  <2> QED
    BY <1>1, <2>1, <2>2, <2>3, <2>4
<1>6. CASE \E r \in Readers(c) :
             /\ got' = got \cup {<<v, c>>} /\ UNCHANGED buf
             /\ Finish(Alone(r, Result(IndexOf(r, c), "value", <<v>>)))
  <2>1. PICK r \in Readers(c) :
             /\ got' = got \cup {<<v, c>>} /\ UNCHANGED buf
             /\ Finish(Alone(r, Result(IndexOf(r, c), "value", <<v>>)))
    BY <1>6
  <2>2. /\ UNCHANGED <<ports, dflt, ncalls, shut>>
        /\ pc'[p] = "add" /\ at'[p] = at[p] /\ res'[p] = res[p]
        /\ TypePc' /\ at' \in [Procs -> Nat] /\ DOMAIN res' = Procs
        /\ \E j \in DOMAIN ports[r] : Ends(r, j, "value") /\ r \in Procs /\ pc[r] = "parked"
    BY <1>5, <2>1
  <2> QED
    <3>1. AddsTo(p, c, v)
      BY <1>1, <1>2, <1>3, <2>1, <2>2 DEF c, v, AddsTo
    <3> QED
      BY <1>1, <3>1
<1> QED
  BY <1>2, <1>4, <1>6

\* It keeps the invariant.
LEMMA AddKeeps ==
  ASSUME Types, AInv, NEW p \in Procs, StepAdd(p)
  PROVE  Types' /\ AInv'
<1> USE DEF Types, AInv
<1>1. Flow
  BY DEF Flow, TypeBuf
<1>2. PICK c \in Chans : \E v : AddsTo(p, c, v)
  BY <1>1, AddEffect
<1>3. PICK v : AddsTo(p, c, v)
  BY <1>2
<1>3a. /\ pc[p] = "add" /\ at[p] \in DOMAIN ports[p] /\ todo[p] > 0 /\ ports[p][at[p]].write
      /\ v = [ports[p][at[p]].v EXCEPT !.part = todo[p]]
  BY <1>3 DEF AddsTo
<1>3b. /\ UNCHANGED <<ports, ncalls, shut, dflt>> /\ at' \in [Procs -> Nat] /\ TypePc'
      /\ todo' \in [Procs -> Nat] /\ DOMAIN res' = Procs
  BY <1>3 DEF AddsTo
<1>4. /\ v \in Value /\ ~OnOffer(v)
      /\ v.by = p /\ v.n = ncalls[p] /\ v.port = at[p] /\ v.part = todo[p]
  BY <1>3a, FreshPart
<1> USE DEF AddsTo
<1>5. /\ TypeBuf' /\ UniqueInv'
      /\ \A x \in Value : OnOffer(x)' => OnOffer(x) \/ x = v
  BY <1>3, <1>4, PutStep
<1>6. TypePc' /\ TypeCalls' /\ TypePorts'
  <2> HIDE DEF AddsTo
  <2>1. TypeCalls'
    BY <1>3b DEF TypeCalls
  <2>2. TypePorts'
    BY <1>3b DEF TypePorts, SeqPorts
  <2> QED
    BY <1>3b, <2>1, <2>2
<1>7. todo[p] \in Nat /\ todo'[p] \in Nat /\ todo'[p] < todo[p]
  BY <1>3 DEF TypeCalls
<1>8. Newly(v)
  BY <1>3, <1>4, <1>7 DEF Newly
<1>9. ASSUME NEW q \in Procs
      PROVE  \/ pc'[q] = pc[q] /\ at'[q] = at[q] /\ res'[q] = res[q]
             \/ /\ pc[q] = "parked" /\ pc'[q] = "idle"
                /\ res'[q].port \in DOMAIN ports[q]
  BY <1>3 DEF Ends
<1>10. \A q \in Procs : Keeps(q)
  <2> SUFFICES ASSUME NEW q \in Procs PROVE Keeps(q)
    OBVIOUS
  <2>1. todo[q] \in Nat /\ todo'[q] \in Nat /\ todo'[q] <= todo[q]
    <3>1. CASE q = p
      BY <1>7, <3>1
    <3>2. CASE q # p
      <4>1. todo'[q] = todo[q] /\ todo[q] \in Nat
        BY <1>3, <3>2 DEF TypeCalls
      <4> QED
        BY <4>1
    <3> QED
      BY <3>1, <3>2
  <2> QED
    BY <1>9, <2>1 DEF Keeps
<1>11. OfferInv'
  BY <1>3, <1>5, <1>8, <1>10, OfferStep
<1>12. AtInv' /\ OwnInv'
  <2> HIDE DEF AddsTo
  <2> QED
    BY <1>3b, <1>9 DEF AtInv, OwnInv
<1>13. ShutInv'
  <2> SUFFICES ASSUME NEW q \in Procs
               PROVE  /\ shut'[q] \subseteq closed'
                      /\ pc'[q] = "pass" => \A i \in DOMAIN ports'[q] : i < at'[q] => ~Dead(q, i)'
                      /\ pc'[q] \in {"select", "parked", "drain"} => \A i \in DOMAIN ports'[q] : ~Dead(q, i)'
                      /\ pc'[q] = "add" => ~Dead(q, at[q])'
                      /\ pc'[q] = "idle" /\ res'[q].port \in DOMAIN ports'[q] /\ Dead(q, res[q].port)'
                           => res'[q].ans = "false"
    BY DEF ShutInv
  <2>1. \A i : Dead(q, i)' <=> Dead(q, i)
    BY <1>3 DEF Dead
  <2>2. (Dead(q, res[q].port)' <=> Dead(q, res'[q].port)) /\ (Dead(q, at[q])' <=> Dead(q, at'[q]))
    BY <1>3 DEF Dead
  <2> QED
    BY <1>3, <1>9, <2>1, <2>2 DEF ShutInv
<1> QED
  BY <1>5, <1>6, <1>11, <1>12, <1>13

\* Every step of a call keeps the invariant.
LEMMA AltsStepKeeps ==
  ASSUME Types, AInv, NEW p \in Procs, AltsStep(p)
  PROVE  Types' /\ AInv'
<1>1. /\ pc[p] # "idle"
      /\ Takes(p) \/ Gives(p) \/ Delivers(p) \/ AnswersOnly(p) \/ GoesOn(p) \/ StepAdd(p)
  BY StepCases DEF AInv
<1> QED
  BY <1>1, TakesKeeps, GivesKeeps, DeliversKeeps, AnswersKeeps, GoesOnKeeps, AddKeeps

\* The ports of a call that is about to begin.
LEMMA CallPorts ==
  ASSUME AltsAssumption, TypeCalls, NEW p \in Procs, Call(p)
  PROVE  \E m \in Menu[p] : \E ps :
           /\ Begin(p, ps, m.dflt) /\ SeqPorts(ps) /\ 1 \in DOMAIN ps /\ m.dflt \in BOOLEAN
           /\ DOMAIN ps = DOMAIN m.ports
           /\ \A i \in DOMAIN ps : /\ ps[i].c = m.ports[i].c /\ ps[i].write = m.ports[i].write
                                   /\ ps[i].v = [by |-> p, n |-> ncalls[p] + 1, port |-> i, part |-> 0]
<1>1. PICK m \in Menu[p] :
        Begin(p, [i \in DOMAIN m.ports |->
                    [c |-> m.ports[i].c, write |-> m.ports[i].write,
                     v |-> [by |-> p, n |-> ncalls[p] + 1, port |-> i, part |-> 0]]], m.dflt)
  BY DEF Call
<1> DEFINE ps == [i \in DOMAIN m.ports |->
                    [c |-> m.ports[i].c, write |-> m.ports[i].write,
                     v |-> [by |-> p, n |-> ncalls[p] + 1, port |-> i, part |-> 0]]]
<1>2. m.ports \in Seq(Ports) /\ m.ports # <<>> /\ m.dflt \in BOOLEAN
  BY DEF AltsAssumption
<1>3. Len(m.ports) \in Nat /\ Len(m.ports) >= 1 /\ DOMAIN m.ports = 1..Len(m.ports)
  BY <1>2
<1>4. \A i \in DOMAIN m.ports : m.ports[i].c \in Chans
  <2>1. \A i \in DOMAIN m.ports : m.ports[i] \in Ports
    BY <1>2
  <2> QED
    BY <2>1 DEF Ports
<1> DEFINE R == {ps[i] : i \in DOMAIN m.ports}
<1>5. ps \in [1..Len(m.ports) -> R]
  BY <1>3
<1>6. /\ DOMAIN ps = DOMAIN m.ports
      /\ \A i \in DOMAIN ps : /\ ps[i].c = m.ports[i].c /\ ps[i].write = m.ports[i].write
                              /\ ps[i].v = [by |-> p, n |-> ncalls[p] + 1, port |-> i, part |-> 0]
  OBVIOUS
<1> HIDE DEF R
<1>7. Begin(p, ps, m.dflt)
  BY <1>1
<1> HIDE DEF ps
<1>8. ps \in Seq(R)
  <2>1. \A n \in Nat : \A f \in [1..n -> R] : f \in Seq(R)
    OBVIOUS
  <2> QED
    BY <1>3, <1>5, <2>1
<1>9. SeqPorts(ps)
  BY <1>4, <1>6, <1>8, SeqPortsFact
<1>10. 1 \in DOMAIN ps
  BY <1>3, <1>6
<1> QED
  BY <1>2, <1>6, <1>7, <1>9, <1>10

\* The call begins.
LEMMA BeginFrame ==
  ASSUME Flow, NEW p \in Procs, NEW ps, NEW d \in BOOLEAN, Begin(p, ps, d),
         SeqPorts(ps), 1 \in DOMAIN ps, ncalls' \in [Procs -> Nat]
  PROVE  /\ Flow' /\ UNCHANGED <<buf, closed, res, got, todo>>
         /\ pc[p] = "idle" /\ pc'[p] = "pass" /\ ports'[p] = ps /\ at'[p] = 1 /\ shut'[p] \subseteq closed
         /\ \A q \in Procs \ {p} : /\ pc'[q] = pc[q] /\ ports'[q] = ports[q] /\ at'[q] = at[q]
                                   /\ shut'[q] = shut[q]
<1>1. /\ pc[p] = "idle" /\ pc' = [pc EXCEPT ![p] = "pass"]
      /\ ports' = [ports EXCEPT ![p] = ps] /\ dflt' = [dflt EXCEPT ![p] = d]
      /\ at' = [at EXCEPT ![p] = 1]
      /\ shut' = [shut EXCEPT ![p] = closed \cap {ps[i].c : i \in DOMAIN ps}]
      /\ UNCHANGED <<buf, closed, res, got, todo>>
  BY DEF Begin, stepping
<1>2. /\ pc'[p] = "pass" /\ ports'[p] = ps /\ at'[p] = 1 /\ shut'[p] \subseteq closed
      /\ \A q \in Procs \ {p} : /\ pc'[q] = pc[q] /\ ports'[q] = ports[q] /\ at'[q] = at[q]
                                /\ shut'[q] = shut[q]
  BY <1>1 DEF Flow, TypePc, TypePorts, TypeCalls
<1>3. TypePc'
  BY <1>1 DEF Flow, TypePc
<1>4. TypePorts'
  <2>1. DOMAIN ports' = Procs
    BY <1>1 DEF Flow, TypePorts
  <2>2. \A q \in Procs : SeqPorts(ports'[q])
    BY <1>2 DEF Flow, TypePorts
  <2> QED
    BY <2>1, <2>2 DEF TypePorts, SeqPorts
<1>5. TypeCalls'
  <2>1. /\ at' \in [Procs -> Nat] /\ dflt' \in [Procs -> BOOLEAN] /\ DOMAIN res' = Procs
        /\ todo' \in [Procs -> Nat]
    BY <1>1 DEF Flow, TypeCalls
  <2>2. shut' \in [Procs -> SUBSET Chans]
    BY <1>1 DEF Flow, TypeCalls
  <2> QED
    BY <2>1, <2>2 DEF TypeCalls
<1>6. AtInv'
  BY <1>2 DEF Flow, AtInv
<1> QED
  BY <1>1, <1>2, <1>3, <1>4, <1>5, <1>6 DEF Flow

\* p begins a call, its values numbered anew.
LEMMA CallKeeps ==
  ASSUME AltsAssumption, Types, AInv, NEW p \in Procs, Call(p)
  PROVE  Types' /\ AInv'
<1> USE DEF Types, AInv
<1>1. PICK m, ps :
        /\ Begin(p, ps, m.dflt) /\ SeqPorts(ps) /\ 1 \in DOMAIN ps /\ m.dflt \in BOOLEAN
        /\ \A i \in DOMAIN ps : ps[i].v = [by |-> p, n |-> ncalls[p] + 1, port |-> i, part |-> 0]
  BY CallPorts
<1>2. /\ ncalls[p] \in Nat /\ ncalls' = [ncalls EXCEPT ![p] = ncalls[p] + 1]
      /\ ncalls' \in [Procs -> Nat] /\ ncalls'[p] = ncalls[p] + 1
      /\ \A q \in Procs \ {p} : ncalls'[q] = ncalls[q]
  BY DEF Call, TypeCalls
<1>3. Flow
  BY DEF Flow, TypeBuf
<1>4. /\ Flow' /\ UNCHANGED <<buf, closed, res, got, todo>>
      /\ pc[p] = "idle" /\ pc'[p] = "pass" /\ ports'[p] = ps /\ at'[p] = 1 /\ shut'[p] \subseteq closed
      /\ \A q \in Procs \ {p} : /\ pc'[q] = pc[q] /\ ports'[q] = ports[q] /\ at'[q] = at[q]
                                /\ shut'[q] = shut[q]
  BY <1>1, <1>2, <1>3, BeginFrame
<1>5. Types'
  BY <1>4 DEF Flow, TypeBuf
<1>6. AtInv'
  BY <1>4 DEF Flow
<1>7. OwnInv'
  <2>1. ASSUME NEW q \in Procs, pc'[q] # "idle", NEW i \in DOMAIN ports'[q]
        PROVE  ports'[q][i].v = [by |-> q, n |-> ncalls'[q], port |-> i, part |-> 0]
    <3>1. CASE q = p
      BY <1>1, <1>2, <1>4, <2>1, <3>1
    <3>2. CASE q # p
      <4>1. /\ pc[q] # "idle" /\ ports'[q] = ports[q] /\ ncalls'[q] = ncalls[q]
            /\ i \in DOMAIN ports[q]
        BY <1>2, <1>4, <2>1, <3>2
      <4>2. ports[q][i].v = [by |-> q, n |-> ncalls[q], port |-> i, part |-> 0]
        BY <4>1 DEF OwnInv
      <4> QED
        BY <4>1, <4>2
    <3> QED
      BY <3>1, <3>2
  <2> QED
    BY <2>1 DEF OwnInv
<1>8. UniqueInv' /\ \A x \in Value : OnOffer(x)' => OnOffer(x)
  BY <1>4 DEF UniqueInv, OnOffer, Inj, In
<1>9. OfferInv'
  <2> SUFFICES ASSUME NEW x \in Value, OnOffer(x)'  PROVE Committed(x)'
    BY DEF OfferInv
  <2>1. Committed(x) /\ x.by \in Procs /\ x.n \in Nat /\ ncalls[x.by] \in Nat
    BY <1>8 DEF OfferInv, Value, TypeCalls
  <2>2. CASE x.by = p
    BY <1>2, <2>1, <2>2 DEF Committed
  <2>3. CASE x.by # p
    BY <1>2, <1>4, <2>1, <2>3 DEF Committed
  <2> QED
    BY <2>2, <2>3
<1>10. ShutInv'
  <2>1. ASSUME NEW q \in Procs, q # p
        PROVE  (\A i : Dead(q, i)' <=> Dead(q, i)) /\ (Dead(q, res[q].port)' <=> Dead(q, res[q].port))
               /\ (Dead(q, at[q])' <=> Dead(q, at[q]))
    BY <1>4, <2>1 DEF Dead
  <2>2. \A i \in DOMAIN ports'[p] : ~(i < at'[p])
    <3>1. ps \in Seq({ps[i] : i \in DOMAIN ps})
      BY <1>1 DEF SeqPorts
    <3>2. \A i \in DOMAIN ps : i \in Nat /\ i >= 1
      BY <3>1
    <3> QED
      BY <1>4, <3>2
  <2> DEFINE S(q) ==
        /\ shut[q] \subseteq closed
        /\ pc[q] = "pass" => \A i \in DOMAIN ports[q] : i < at[q] => ~Dead(q, i)
        /\ pc[q] \in {"select", "parked", "drain"} => \A i \in DOMAIN ports[q] : ~Dead(q, i)
        /\ pc[q] = "add" => ~Dead(q, at[q])
        /\ pc[q] = "idle" /\ res[q].port \in DOMAIN ports[q] /\ Dead(q, res[q].port)
             => res[q].ans = "false"
  <2>3. S(p)'
    BY <1>4, <2>2
  <2>4. ASSUME NEW q \in Procs, q # p PROVE S(q)'
    <3>1. S(q)
      BY DEF ShutInv
    <3> QED
      BY <1>4, <2>1, <2>4, <3>1
  <2> HIDE DEF S
  <2>5. \A q \in Procs : S(q)'
    BY <2>3, <2>4
  <2> QED
    BY <2>5 DEF S, ShutInv
<1> QED
  BY <1>5, <1>6, <1>7, <1>8, <1>9, <1>10

\* c closes, and the completion of its transducer returns: its readers wake, now or
\* not yet.
CloseEffect(c) ==
  /\ closed \subseteq closed' /\ closed' \subseteq closed \cup {c}
  /\ UNCHANGED <<buf, ports, dflt, res, ncalls, got, shut, todo>>
  /\ TypePc' /\ at' \in [Procs -> Nat]
  /\ \A q \in Procs : \/ pc'[q] = pc[q] /\ at'[q] = at[q]
                      \/ q \in Readers(c) /\ pc'[q] = "drain" /\ at'[q] = IndexOf(q, c)

LEMMA CloseCases ==
  ASSUME TypePc, TypePorts, TypeCalls, NEW c \in Chans, Close(c) \/ CloseDone(c)
  PROVE  CloseEffect(c)
<1>1. \A q \in Readers(c) : IndexOf(q, c) \in Nat
  BY WakeFacts
<1>2. /\ closed \subseteq closed' /\ closed' \subseteq closed \cup {c}
      /\ UNCHANGED <<buf, ports, dflt, res, ncalls, got, shut, todo>>
  BY DEF Close, CloseDone
<1>3. Wake(c) \/ UNCHANGED <<pc, at>>
  BY DEF Close, CloseDone
<1>4. TypePc' /\ at' \in [Procs -> Nat]
  BY <1>1, <1>3 DEF Wake, TypePc, TypeCalls
<1> QED
  BY <1>2, <1>3, <1>4 DEF CloseEffect, Wake, TypePc, TypeCalls

LEMMA CloseKeeps ==
  ASSUME Types, AInv, NEW c \in Chans, CloseEffect(c)
  PROVE  Types' /\ AInv'
<1> USE DEF Types, AInv
<1>1. \A q \in Readers(c) : pc[q] = "parked" /\ IndexOf(q, c) \in Nat
  BY WakeFacts
<1>2. TypeBuf' /\ TypeCalls'
  BY DEF CloseEffect, TypeBuf, TypeCalls
<1>3. TypePc'
  BY DEF CloseEffect
<1>4. TypePorts' /\ AtInv' /\ OwnInv' /\ ShutInv'
  <2>1. \A q \in Procs : \/ pc'[q] = pc[q] /\ at'[q] = at[q] /\ res'[q] = res[q]
                         \/ q \in Readers(c) /\ pc'[q] = "drain" /\ at'[q] = IndexOf(q, c)
    BY DEF CloseEffect
  <2>2. closed \subseteq closed' /\ UNCHANGED <<ports, shut, ncalls>>
    BY DEF CloseEffect
  <2> QED
    BY <1>2, <1>3, <2>1, <2>2, WakeStep
<1>5. UniqueInv' /\ \A x \in Value : OnOffer(x)' => OnOffer(x)
  BY DEF CloseEffect, UniqueInv, OnOffer, Inj, In
<1>6. \A q \in Procs : Keeps(q)
  BY <1>1 DEF CloseEffect, TypeCalls, Keeps
<1>7. OfferInv'
  BY <1>5, <1>6, OfferStep DEF CloseEffect
<1> QED
  BY <1>2, <1>3, <1>4, <1>5, <1>7
-----------------------------------------------------------------------------
\* alts!: the invariant, for any goroutines, channels, capacities and port vectors.
THEOREM AltsInvariance == AltsSpec => [](Types /\ AInv)
<1>1. AltsInit => Types /\ AInv
  <2> SUFFICES ASSUME AltsInit  PROVE Types /\ AInv
    OBVIOUS
  <2>1. Types
    BY DEF AltsInit, Types, TypeBuf, TypePc, TypePorts, SeqPorts, TypeCalls
  <2>2. AtInv /\ OwnInv
    BY DEF AltsInit, AtInv, OwnInv
  <2>3. \A c \in Chans : DOMAIN buf[c] = {}
    BY DEF AltsInit
  <2>4. OfferInv /\ UniqueInv
    BY <2>3 DEF AltsInit, OfferInv, OnOffer, UniqueInv, Inj, In
  <2>5. \A p \in Procs : DOMAIN ports[p] = {} /\ shut[p] = {} /\ pc[p] = "idle"
    BY DEF AltsInit
  <2>6. ShutInv
    BY <2>5 DEF ShutInv
  <2> QED
    BY <2>1, <2>2, <2>4, <2>6 DEF AInv
<1>2. Types /\ AInv /\ [AltsNext]_alts => (Types /\ AInv)'
  <2> SUFFICES ASSUME Types, AInv, [AltsNext]_alts  PROVE Types' /\ AInv'
    OBVIOUS
  <2>1. ASSUME NEW p \in Procs, Call(p)  PROVE Types' /\ AInv'
    BY <2>1, CallKeeps, AltsAssumption
  <2>2. ASSUME NEW p \in Procs, AltsStep(p)  PROVE Types' /\ AInv'
    BY <2>2, AltsStepKeeps
  <2>3. ASSUME NEW c \in Chans, Close(c) \/ CloseDone(c)  PROVE Types' /\ AInv'
    BY <2>3, CloseCases, CloseKeeps DEF Types
  <2>4. CASE UNCHANGED alts
    <3>1. TypeBuf' /\ TypePc' /\ TypeCalls' /\ TypePorts'
      <4>1. UNCHANGED <<buf, closed, todo, pc, ports, dflt, at, res, ncalls, got, shut>>
        BY <2>4 DEF alts, stepping
      <4>2. TypeBuf' /\ TypePc' /\ TypeCalls'
        BY <4>1 DEF Types, TypeBuf, TypePc, TypeCalls
      <4>3. TypePorts'
        BY <4>1 DEF Types, TypePorts, SeqPorts
      <4> QED
        BY <4>2, <4>3
    <3>2. AInv'
      BY <2>4 DEF alts, stepping, AInv, AtInv, OwnInv, OfferInv, OnOffer, Committed, UniqueInv, Inj, In,
                  ShutInv, Dead
    <3> QED
      BY <3>1, <3>2 DEF Types
  <2> QED
    BY <2>1, <2>2, <2>3, <2>4 DEF AltsNext
<1> QED
  BY <1>1, <1>2, PTL DEF AltsSpec

\* At most one port of a call of alts! takes effect: what its write ports offer, or a
\* transducer makes of it, is on a channel or received only if the call returned that
\* port, or is in its step.
THEOREM CommitsToOnePort == AltsSpec => []OnePortOnly
<1>1. Types /\ AInv => OnePortOnly
  <2> SUFFICES ASSUME Types, AInv  PROVE OnePortOnly
    OBVIOUS
  <2> DEFINE Held(c) == {buf[c][i] : i \in DOMAIN buf[c]}
  <2>1. \A c \in Chans : \A x : x \in Held(c) <=> In(x, buf[c])
    BY DEF In
  <2>2. \A c \in Chans : \A x \in Held(c) : x \in Value
    BY DEF Types, TypeBuf
  <2>3. \A g \in got : g[1] \in Value /\ g[2] \in Chans
    BY DEF Types, TypeBuf
  <2> HIDE DEF Held
  <2>4. ASSUME NEW x \in (UNION {Held(c) : c \in Chans}) \cup {g[1] : g \in got}
        PROVE  x.n = ncalls[x.by] =>
                 \/ pc[x.by] = "add" /\ at[x.by] = x.port
                 \/ pc[x.by] = "idle" /\ res[x.by].port = x.port /\ res[x.by].ans \in {"true", "panic"}
    <3>1. x \in Value /\ OnOffer(x)
      <4>1. ASSUME NEW c \in Chans, x \in Held(c)  PROVE x \in Value /\ OnOffer(x)
        BY <2>1, <2>2, <4>1 DEF OnOffer
      <4>2. ASSUME NEW g \in got, x = g[1]  PROVE x \in Value /\ OnOffer(x)
        BY <2>3, <4>2 DEF OnOffer
      <4>3. CASE x \in UNION {Held(c) : c \in Chans}
        <5>1. PICK S \in {Held(c) : c \in Chans} : x \in S
          BY <4>3
        <5>2. PICK c \in Chans : S = Held(c)
          BY <5>1
        <5> QED
          BY <4>1, <5>1, <5>2
      <4>4. CASE x \in {g[1] : g \in got}
        BY <4>2, <4>4
      <4> QED
        BY <2>4, <4>3, <4>4
    <3> QED
      BY <3>1 DEF AInv, OfferInv, Committed
  <2>5. \A g \in got : Kind[g[2]] # "promise" => g[1] \notin Held(g[2])
    BY <2>1, <2>3 DEF AInv, UniqueInv
  <2> QED
    BY <2>4, <2>5 DEF OnePortOnly, Held
<1> QED
  BY <1>1, AltsInvariance, PTL

\* A channel closed before alts! was called takes no value of that call, although
\* its select sends without looking at c.closed.
THEOREM RespectsClosed == AltsSpec => []ClosedTakesNothing
<1>1. AInv => ClosedTakesNothing
  BY DEF AInv, ShutInv, Dead, ClosedTakesNothing
<1> QED
  BY <1>1, AltsInvariance, PTL

\* What a channel may hold.
Holds(c) == IF Kind[c] = "promise" THEN 1 ELSE Cap[c]

\* No buffer holds more; a call that has ended did so with one of its ports or with
\* :default, and with one of the answers.
CapInv == \A c \in Chans : Len(buf[c]) <= Holds(c)
ResInv ==
  \A p \in Procs : /\ pc[p] = "idle" => res[p].port \in DOMAIN ports[p] \cup {0}
                   /\ res[p].ans \in Answers
MadeInv == \A p \in Procs : ncalls[p] <= MaxCalls[p]
MuInv   == mu \in [Chans -> Procs \cup {NoProc, Closer}]

BoundInv == CapInv /\ ResInv /\ MadeInv /\ MuInv

\* One channel changes, within its capacity.
LEMMA CapStep ==
  ASSUME TypeBuf, CapInv, NEW c \in Chans, NEW s, buf' = [buf EXCEPT ![c] = s], Len(s) <= Holds(c)
  PROVE  CapInv'
<1>1. \A d \in Chans : buf'[d] = IF d = c THEN s ELSE buf[d]
  BY DEF TypeBuf
<1> QED
  BY <1>1 DEF CapInv, Holds

\* Calls end with a result, or have still to end.
LEMMA ResStep ==
  ASSUME ResInv, ports' = ports,
         \A q \in Procs :
           \/ res'[q] = res[q] /\ (pc'[q] = "idle" => pc[q] = "idle")
           \/ res'[q].port \in DOMAIN ports[q] \cup {0} /\ res'[q].ans \in Answers
  PROVE  ResInv'
BY DEF ResInv

\* The numbers of a buffer.
LEMMA CapNumbers ==
  ASSUME TypeBuf, CapInv, NEW c \in Chans
  PROVE  /\ buf[c] \in Seq(Value) /\ Len(buf[c]) \in Nat /\ Holds(c) \in Nat
         /\ Len(buf[c]) <= Holds(c)
BY AltsAssumption DEF TypeBuf, CapInv, Holds

\* A read makes room, which a parked writer may take.
LEMMA TakesBounds ==
  ASSUME Types, AInv, CapInv, ResInv, NEW p \in Procs, Takes(p)
  PROVE  CapInv' /\ ResInv' /\ ncalls' = ncalls
<1> USE DEF Types, AInv
<1>1. PICK i \in DOMAIN ports[p] :
        pc[p] \in {"pass", "select", "drain"} /\ GetFrom(p, i, ports[p][i].c)
  BY DEF Takes
<1>2. PICK c \in Chans : c = ports[p][i].c
  BY PortFacts
<1>3. /\ Framed
      /\ \/ /\ buf[c] # <<>> /\ buf' = [buf EXCEPT ![c] = Tail(buf[c])]
            /\ Ends(p, i, "value")
         \/ \E w \in Procs : \E j \in DOMAIN ports[w] :
              /\ buf' = [buf EXCEPT ![c] = Tail(Append(buf[c], ports[w][j].v))]
              /\ EndsBoth(p, i, "value", w, j, "true")
  <2>1. GetFrom(p, i, c) /\ TypePc /\ TypeCalls
    BY <1>1, <1>2
  <2> HIDE DEF Types, AInv
  <2> QED
    BY <1>1, <2>1, GetEffect
<1>4. ports' = ports /\ ncalls' = ncalls
  BY <1>3 DEF Framed
<1>5. /\ buf[c] \in Seq(Value) /\ Len(buf[c]) \in Nat /\ Holds(c) \in Nat
      /\ Len(buf[c]) <= Holds(c)
  BY CapNumbers
<1>6. CASE buf[c] # <<>> /\ buf' = [buf EXCEPT ![c] = Tail(buf[c])] /\ Ends(p, i, "value")
  <2>1. Len(Tail(buf[c])) <= Holds(c)
    <3>1. Len(Tail(buf[c])) = Len(buf[c]) - 1
      BY <1>5, <1>6
    <3> QED
      BY <1>5, <3>1
  <2>2. CapInv'
    BY <1>6, <2>1, CapStep
  <2>3. ResInv'
    BY <1>4, <1>6, ResStep DEF Ends, Answers
  <2> QED
    BY <1>4, <2>2, <2>3
<1>7. ASSUME NEW w \in Procs, NEW j \in DOMAIN ports[w],
             buf' = [buf EXCEPT ![c] = Tail(Append(buf[c], ports[w][j].v))],
             EndsBoth(p, i, "value", w, j, "true")
      PROVE  CapInv' /\ ResInv'
  <2>1. ports[w][j].v \in Value
    BY <1>7, FreshOffer DEF EndsBoth
  <2>2. Len(Tail(Append(buf[c], ports[w][j].v))) = Len(buf[c])
    <3>1. \A x \in Value : Append(buf[c], x) \in Seq(Value) /\ Len(Append(buf[c], x)) = Len(buf[c]) + 1
      BY <1>5
    <3>2. \A t \in Seq(Value) : Len(t) = Len(buf[c]) + 1 => Len(Tail(t)) = Len(buf[c])
      BY <1>5
    <3> QED
      BY <2>1, <3>1, <3>2
  <2>3. CapInv'
    BY <1>5, <1>7, <2>2, CapStep
  <2>4. ResInv'
    BY <1>4, <1>7, ResStep DEF EndsBoth, Answers
  <2> QED
    BY <2>3, <2>4
<1> QED
  BY <1>3, <1>4, <1>6, <1>7

\* A send finds room or a parked reader.
LEMMA GivesBounds ==
  ASSUME Types, AInv, CapInv, ResInv, NEW p \in Procs, Gives(p)
  PROVE  CapInv' /\ ResInv' /\ ncalls' = ncalls
<1> USE DEF Types, AInv
<1>1. PICK i \in DOMAIN ports[p] :
        /\ pc[p] \in {"pass", "select"} /\ Kind[ports[p][i].c] # "promise"
        /\ PutOn(p, i, ports[p][i].c)
  BY DEF Gives
<1>2. PICK c \in Chans : c = ports[p][i].c
  BY PortFacts
<1>3. ports[p][i].v \in Value
  BY <1>1, FreshOffer
<1>4. /\ Framed
      /\ \/ /\ buf' = [buf EXCEPT ![c] = Append(buf[c], ports[p][i].v)]
            /\ Ends(p, i, "true") /\ Room(c)
         \/ buf' = buf /\ \E r \in Procs : \E j \in DOMAIN ports[r] : EndsBoth(p, i, "true", r, j, "value")
  <2>1. PutOn(p, i, c) /\ pc[p] # "parked" /\ TypePc /\ TypeCalls
    BY <1>1, <1>2
  <2> HIDE DEF Types, AInv
  <2> QED
    BY <2>1, PutEffect
<1>5. ports' = ports /\ ncalls' = ncalls
  BY <1>4 DEF Framed
<1>6. /\ buf[c] \in Seq(Value) /\ Len(buf[c]) \in Nat /\ Holds(c) \in Nat /\ Holds(c) = Cap[c]
  BY <1>1, <1>2, CapNumbers DEF Holds
<1>7. CASE buf' = [buf EXCEPT ![c] = Append(buf[c], ports[p][i].v)] /\ Ends(p, i, "true") /\ Room(c)
  <2>1. Len(Append(buf[c], ports[p][i].v)) <= Holds(c)
    <3>1. Len(Append(buf[c], ports[p][i].v)) = Len(buf[c]) + 1 /\ Len(buf[c]) < Holds(c)
      BY <1>3, <1>6, <1>7 DEF Room
    <3> QED
      BY <1>6, <3>1
  <2>2. CapInv'
    BY <1>7, <2>1, CapStep
  <2>3. ResInv'
    BY <1>5, <1>7, ResStep DEF Ends, Answers
  <2> QED
    BY <1>5, <2>2, <2>3
<1>8. CASE buf' = buf /\ \E r \in Procs : \E j \in DOMAIN ports[r] : EndsBoth(p, i, "true", r, j, "value")
  <2>0. PICK r \in Procs : \E j \in DOMAIN ports[r] : EndsBoth(p, i, "true", r, j, "value")
    BY <1>8
  <2>1. PICK j \in DOMAIN ports[r] : EndsBoth(p, i, "true", r, j, "value")
    BY <2>0
  <2>2. ResInv'
    BY <1>5, <2>1, ResStep DEF EndsBoth, Answers
  <2> QED
    BY <1>5, <1>8, <2>2 DEF CapInv
<1> QED
  BY <1>4, <1>7, <1>8

\* A promise-chan takes one value; the other steps of a call change no channel.
LEMMA OtherBounds ==
  ASSUME Types, AInv, CapInv, ResInv, NEW p \in Procs, pc[p] # "idle",
         Delivers(p) \/ AnswersOnly(p) \/ GoesOn(p)
  PROVE  CapInv' /\ ResInv' /\ ncalls' = ncalls
<1> USE DEF Types, AInv
<1>1. CASE Delivers(p)
  <2>1. PICK i \in DOMAIN ports[p] : Deliver(p, i, ports[p][i].c)
    BY <1>1 DEF Delivers
  <2>2. PICK c \in Chans : c = ports[p][i].c
    BY PortFacts
  <2>3. /\ Kind[c] = "promise" /\ buf' = [buf EXCEPT ![c] = <<ports[p][i].v>>]
        /\ res' = [res EXCEPT ![p] = Result(i, "true", <<>>)]
        /\ UNCHANGED <<ports, ncalls>>
        /\ \A q \in Procs \ {p} : pc'[q] = "idle" => pc[q] = "idle"
    BY <2>1, <2>2 DEF Deliver
  <2>4. CapInv'
    <3>1. Len(<<ports[p][i].v>>) <= Holds(c)
      BY <2>3 DEF Holds
    <3> QED
      BY <2>3, <3>1, CapStep
  <2>5. res'[p].port = i /\ res'[p].ans = "true" /\ \A q \in Procs \ {p} : res'[q] = res[q]
    BY <2>3 DEF TypeCalls, Result
  <2>6. ResInv'
    BY <2>3, <2>5, ResStep DEF Answers
  <2> QED
    BY <2>3, <2>4, <2>6
<1>2. CASE AnswersOnly(p)
  <2>1. PICK i, a, v : /\ i \in DOMAIN ports[p] \cup {0} /\ a \in Answers
                       /\ Finish(Alone(p, Result(i, a, v))) /\ buf' = buf
    BY <1>2 DEF AnswersOnly
  <2>2. /\ res'[p] = Result(i, a, v) /\ ports' = ports /\ ncalls' = ncalls
        /\ \A q \in Procs : q # p => pc'[q] = pc[q] /\ res'[q] = res[q]
    BY <2>1, FinishAlone
  <2>3. res'[p].port = i /\ res'[p].ans = a
    BY <2>2 DEF Result
  <2>4. ResInv'
    BY <2>1, <2>2, <2>3, ResStep
  <2> QED
    BY <2>1, <2>2, <2>4 DEF CapInv
<1>3. CASE GoesOn(p)
  <2>1. UNCHANGED <<buf, ports, res, ncalls>>
    BY <1>3 DEF GoesOn
  <2>2. Flow
    BY DEF Flow, TypeBuf
  <2>3. /\ pc'[p] \in {"pass", "add", "select", "parked"}
        /\ \A q \in Procs \ {p} : pc'[q] = pc[q]
    BY <1>3, <2>2, GoesOnFlow
  <2>4. \A q \in Procs : pc'[q] = "idle" => pc[q] = "idle"
    BY <2>3
  <2>5. ResInv'
    BY <2>1, <2>4, ResStep
  <2> QED
    BY <2>1, <2>5 DEF CapInv
<1> QED
  BY <1>1, <1>2, <1>3

\* A step of a transducer adds when there is room, or a parked reader.
LEMMA AddBounds ==
  ASSUME Types, AInv, CapInv, ResInv, NEW p \in Procs, StepAdd(p)
  PROVE  CapInv' /\ ResInv' /\ ncalls' = ncalls
<1> USE DEF Types, AInv
<1>1. Flow
  BY DEF Flow, TypeBuf
<1>2. PICK c \in Chans : \E v : AddsTo(p, c, v)
  BY <1>1, AddEffect
<1>3. PICK v : AddsTo(p, c, v)
  BY <1>2
<1>4. v \in Value
  BY <1>3, FreshPart DEF AddsTo
<1>5. ports' = ports /\ ncalls' = ncalls
  BY <1>3 DEF AddsTo
<1>6. CapInv'
  <2>1. CASE buf' = buf
    BY <2>1 DEF CapInv
  <2>2. CASE buf' = [buf EXCEPT ![c] = Append(buf[c], v)] /\ Room(c)
    <3>1. /\ buf[c] \in Seq(Value) /\ Len(buf[c]) \in Nat /\ Holds(c) \in Nat
          /\ Kind[c] # "promise" => Len(buf[c]) < Holds(c)
      BY <2>2, CapNumbers DEF Room, Holds
    <3>2. Kind[c] # "promise"
      BY <1>3 DEF AddsTo
    <3>3. Len(Append(buf[c], v)) = Len(buf[c]) + 1
      BY <1>4, <3>1
    <3>4. Len(Append(buf[c], v)) <= Holds(c)
      BY <3>1, <3>2, <3>3
    <3> QED
      BY <2>2, <3>4, CapStep
  <2> QED
    BY <1>3, <2>1, <2>2 DEF AddsTo
<1>7. ResInv'
  <2>1. ASSUME NEW q \in Procs
        PROVE  \/ res'[q] = res[q] /\ (pc'[q] = "idle" => pc[q] = "idle")
               \/ res'[q].port \in DOMAIN ports[q] \cup {0} /\ res'[q].ans \in Answers
    BY <1>3 DEF AddsTo, Ends, Answers
  <2> QED
    BY <1>5, <2>1, ResStep
<1> QED
  BY <1>5, <1>6, <1>7

\* The lock is taken and released by goroutines and by close!.
LEMMA MuStep ==
  ASSUME MuInv, [AltsNext]_alts
  PROVE  MuInv'
<1> USE DEF MuInv
<1>1. ASSUME NEW x \in Procs \cup {NoProc, Closer}, NEW c, mu' = [mu EXCEPT ![c] = x]
      PROVE  MuInv'
  BY <1>1
<1>2. ASSUME UNCHANGED stepping PROVE MuInv'
  BY <1>2 DEF stepping
<1>3. \A p, i, c : GetFrom(p, i, c) \/ PutOn(p, i, c) \/ ReadEnded(p, i, c) => UNCHANGED stepping
  <2> SUFFICES ASSUME NEW p, NEW i, NEW c
               PROVE  GetFrom(p, i, c) \/ PutOn(p, i, c) \/ ReadEnded(p, i, c) => UNCHANGED stepping
    OBVIOUS
  <2>1. GetFrom(p, i, c) => UNCHANGED stepping
    BY Zenon DEF GetFrom, stepping
  <2>2. PutOn(p, i, c) => UNCHANGED stepping
    BY Zenon DEF PutOn, stepping
  <2>3. ReadEnded(p, i, c) => UNCHANGED stepping
    BY <2>1, Zenon DEF ReadEnded, stepping
  <2> QED
    BY <2>1, <2>2, <2>3
<1>4. ASSUME NEW p \in Procs, Call(p) PROVE MuInv'
  BY <1>2, <1>4 DEF Call, Begin
<1>5. ASSUME NEW p \in Procs, TryReady(p) PROVE MuInv'
  <2>1. UNCHANGED stepping \/ EnterStep(p, ports[p][at[p]].c)
    BY <1>3, <1>5 DEF TryReady, TryWrite, Deliver
  <2> QED
    BY <1>1, <1>2, <2>1 DEF EnterStep
<1>6. ASSUME NEW p \in Procs, Select(p) \/ Drain(p) \/ Tick(p) PROVE MuInv'
  <2>1. UNCHANGED stepping
    BY <1>3, <1>6 DEF Select, Drain, Tick
  <2> QED
    BY <1>2, <2>1
<1>7. ASSUME NEW p \in Procs, StepAdd(p) \/ StepEnd(p) PROVE MuInv'
  BY <1>1, <1>7 DEF StepAdd, StepEnd
<1>8. ASSUME NEW c \in Chans, Close(c) \/ CloseDone(c) PROVE MuInv'
  BY <1>1, <1>8 DEF Close, CloseDone
<1>9. CASE UNCHANGED alts
  BY <1>2, <1>9 DEF alts
<1> QED
  BY <1>4, <1>5, <1>6, <1>7, <1>8, <1>9 DEF AltsNext, AltsStep

\* The bounds hold, whatever the goroutines call and whoever closes.
LEMMA BoundsNext ==
  ASSUME Types, AInv, BoundInv, [AltsNext]_alts
  PROVE  BoundInv'
<1> USE DEF BoundInv
<1>0. MuInv'
  BY MuStep
<1>1. ASSUME NEW p \in Procs, Call(p) PROVE BoundInv'
  <2>1. PICK ps, d : Begin(p, ps, d)
    BY <1>1 DEF Call
  <2>2. /\ buf' = buf /\ res' = res /\ pc'[p] = "pass"
        /\ \A q \in Procs \ {p} : pc'[q] = pc[q] /\ ports'[q] = ports[q]
    BY <2>1 DEF Begin, Types, TypePc, TypePorts
  <2>3. CapInv' /\ ResInv'
    BY <2>2 DEF CapInv, ResInv
  <2>4. ncalls \in [Procs -> Nat] /\ MaxCalls \in [Procs -> Nat]
    BY AltsAssumption DEF Types, TypeCalls
  <2>5. ncalls[p] < MaxCalls[p] /\ ncalls' = [ncalls EXCEPT ![p] = ncalls[p] + 1]
    BY <1>1 DEF Call
  <2>6. ncalls'[p] <= MaxCalls[p] /\ \A q \in Procs \ {p} : ncalls'[q] = ncalls[q]
    BY <2>4, <2>5
  <2>7. MadeInv'
    BY <2>6 DEF MadeInv
  <2> QED
    BY <1>0, <2>3, <2>7
<1>2. ASSUME NEW p \in Procs, AltsStep(p) PROVE BoundInv'
  <2>1. /\ pc[p] # "idle"
        /\ Takes(p) \/ Gives(p) \/ Delivers(p) \/ AnswersOnly(p) \/ GoesOn(p) \/ StepAdd(p)
    BY <1>2, StepCases DEF AInv
  <2>2. CapInv' /\ ResInv' /\ ncalls' = ncalls
    BY <2>1, TakesBounds, GivesBounds, OtherBounds, AddBounds
  <2> QED
    BY <1>0, <2>2 DEF MadeInv
<1>3. ASSUME NEW c \in Chans, Close(c) \/ CloseDone(c) PROVE BoundInv'
  <2>1. UNCHANGED <<buf, ports, res, ncalls>> /\ \A q \in Procs : pc'[q] = "idle" => pc[q] = "idle"
    BY <1>3, CloseCases DEF CloseEffect, Types
  <2> QED
    BY <1>0, <2>1, ResStep DEF CapInv, MadeInv
<1>4. CASE UNCHANGED alts
  BY <1>0, <1>4 DEF alts, CapInv, ResInv, MadeInv
<1> QED
  BY <1>1, <1>2, <1>3, <1>4 DEF AltsNext

\* The types of alts!: a call tries one of its ports and ends with one of them or with
\* :default, and however sends, parked writers and deliveries race no channel is
\* filled beyond its capacity, nor a promise-chan twice (chan_alts.go:162-204, 229-340).
THEOREM AltsTypeCorrect == AltsSpec => []AltsTypeOK
<1>1. AltsInit => BoundInv
  <2> SUFFICES ASSUME AltsInit PROVE BoundInv
    OBVIOUS
  <2>1. CapInv
    BY AltsAssumption DEF AltsInit, CapInv, Holds
  <2>2. ResInv
    BY DEF AltsInit, ResInv, Answers
  <2>3. MadeInv
    BY AltsAssumption DEF AltsInit, MadeInv
  <2>4. MuInv
    BY DEF AltsInit, MuInv
  <2> QED
    BY <2>1, <2>2, <2>3, <2>4 DEF BoundInv
<1>2. Types /\ AInv /\ BoundInv /\ [AltsNext]_alts => BoundInv'
  BY BoundsNext
<1>3. Types /\ AInv /\ BoundInv => AltsTypeOK
  <2> SUFFICES ASSUME Types, AInv, BoundInv PROVE AltsTypeOK
    OBVIOUS
  <2>1. \A c \in Chans : Len(buf[c]) <= IF Kind[c] = "promise" THEN 1 ELSE Cap[c]
    BY DEF BoundInv, CapInv, Holds
  <2>2. \A p \in Procs : res[p].ans \in Answers /\ ncalls[p] \in 0..MaxCalls[p]
    <3>1. \A p \in Procs : ncalls[p] \in Nat /\ MaxCalls[p] \in Nat /\ ncalls[p] <= MaxCalls[p]
      BY AltsAssumption DEF Types, TypeCalls, BoundInv, MadeInv
    <3>2. \A p \in Procs : ncalls[p] \in 0..MaxCalls[p]
      BY <3>1
    <3> QED
      BY <3>2 DEF BoundInv, ResInv
  <2>3. \A p \in Procs : pc[p] \in {"pass", "add", "drain"} => at[p] \in DOMAIN ports[p]
    BY DEF AInv, AtInv
  <2>4. \A p \in Procs : pc[p] = "idle" => res[p].port \in DOMAIN ports[p] \cup {0}
    BY DEF BoundInv, ResInv
  <2>5. \A p \in Procs : \A i \in DOMAIN ports[p] : ports[p][i].c \in Chans
    BY DEF Types, TypePorts, SeqPorts
  <2>6. /\ buf \in [Chans -> Seq(Value)] /\ closed \subseteq Chans /\ got \subseteq Value \X Chans
        /\ pc \in [Procs -> {"idle", "pass", "add", "select", "parked", "drain"}]
        /\ dflt \in [Procs -> BOOLEAN] /\ shut \in [Procs -> SUBSET Chans]
        /\ mu \in [Chans -> Procs \cup {NoProc, Closer}] /\ todo \in [Procs -> Nat]
    BY Zenon DEF Types, TypeBuf, TypePc, TypeCalls, BoundInv, MuInv
  <2> QED
    BY <2>1, <2>2, <2>3, <2>4, <2>5, <2>6, Zenon DEF AltsTypeOK
<1> QED
  BY <1>1, <1>2, <1>3, AltsInvariance, PTL DEF AltsSpec
-----------------------------------------------------------------------------
(***************************************************************************)
(* The mix.  Only the pump receives from Change and from the inputs; it    *)
(* parks with Change empty, so a pending signal finds it awake; and what   *)
(* its snapshot reads was allowed by the state it was taken from.          *)
(***************************************************************************)
CallerInv ==
  \A p \in Callers :
    /\ \A i \in DOMAIN ports[p] :
         ports[p][i].c # Change /\ (ports[p][i].c \in Inputs => ports[p][i].write)
    /\ pc[p] = "drain" => ports[p][at[p]].c \notin Inputs

\* A control is never inside alts!, and the pump only between a snapshot and the
\* end of its alts!, or of its send to Out.
ControlInv == \A p \in Controls : pc[p] = "idle"

PumpInv ==
  /\ mpc \in {"snapshot", "alts", "send", "stopped"}
  /\ mpc \in {"snapshot", "stopped"} => pc[Pump] = "idle"
  /\ mpc = "alts" => /\ 1 \in DOMAIN ports[Pump] /\ ports[Pump][1].c = Change
                     /\ \A i \in DOMAIN ports[Pump] :
                          ~ports[Pump][i].write /\ (ports[Pump][i].c \in Inputs => ports[Pump][i].c \in opened)
  /\ mpc = "send" => \A i \in DOMAIN ports[Pump] : ports[Pump][i].c = Out

OpenInv == \A c \in Inputs : Reads(c) => c \in opened

\* Change holds one signal at most, none when the pump sleeps on it.
SlotInv ==
  /\ buf[Change] = <<>> \/ buf[Change] = <<buf[Change][1]>>
  /\ mpc = "alts" /\ pc[Pump] = "parked" => buf[Change] = <<>>

\* A change that the snapshot misses is signalled, or about to be, or the pump is
\* on its way to the next snapshot.
SignalInv ==
  mpc = "alts" /\ forward # View => ctl # {} \/ buf[Change] # <<>> \/ pc[Pump] = "idle"

MInv == CallerInv /\ ControlInv /\ PumpInv /\ OpenInv /\ SlotInv /\ SignalInv
-----------------------------------------------------------------------------
(***************************************************************************)
(* What a step of p's call does to the others and to the channels.         *)
(***************************************************************************)
\* Others stay as they are, or are completed, or wake to drain a port they read.
Passive(q) ==
  \/ pc'[q] = pc[q] /\ at'[q] = at[q]
  \/ pc[q] = "parked" /\ pc'[q] = "idle"
  \/ /\ pc[q] = "parked" /\ pc'[q] = "drain"
     /\ \E c \in Chans : q \in Readers(c) /\ at'[q] = IndexOf(q, c)

\* A channel changes only when p's call, with a port on it, ends, or its transducer
\* adds to it.
Kept(p, c) ==
  \/ buf'[c] = buf[c]
  \/ Kind[c] = "xform"
  \/ \E i \in DOMAIN ports[p] :
       /\ ports[p][i].c = c /\ pc'[p] = "idle"
       /\ (buf[c] # <<>> /\ buf'[c] = Tail(buf[c])) \/ Writers(c) # {} \/ ports[p][i].write

\* A value is received by p, or by a goroutine parked with a read of the channel.
Received(p, g) ==
  \/ g \in got
  \/ /\ pc[p] # "parked"
     /\ \E i \in DOMAIN ports[p] :
          /\ g[2] = ports[p][i].c
          /\ ~ports[p][i].write \/ (pc[p] = "drain" /\ i = at[p])
  \/ g[2] \in Chans /\ Readers(g[2]) # {}

StepEffect(p) ==
  /\ Flow' /\ UNCHANGED ports /\ closed \subseteq closed'
  /\ pc[p] # "idle" /\ pc'[p] \in {"idle", "pass", "add", "select", "parked"}
  /\ pc'[p] = "parked" => \A i \in DOMAIN ports[p] : ~CaseReady(p, i)
  /\ pc'[p] = "parked" => buf' = buf
  /\ \A q \in Procs \ {p} : Passive(q)
  /\ \A c \in Chans : Kept(p, c)
  /\ \A g \in got' : Received(p, g)

\* Calls end: the flow goes on.
LEMMA FramedFlow ==
  ASSUME Flow, Framed, DOMAIN buf' = Chans,
         \A q \in Procs : (pc'[q] = pc[q] /\ at'[q] = at[q]) \/ pc'[q] = "idle"
  PROVE  Flow' /\ UNCHANGED ports /\ closed \subseteq closed'
<1>1. TypePc' /\ UNCHANGED <<closed, ports, dflt, ncalls, shut, todo>>
  BY DEF Framed
<1>2. TypePorts'
  BY <1>1 DEF Flow, TypePorts, SeqPorts
<1>3. TypeCalls'
  BY <1>1 DEF Flow, Framed, TypeCalls
<1>4. AtInv'
  BY <1>1 DEF Flow, AtInv
<1> QED
  BY <1>1, <1>2, <1>3, <1>4 DEF Flow

\* A read has these effects only,
LEMMA TakesEffect ==
  ASSUME Flow, NEW p \in Procs, Takes(p)
  PROVE  StepEffect(p)
<1>1. PICK i \in DOMAIN ports[p] :
        /\ pc[p] \in {"pass", "select", "drain"} /\ (~ports[p][i].write \/ (pc[p] = "drain" /\ i = at[p]))
        /\ GetFrom(p, i, ports[p][i].c)
  BY DEF Takes
<1> DEFINE c == ports[p][i].c
<1>2. c \in Chans
  BY PortFacts DEF Flow
<1>3. /\ Framed
      /\ \/ /\ buf[c] # <<>> /\ buf' = [buf EXCEPT ![c] = Tail(buf[c])]
            /\ got' = got \cup {<<Head(buf[c]), c>>} /\ Ends(p, i, "value")
         \/ \E w \in Procs : \E j \in DOMAIN ports[w] :
              /\ w \in Writers(c) /\ ports[w][j].c = c
              /\ buf' = [buf EXCEPT ![c] = Tail(Append(buf[c], ports[w][j].v))]
              /\ got' = got \cup {<<Head(Append(buf[c], ports[w][j].v)), c>>}
              /\ EndsBoth(p, i, "value", w, j, "true")
  <2> HIDE DEF c
  <2>1. TypePc /\ TypeCalls /\ pc[p] # "parked" /\ GetFrom(p, i, c)
    BY <1>1 DEF Flow, c
  <2> QED
    BY <1>2, <2>1, GetEffect
<1>4. DOMAIN buf' = Chans /\ \A d \in Chans : d # c => buf'[d] = buf[d]
  BY <1>3 DEF Flow
<1>5. /\ pc'[p] = "idle" /\ \A q \in Procs \ {p} : Passive(q)
      /\ \A q \in Procs : (pc'[q] = pc[q] /\ at'[q] = at[q]) \/ pc'[q] = "idle"
  BY <1>3 DEF Ends, EndsBoth, Passive
<1>6. Flow' /\ UNCHANGED ports /\ closed \subseteq closed'
  BY <1>3, <1>4, <1>5, FramedFlow
<1>7. \A d \in Chans : Kept(p, d)
  <2>1. (buf[c] # <<>> /\ buf'[c] = Tail(buf[c])) \/ Writers(c) # {}
    BY <1>2, <1>3 DEF Flow
  <2>2. Kept(p, c)
    BY <1>5, <2>1 DEF Kept
  <2> QED
    BY <1>4, <2>2 DEF Kept
<1>8. \A g \in got' : g \in got \/ g[2] = c
  <2>1. PICK x : got' = got \cup {<<x, c>>}
    BY <1>3, Zenon
  <2> HIDE DEF c
  <2> QED
    BY <2>1
<1>9. \A g \in got' : Received(p, g)
  BY <1>1, <1>8 DEF Received
<1> QED
  BY <1>1, <1>5, <1>6, <1>7, <1>9 DEF StepEffect

\* a write,
LEMMA GivesEffect ==
  ASSUME Flow, NEW p \in Procs, Gives(p)
  PROVE  StepEffect(p)
<1>1. PICK i \in DOMAIN ports[p] :
        /\ ports[p][i].write /\ pc[p] \in {"pass", "select"} /\ PutOn(p, i, ports[p][i].c)
  BY DEF Gives
<1> DEFINE c == ports[p][i].c
           v == ports[p][i].v
<1>2. c \in Chans
  BY PortFacts DEF Flow
<1>3. /\ Framed
      /\ \/ /\ buf' = [buf EXCEPT ![c] = Append(buf[c], v)] /\ got' = got
            /\ Ends(p, i, "true") /\ Readers(c) = {}
         \/ \E r \in Procs : \E j \in DOMAIN ports[r] :
              /\ buf' = buf /\ got' = got \cup {<<v, c>>}
              /\ EndsBoth(p, i, "true", r, j, "value")
              /\ r \in Readers(c)
  BY <1>1, <1>2, PutEffect DEF Flow
<1> HIDE DEF v
<1>4. DOMAIN buf' = Chans /\ \A d \in Chans : d # c => buf'[d] = buf[d]
  BY <1>3 DEF Flow
<1>5. /\ pc'[p] = "idle" /\ \A q \in Procs \ {p} : Passive(q)
      /\ \A q \in Procs : (pc'[q] = pc[q] /\ at'[q] = at[q]) \/ pc'[q] = "idle"
  BY <1>3 DEF Ends, EndsBoth, Passive
<1>6. Flow' /\ UNCHANGED ports /\ closed \subseteq closed'
  BY <1>3, <1>4, <1>5, FramedFlow
<1>7. \A d \in Chans : Kept(p, d)
  BY <1>1, <1>4, <1>5 DEF Kept
<1>8. \A g \in got' : g \in got \/ (g[2] = c /\ Readers(c) # {})
  BY <1>3
<1>9. \A g \in got' : Received(p, g)
  BY <1>2, <1>8 DEF Received
<1> QED
  BY <1>1, <1>5, <1>6, <1>7, <1>9 DEF StepEffect

\* Readers of c wake: the flow goes on.
LEMMA WakeFlow ==
  ASSUME Flow, NEW c \in Chans, closed' \subseteq Chans, DOMAIN buf' = Chans, TypePc', TypeCalls',
         UNCHANGED ports,
         \A q \in Procs : \/ pc'[q] = pc[q] /\ at'[q] = at[q]
                          \/ q \in Readers(c) /\ pc'[q] = "drain" /\ at'[q] = IndexOf(q, c)
                          \/ pc'[q] = "idle"
  PROVE  Flow'
<1>1. TypePorts'
  BY DEF Flow, TypePorts, SeqPorts
<1>2. \A q \in Readers(c) : IndexOf(q, c) \in DOMAIN ports[q]
  BY WakeFacts DEF Flow
<1>3. AtInv'
  BY <1>2 DEF Flow, AtInv
<1> QED
  BY <1>1, <1>3 DEF Flow

\* the delivery of a promise-chan,
LEMMA DeliversEffect ==
  ASSUME Flow, NEW p \in Procs, Delivers(p)
  PROVE  StepEffect(p)
<1>1. PICK i \in DOMAIN ports[p] :
        ports[p][i].write /\ pc[p] = "pass" /\ Deliver(p, i, ports[p][i].c)
  BY DEF Delivers
<1> DEFINE c == ports[p][i].c
           v == ports[p][i].v
<1>2. c \in Chans
  BY PortFacts DEF Flow
<1>3. /\ buf' = [buf EXCEPT ![c] = <<v>>]
      /\ pc' = [q \in Procs |-> IF q = p THEN "idle"
                                ELSE IF q \in Readers(c) THEN "drain" ELSE pc[q]]
      /\ at' = [q \in Procs |-> IF q \in Readers(c) THEN IndexOf(q, c) ELSE at[q]]
      /\ res' = [res EXCEPT ![p] = Result(i, "true", <<>>)]
      /\ UNCHANGED <<closed, ports, dflt, ncalls, got, shut, todo>>
  BY <1>1 DEF Deliver, stepping
<1> HIDE DEF v
<1>4. \A q \in Readers(c) : q \in Procs /\ pc[q] = "parked" /\ IndexOf(q, c) \in Nat
  BY <1>2, WakeFacts DEF Flow
<1>5. TypePc' /\ TypeCalls'
  BY <1>3, <1>4 DEF Flow, TypePc, TypeCalls
<1>6. DOMAIN buf' = Chans /\ \A d \in Chans : d # c => buf'[d] = buf[d]
  BY <1>3 DEF Flow
<1>7. pc'[p] = "idle" /\ \A q \in Procs \ {p} : Passive(q)
  BY <1>2, <1>3, <1>4 DEF Passive
<1>8. Flow'
  <2>1. \A q \in Procs : \/ pc'[q] = pc[q] /\ at'[q] = at[q]
                         \/ q \in Readers(c) /\ pc'[q] = "drain" /\ at'[q] = IndexOf(q, c)
                         \/ pc'[q] = "idle"
    BY <1>3
  <2>2. closed' \subseteq Chans
    BY <1>3 DEF Flow
  <2> QED
    BY <1>2, <1>3, <1>5, <1>6, <2>1, <2>2, WakeFlow
<1>9. \A d \in Chans : Kept(p, d)
  BY <1>1, <1>6, <1>7 DEF Kept
<1>10. \A g \in got' : Received(p, g)
  BY <1>3 DEF Received
<1> QED
  BY <1>1, <1>3, <1>7, <1>8, <1>9, <1>10 DEF StepEffect

\* an answer.
LEMMA AnswersEffect ==
  ASSUME Flow, NEW p \in Procs, pc[p] # "idle", AnswersOnly(p)
  PROVE  StepEffect(p)
<1>1. PICK i, a, v : Finish(Alone(p, Result(i, a, v))) /\ UNCHANGED <<buf, closed, got, todo>>
  BY DEF AnswersOnly
<1>2. /\ pc'[p] = "idle" /\ TypePc' /\ at' \in [Procs -> Nat] /\ DOMAIN res' = Procs
      /\ \A q \in Procs : q # p => pc'[q] = pc[q] /\ res'[q] = res[q] /\ at'[q] = at[q]
      /\ UNCHANGED <<ports, dflt, ncalls, shut>>
  BY <1>1, FinishAlone DEF Flow
<1>3. Framed
  BY <1>1, <1>2 DEF Framed
<1>4. Flow'
  BY <1>1, <1>2, <1>3, FramedFlow DEF Flow
<1>5. (\A d \in Chans : Kept(p, d)) /\ (\A g \in got' : Received(p, g))
  BY <1>1 DEF Kept, Received
<1>6. \A q \in Procs \ {p} : Passive(q)
  BY <1>2 DEF Passive
<1> QED
  BY <1>1, <1>2, <1>4, <1>5, <1>6 DEF StepEffect

\* A step in between leaves the others and the channels alone.
LEMMA GoesOnEffect ==
  ASSUME Flow, NEW p \in Procs, GoesOn(p)
  PROVE  StepEffect(p)
<1>1. UNCHANGED <<buf, closed, ports, got>>
  BY DEF GoesOn
<1>2. /\ Flow' /\ pc[p] # "idle" /\ pc'[p] \in {"pass", "add", "select", "parked"}
      /\ \A q \in Procs \ {p} : pc'[q] = pc[q] /\ at'[q] = at[q]
  BY GoesOnFlow
<1>3. pc'[p] = "parked" => \A i \in DOMAIN ports[p] : ~CaseReady(p, i)
  BY DEF GoesOn, PastPort, Flow, TypePc
<1>4. (\A d \in Chans : Kept(p, d)) /\ (\A g \in got' : Received(p, g))
  BY <1>1 DEF Kept, Received
<1>5. \A q \in Procs \ {p} : Passive(q)
  BY <1>2 DEF Passive
<1> QED
  BY <1>1, <1>2, <1>3, <1>4, <1>5 DEF StepEffect

\* Nor does a transducer's element, but for the reader it serves.
LEMMA AddsEffect ==
  ASSUME Flow, NEW p \in Procs, StepAdd(p)
  PROVE  StepEffect(p)
<1>1. PICK c \in Chans : \E v : AddsTo(p, c, v)
  BY AddEffect
<1>2. PICK v : AddsTo(p, c, v)
  BY <1>1
<1>3. DOMAIN buf' = Chans /\ \A d \in Chans : Kept(p, d)
  BY <1>2 DEF AddsTo, Kept, Flow
<1>4. \A g \in got' : Received(p, g)
  <2>1. \A g \in got' : g \in got \/ (g[2] = c /\ Readers(c) # {})
    BY <1>2 DEF AddsTo
  <2> QED
    BY <2>1 DEF Received
<1>5. \A q \in Procs : (pc'[q] = pc[q] /\ at'[q] = at[q]) \/ (pc[q] = "parked" /\ pc'[q] = "idle")
  BY <1>2 DEF AddsTo, Ends
<1>6. \A q \in Procs \ {p} : Passive(q)
  BY <1>5 DEF Passive
<1>7. Flow'
  <2>1. UNCHANGED ports
    BY <1>2 DEF AddsTo
  <2>2. TypePorts'
    BY <2>1 DEF Flow, TypePorts, SeqPorts
  <2>3. TypePc' /\ TypeCalls'
    BY <1>2 DEF Flow, AddsTo, TypeCalls
  <2>4. AtInv'
    BY <1>5, <2>1 DEF Flow, AtInv
  <2> QED
    BY <1>2, <1>3, <2>2, <2>3, <2>4 DEF Flow, AddsTo
<1> QED
  BY <1>2, <1>3, <1>4, <1>6, <1>7 DEF StepEffect, AddsTo

\* The effect of any step of a call.
LEMMA AltsStepEffect ==
  ASSUME Flow, NEW p \in Procs, AltsStep(p)
  PROVE  StepEffect(p)
<1>1. /\ pc[p] # "idle"
      /\ Takes(p) \/ Gives(p) \/ Delivers(p) \/ AnswersOnly(p) \/ GoesOn(p) \/ StepAdd(p)
  BY StepCases DEF Flow
<1> QED
  BY <1>1, TakesEffect, GivesEffect, DeliversEffect, AnswersEffect, GoesOnEffect, AddsEffect
-----------------------------------------------------------------------------
\* Who is who.
LEMMA MixConstants ==
  /\ Pump \in Procs /\ Pump \notin Callers /\ Pump \notin Controls
  /\ Controls \subseteq Procs /\ Callers \subseteq Procs
  /\ \A p \in Controls : p \notin Callers
  /\ \A p \in Procs : p = Pump \/ p \in Controls \/ p \in Callers
  /\ Change \in Chans /\ Change \notin Inputs /\ Change \notin Closable
  /\ Out \in Chans /\ Out \notin Inputs /\ Out # Change /\ Inputs \subseteq Chans
  /\ Kind[Change] = "plain" /\ Cap[Change] = 1
  BY MixAssumption DEF Callers

\* Only the pump receives from Change, nobody waits to send on it, and an input
\* that somebody waits for was opened.
LEMMA OnlyPump ==
  ASSUME CallerInv, ControlInv, PumpInv
  PROVE  /\ \A q \in Readers(Change) : q = Pump
         /\ Writers(Change) = {}
         /\ \A c \in Inputs : Readers(c) # {} => c \in opened
         /\ mpc = "alts" /\ pc[Pump] = "parked" => Pump \in Readers(Change)
<1>1. ASSUME NEW c, NEW q \in Readers(c)
      PROVE  /\ q \in Callers \/ (q = Pump /\ mpc \in {"alts", "send"})
             /\ \E i \in DOMAIN ports[q] : ports[q][i].c = c /\ ~ports[q][i].write
  BY MixConstants DEF Readers, Waiting, Cases, ControlInv, PumpInv
<1>2. ASSUME NEW c, NEW q \in Writers(c)
      PROVE  /\ q \in Callers \/ (q = Pump /\ mpc \in {"alts", "send"})
             /\ \E i \in DOMAIN ports[q] : ports[q][i].c = c /\ ports[q][i].write
  <2>1. q \in Waiting(c, TRUE)
    BY <1>2 DEF Writers
  <2> QED
    BY <2>1, MixConstants DEF Waiting, Cases, ControlInv, PumpInv
<1>3. \A q \in Readers(Change) : q = Pump
  BY <1>1 DEF CallerInv
<1>4. ASSUME NEW q \in Writers(Change)  PROVE FALSE
  BY <1>2, MixConstants DEF CallerInv, PumpInv
<1>5. ASSUME NEW c \in Inputs, NEW q \in Readers(c)  PROVE c \in opened
  BY <1>1, MixConstants DEF CallerInv, PumpInv
<1>6. mpc = "alts" /\ pc[Pump] = "parked" => Pump \in Readers(Change)
  BY MixConstants DEF PumpInv, Readers, Waiting, Cases
<1> QED
  BY <1>3, <1>4, <1>5, <1>6

\* q stays where it is, or is woken, or its call goes on.
Calm(q) == Passive(q) \/ (pc'[q] # "drain" /\ (pc[q] = "idle" => pc'[q] = "idle"))

\* Steps of calls leave the roles as they are.
LEMMA CalmStep ==
  ASSUME Flow, CallerInv, ControlInv, PumpInv, UNCHANGED <<ports, mpc, opened>>,
         \A q \in Procs : Calm(q)
  PROVE  CallerInv' /\ ControlInv' /\ PumpInv'
<1>1. \A q \in Procs : pc[q] = "idle" => pc'[q] = "idle"
  BY DEF Calm, Passive
<1>2. ControlInv' /\ PumpInv'
  BY <1>1, MixConstants DEF ControlInv, PumpInv
<1>3. ASSUME NEW q \in Callers, pc'[q] = "drain"  PROVE ports[q][at'[q]].c \notin Inputs
  <2>1. q \in Procs
    BY MixConstants
  <2>2. CASE pc[q] = "drain" /\ at'[q] = at[q]
    BY <2>2 DEF CallerInv
  <2>3. ASSUME NEW c \in Chans, q \in Readers(c), at'[q] = IndexOf(q, c)
        PROVE  ports[q][at'[q]].c \notin Inputs
    <3>1. ports[q][IndexOf(q, c)].c = c
      BY <2>3, ReaderFacts
    <3>2. PICK i \in DOMAIN ports[q] : ports[q][i].c = c /\ ports[q][i].write = FALSE
      BY <2>3 DEF Readers, Waiting, Cases
    <3>3. c \notin Inputs
      BY <3>2 DEF CallerInv
    <3> QED
      BY <2>3, <3>1, <3>3
  <2> QED
    BY <1>3, <2>1, <2>2, <2>3 DEF Calm, Passive
<1>4. CallerInv'
  BY <1>3 DEF CallerInv, Callers
<1> QED
  BY <1>2, <1>4

\* The pump's view depends on the state of the mix only.
LEMMA SameView ==
  ASSUME UNCHANGED <<inputs, flags, soloMode>>
  PROVE  View' = View /\ \A c : Reads(c)' <=> Reads(c)
  BY DEF View, Reads, Forwards, AnySolo

\* Nor is the flow disturbed when nothing of alts! changes.
LEMMA SameFlow ==
  ASSUME Flow, UNCHANGED <<buf, closed, todo, pc, ports, dflt, at, res, ncalls, got, shut>>
  PROVE  Flow'
<1>1. TypePc' /\ AtInv'
  BY DEF Flow, TypePc, AtInv
<1>2. TypePorts'
  BY DEF Flow, TypePorts, SeqPorts
<1>3. TypeCalls'
  BY DEF Flow, TypeCalls
<1> QED
  BY <1>1, <1>2, <1>3 DEF Flow

\* What the mix promises, with the invariant.
MixInv == Flow /\ MInv /\ NeverReadUnopened

\* A step of a call, the pump's or a caller's.
LEMMA StepKeepsMix ==
  ASSUME MixInv, NEW p \in Procs, AltsStep(p), UNCHANGED mix
  PROVE  MixInv'
<1> USE DEF MixInv, MInv
<1>1. /\ Flow' /\ UNCHANGED ports
      /\ pc[p] # "idle" /\ pc'[p] \in {"idle", "pass", "add", "select", "parked"}
      /\ pc'[p] = "parked" => \A i \in DOMAIN ports[p] : ~CaseReady(p, i)
      /\ pc'[p] = "parked" => buf' = buf
      /\ \A q \in Procs \ {p} : Passive(q)
      /\ \A c \in Chans : Kept(p, c)
      /\ \A g \in got' : Received(p, g)
  BY AltsStepEffect DEF StepEffect
<1>2. UNCHANGED <<inputs, flags, soloMode, mpc, forward, ctl, opened>>
  BY DEF mix
<1>3. CallerInv' /\ ControlInv' /\ PumpInv'
  <2>1. \A q \in Procs : Calm(q)
    BY <1>1 DEF Calm
  <2> QED
    BY <1>1, <1>2, <2>1, CalmStep
<1>4. View' = View /\ OpenInv'
  BY <1>2, SameView DEF OpenInv
<1>5. /\ Writers(Change) = {}
      /\ \A c \in Inputs : Readers(c) # {} => c \in opened
  BY OnlyPump
<1>6. p \in Callers \/ (p = Pump /\ mpc \in {"alts", "send"})
  BY <1>1, MixConstants DEF ControlInv, PumpInv
<1>7. \/ buf'[Change] = buf[Change]
      \/ /\ buf[Change] # <<>> /\ buf'[Change] = Tail(buf[Change])
         /\ p = Pump /\ pc'[Pump] = "idle"
  <2>1. CASE buf'[Change] # buf[Change]
    <3>1. PICK i \in DOMAIN ports[p] :
            /\ ports[p][i].c = Change /\ pc'[p] = "idle"
            /\ (buf[Change] # <<>> /\ buf'[Change] = Tail(buf[Change])) \/ Writers(Change) # {}
                 \/ ports[p][i].write
      BY <1>1, <2>1, MixConstants DEF Kept
    <3>2. p = Pump /\ mpc = "alts"
      BY <1>6, <3>1, MixConstants DEF CallerInv, PumpInv
    <3>3. ~ports[p][i].write
      BY <3>2 DEF PumpInv
    <3> QED
      BY <1>5, <3>1, <3>2, <3>3
  <2> QED
    BY <2>1
<1>8. SlotInv'
  <2>1. buf'[Change] = <<>> \/ buf'[Change] = <<buf'[Change][1]>>
    <3>1. ASSUME NEW x, buf[Change] = <<x>>  PROVE Tail(buf[Change]) = <<>>
      BY <3>1
    <3> QED
      BY <1>7, <3>1 DEF SlotInv
  <2>2. ASSUME mpc = "alts", pc'[Pump] = "parked"  PROVE buf'[Change] = <<>>
    <3>1. CASE p = Pump
      <4>1. 1 \in DOMAIN ports[Pump] /\ ports[Pump][1].c = Change /\ ~ports[Pump][1].write
        BY <2>2 DEF PumpInv
      <4>2. ~CaseReady(Pump, 1) /\ buf' = buf
        BY <1>1, <2>2, <3>1, <4>1
      <4>3. ~CanGet(Change)
        BY <4>1, <4>2, MixConstants DEF CaseReady, ReadReady
      <4> QED
        BY <4>2, <4>3 DEF CanGet
    <3>2. CASE p # Pump
      <4>1. Passive(Pump)
        BY <1>1, <3>2, MixConstants
      <4>2. pc[Pump] = "parked"
        BY <2>2, <4>1 DEF Passive
      <4> QED
        BY <1>7, <2>2, <3>2, <4>2 DEF SlotInv
    <3> QED
      BY <3>1, <3>2
  <2> QED
    BY <1>2, <2>1, <2>2 DEF SlotInv
<1>9. SignalInv'
  <2>1. pc[Pump] = "idle" => pc'[Pump] = "idle"
    <3>1. pc[Pump] = "idle" => Passive(Pump)
      BY <1>1, MixConstants
    <3> QED
      BY <3>1 DEF Passive
  <2> QED
    BY <1>2, <1>4, <1>7, <2>1 DEF SignalInv
<1>10. NeverReadUnopened'
  <2> SUFFICES ASSUME NEW g \in got', g[2] \in Inputs  PROVE g[2] \in opened
    BY <1>2 DEF NeverReadUnopened
  <2>1. CASE g \in got
    BY <2>1 DEF NeverReadUnopened
  <2>2. CASE Readers(g[2]) # {}
    BY <1>5, <2>2
  <2>3. ASSUME NEW i \in DOMAIN ports[p], g[2] = ports[p][i].c,
               ~ports[p][i].write \/ (pc[p] = "drain" /\ i = at[p])
        PROVE  g[2] \in opened
    <3>1. CASE p \in Callers
      BY <2>3, <3>1 DEF CallerInv
    <3>2. CASE p = Pump /\ mpc = "alts"
      BY <2>3, <3>2 DEF PumpInv
    <3>3. CASE p = Pump /\ mpc = "send"
      BY <2>3, <3>3, MixConstants DEF PumpInv
    <3> QED
      BY <1>6, <3>1, <3>2, <3>3
  <2> QED
    BY <1>1, <2>1, <2>2, <2>3 DEF Received
<1> QED
  BY <1>1, <1>3, <1>4, <1>8, <1>9, <1>10

\* A channel of the caller, or Out, or an input closes.
LEMMA CloseKeepsMix ==
  ASSUME MixInv, NEW c \in Chans, Close(c) \/ CloseDone(c), UNCHANGED mix
  PROVE  MixInv'
<1> USE DEF MixInv, MInv
<1>1. CloseEffect(c)
  BY CloseCases DEF Flow
<1>2. UNCHANGED <<inputs, flags, soloMode, mpc, forward, ctl, opened>>
  BY DEF mix
<1>3. \A q \in Readers(c) : q \in Procs /\ pc[q] = "parked"
  BY WakeFacts DEF Flow
<1>4. TypePc' /\ TypeCalls'
  BY <1>1 DEF Flow, CloseEffect, TypeCalls
<1>5. Flow'
  <2>1. closed' \subseteq Chans /\ DOMAIN buf' = Chans /\ UNCHANGED ports
    BY <1>1 DEF Flow, CloseEffect
  <2>2. \A q \in Procs : \/ pc'[q] = pc[q] /\ at'[q] = at[q]
                         \/ q \in Readers(c) /\ pc'[q] = "drain" /\ at'[q] = IndexOf(q, c)
    BY <1>1 DEF CloseEffect
  <2> QED
    BY <1>4, <2>1, <2>2, WakeFlow
<1>6. \A q \in Procs : Passive(q)
  BY <1>1, <1>3 DEF CloseEffect, Passive
<1>7. CallerInv' /\ ControlInv' /\ PumpInv'
  BY <1>1, <1>2, <1>6, CalmStep DEF Calm, CloseEffect
<1>8. View' = View /\ OpenInv'
  BY <1>2, SameView DEF OpenInv
<1>9. SlotInv' /\ SignalInv'
  <2>1. Passive(Pump)
    BY <1>6, MixConstants
  <2> QED
    BY <1>1, <1>2, <1>8, <2>1 DEF SlotInv, SignalInv, Passive, CloseEffect
<1>10. NeverReadUnopened'
  BY <1>1, <1>2 DEF NeverReadUnopened, CloseEffect
<1> QED
  BY <1>5, <1>7, <1>8, <1>9, <1>10

\* A control signals: the pump is woken, or the signal is pending, or one was.
LEMMA SignalKeepsMix ==
  ASSUME MixInv, NEW p \in Controls, Signal(p)
  PROVE  MixInv'
<1> USE DEF MixInv, MInv
<1>1. UNCHANGED <<inputs, flags, soloMode, mpc, forward, opened>>
  BY DEF Signal
<1>2. p \in Procs /\ p # Pump /\ p \notin Callers /\ pc[p] = "idle"
  BY MixConstants DEF ControlInv
<1>3. View' = View /\ OpenInv'
  BY <1>1, SameView DEF OpenInv
<1>4. /\ \A q \in Readers(Change) : q = Pump
      /\ mpc = "alts" /\ pc[Pump] = "parked" => Pump \in Readers(Change)
  BY OnlyPump
<1>5. CASE PutOn(p, 1, Change)
  <2> DEFINE v == ports[p][1].v
  <2>1. /\ Framed
        /\ \/ /\ buf' = [buf EXCEPT ![Change] = Append(buf[Change], v)] /\ got' = got
              /\ Ends(p, 1, "true") /\ Readers(Change) = {} /\ Room(Change)
           \/ \E r \in Procs : \E j \in DOMAIN ports[r] :
                /\ buf' = buf /\ got' = got \cup {<<v, Change>>}
                /\ EndsBoth(p, 1, "true", r, j, "value")
                /\ r \in Readers(Change)
    BY <1>2, <1>5, PutEffect, MixConstants DEF Flow
  <2> HIDE DEF v
  <2>2. DOMAIN buf' = Chans /\ UNCHANGED ports
    BY <2>1 DEF Flow, Framed
  <2>3. \A q \in Procs : (pc'[q] = pc[q] /\ at'[q] = at[q]) \/ pc'[q] = "idle"
    BY <2>1 DEF Ends, EndsBoth
  <2>4. Flow'
    BY <2>1, <2>2, <2>3, FramedFlow
  <2>5. CallerInv' /\ ControlInv' /\ PumpInv'
    BY <1>1, <2>2, <2>3, CalmStep DEF Calm, Passive
  <2>6. NeverReadUnopened'
    <3>1. \A g \in got' : g \in got \/ g[2] = Change
      BY <2>1
    <3> QED
      BY <1>1, <3>1, MixConstants DEF NeverReadUnopened
  <2>7. CASE /\ buf' = [buf EXCEPT ![Change] = Append(buf[Change], v)]
             /\ Ends(p, 1, "true") /\ Readers(Change) = {} /\ Room(Change)
    <3>1. buf[Change] = <<>>
      <4>1. ASSUME NEW x, buf[Change] = <<x>>  PROVE FALSE
        <5>1. Len(buf[Change]) = 1
          BY <4>1
        <5> QED
          BY <2>7, <5>1, MixConstants DEF Room
      <4> QED
        BY <4>1 DEF SlotInv
    <3>2. buf'[Change] = <<v>>
      <4>1. Append(<<>>, v) = <<v>>
        OBVIOUS
      <4> QED
        BY <2>7, <3>1, <4>1, MixConstants DEF Flow
    <3>3. buf'[Change] # <<>> /\ buf'[Change] = <<buf'[Change][1]>>
      BY <3>2
    <3>4. ~(mpc = "alts" /\ pc'[Pump] = "parked")
      BY <1>2, <1>4, <2>7, MixConstants DEF Ends
    <3> QED
      BY <1>1, <1>3, <2>4, <2>5, <2>6, <3>3, <3>4 DEF SlotInv, SignalInv
  <2>8. ASSUME NEW r \in Procs, NEW j, buf' = buf, EndsBoth(p, 1, "true", r, j, "value"),
               r \in Readers(Change)
        PROVE  SlotInv' /\ SignalInv'
    <3>1. pc'[Pump] = "idle"
      BY <1>4, <2>8 DEF EndsBoth
    <3> QED
      BY <2>8, <3>1 DEF SlotInv, SignalInv
  <2> QED
    BY <1>3, <2>1, <2>4, <2>5, <2>6, <2>7, <2>8
<1>6. CASE ~CanPut(Change) /\ UNCHANGED alts
  <2>1. UNCHANGED <<buf, closed, todo, pc, ports, dflt, at, res, ncalls, got, shut>>
    BY <1>6 DEF alts, stepping
  <2>2. buf[Change] # <<>>
    <3>1. buf[Change] = <<>> => Len(buf[Change]) = 0
      OBVIOUS
    <3> QED
      BY <1>6, <3>1, MixConstants DEF CanPut, Room
  <2>3. Flow'
    BY <2>1, SameFlow
  <2>4. CallerInv' /\ ControlInv' /\ PumpInv'
    BY <1>1, <2>1, CalmStep DEF Calm, Passive
  <2>5. SlotInv' /\ SignalInv' /\ NeverReadUnopened'
    BY <1>1, <2>1, <2>2 DEF SlotInv, SignalInv, NeverReadUnopened
  <2> QED
    BY <1>3, <2>3, <2>4, <2>5
<1> QED
  BY <1>5, <1>6 DEF Signal

\* A control changes the mix.
LEMMA EditKeepsMix ==
  ASSUME MixInv, NEW p \in Controls, NEW ins, NEW fl, NEW mode, Edit(p, ins, fl, mode)
  PROVE  MixInv'
<1> USE DEF MixInv, MInv
<1> DEFINE ps == <<[c |-> Change, write |-> TRUE, v |-> [by |-> p, n |-> ncalls[p] + 1, port |-> 1, part |-> 0]]>>
<1>1. /\ ncalls' = [ncalls EXCEPT ![p] = ncalls[p] + 1] /\ ctl' = ctl \cup {p}
      /\ opened' = opened \cup {c \in Inputs : Reads(c)'}
      /\ ports' = [ports EXCEPT ![p] = ps]
      /\ UNCHANGED <<buf, closed, todo, pc, dflt, at, res, got, shut, mpc, forward>>
  BY DEF Edit, stepping
<1>2. SeqPorts(ps)
  <2> DEFINE a == [c |-> Change, write |-> TRUE, v |-> [by |-> p, n |-> ncalls[p] + 1, port |-> 1, part |-> 0]]
  <2>1. a.c = Change
    OBVIOUS
  <2> HIDE DEF a
  <2>2. <<a>> \in Seq({a}) /\ \A i \in DOMAIN <<a>> : <<a>>[i].c \in Chans
    BY <2>1, MixConstants
  <2>3. SeqPorts(<<a>>)
    BY <2>2, SeqPortsFact
  <2> QED
    BY <2>3 DEF a
<1> HIDE DEF ps
<1>3. p \in Procs /\ p # Pump /\ p \notin Callers /\ pc[p] = "idle"
  BY MixConstants DEF ControlInv
<1>4. /\ DOMAIN ports' = Procs /\ ports'[p] = ps
      /\ \A q \in Procs \ {p} : ports'[q] = ports[q]
  BY <1>1, <1>3 DEF Flow, TypePorts
<1>5. TypePorts'
  <2>1. \A q \in Procs : SeqPorts(ports'[q])
    BY <1>2, <1>4 DEF Flow, TypePorts
  <2> QED
    BY <1>4, <2>1 DEF TypePorts, SeqPorts
<1>6. TypePc' /\ TypeCalls'
  BY <1>1, <1>3 DEF Flow, TypePc, TypeCalls
<1>7. AtInv'
  BY <1>1, <1>3, <1>4 DEF Flow, AtInv
<1>8. Flow'
  BY <1>1, <1>5, <1>6, <1>7 DEF Flow
<1>9. \A q \in Callers \cup {Pump} : ports'[q] = ports[q]
  BY <1>3, <1>4, MixConstants
<1>10. CallerInv' /\ ControlInv' /\ PumpInv'
  BY <1>1, <1>9 DEF CallerInv, Callers, ControlInv, PumpInv
<1>11. OpenInv'
  BY <1>1 DEF OpenInv
<1>12. SlotInv' /\ SignalInv' /\ NeverReadUnopened'
  BY <1>1 DEF SlotInv, SignalInv, NeverReadUnopened
<1> QED
  BY <1>8, <1>10, <1>11, <1>12

\* The pump begins a call on ports of which it may read the inputs, or on Out.
LEMMA PumpBegins ==
  ASSUME MixInv, NEW ps, SeqPorts(ps), 1 \in DOMAIN ps, Begin(Pump, ps, FALSE),
         UNCHANGED <<ncalls, inputs, flags, soloMode, ctl, opened>>,
         \/ /\ mpc' = "alts" /\ forward' = View /\ ps[1].c = Change
            /\ \A i \in DOMAIN ps : ~ps[i].write /\ (ps[i].c \in Inputs => ps[i].c \in opened)
         \/ mpc' = "send" /\ forward' = forward /\ \A i \in DOMAIN ps : ps[i].c = Out
  PROVE  MixInv'
<1> USE DEF MixInv, MInv
<1>1. ncalls' \in [Procs -> Nat]
  BY DEF Flow, TypeCalls
<1>2. /\ Flow' /\ UNCHANGED <<buf, closed, res, got>>
      /\ pc'[Pump] = "pass" /\ ports'[Pump] = ps
      /\ \A q \in Procs \ {Pump} : pc'[q] = pc[q] /\ ports'[q] = ports[q] /\ at'[q] = at[q]
  BY <1>1, BeginFrame, MixConstants, FALSE \in BOOLEAN
<1>3. \A q \in Callers \cup Controls : pc'[q] = pc[q] /\ ports'[q] = ports[q] /\ at'[q] = at[q]
  BY <1>2, MixConstants
<1>4. CallerInv' /\ ControlInv'
  BY <1>3 DEF CallerInv, Callers, ControlInv
<1>5. PumpInv'
  BY <1>2 DEF PumpInv
<1>6. View' = View /\ OpenInv'
  BY SameView DEF OpenInv
<1>7. SlotInv' /\ SignalInv' /\ NeverReadUnopened'
  BY <1>2, <1>6 DEF SlotInv, SignalInv, NeverReadUnopened
<1> QED
  BY <1>2, <1>4, <1>5, <1>6, <1>7

\* One port before others.
LEMMA ConsFacts ==
  ASSUME NEW R, NEW a \in R, NEW t \in Seq(R)
  PROVE  /\ (<<a>> \o t) \in Seq(R) /\ 1 \in DOMAIN (<<a>> \o t) /\ (<<a>> \o t)[1] = a
         /\ \A i \in DOMAIN (<<a>> \o t) : (<<a>> \o t)[i] \in R
<1>1. <<a>> \in Seq(R) /\ Len(<<a>>) = 1 /\ Len(t) \in Nat
  OBVIOUS
<1>2. (<<a>> \o t) \in Seq(R) /\ Len(<<a>> \o t) = 1 + Len(t)
  BY <1>1
<1>3. (<<a>> \o t)[1] = a
  BY <1>1
<1>4. 1 \in DOMAIN (<<a>> \o t) /\ \A i \in DOMAIN (<<a>> \o t) : (<<a>> \o t)[i] \in R
  BY <1>1, <1>2
<1> QED
  BY <1>2, <1>3, <1>4

\* The pump takes a snapshot and calls alts!.
LEMMA SnapshotKeepsMix ==
  ASSUME MixInv, Snapshot
  PROVE  MixInv'
<1> USE DEF MixInv, MInv
<1> DEFINE D == DOMAIN View
           N == Cardinality(D)
<1>1. PICK order \in [1..N -> D] :
        Begin(Pump, <<ReadPort(Change)>> \o [i \in DOMAIN order |-> ReadPort(order[i])], FALSE)
  BY DEF Snapshot
<1>2. N \in Nat
  <2>1. D \subseteq Inputs /\ IsFiniteSet(Inputs)
    BY MixAssumption DEF View
  <2>2. IsFiniteSet(D)
    BY <2>1, FS_Subset
  <2> QED
    BY <2>2, FS_CardinalityType
<1>3. \A c \in D : c \in Inputs /\ c \in opened
  BY DEF View, OpenInv
<1> HIDE DEF D, N
<1> DEFINE t  == [i \in DOMAIN order |-> ReadPort(order[i])]
           R  == {ReadPort(c) : c \in D \cup {Change}}
           ps == <<ReadPort(Change)>> \o t
<1>4. t \in [1..N -> R]
  OBVIOUS
<1>5. \A x \in R : x.c \in Chans /\ ~x.write /\ (x.c \in Inputs => x.c \in opened)
  BY <1>3, MixConstants DEF ReadPort
<1>6. ReadPort(Change) \in R /\ ReadPort(Change).c = Change
  BY DEF ReadPort
<1>7. Begin(Pump, ps, FALSE)
  BY <1>1
<1> HIDE DEF t, R
<1>8. t \in Seq(R)
  BY <1>2, <1>4
<1>9. ps \in Seq(R) /\ 1 \in DOMAIN ps /\ ps[1].c = Change /\ \A i \in DOMAIN ps : ps[i] \in R
  BY <1>6, <1>8, ConsFacts
<1> HIDE DEF ps
<1>10. SeqPorts(ps)
  BY <1>5, <1>9, SeqPortsFact
<1>11. /\ mpc' = "alts" /\ forward' = View
       /\ UNCHANGED <<ncalls, inputs, flags, soloMode, ctl, opened>>
  BY DEF Snapshot
<1>12. \A i \in DOMAIN ps : ~ps[i].write /\ (ps[i].c \in Inputs => ps[i].c \in opened)
  BY <1>5, <1>9
<1> QED
  BY <1>7, <1>9, <1>10, <1>11, <1>12, PumpBegins

\* The pump sends to Out.
LEMMA ForwardKeepsMix ==
  ASSUME MixInv, Forward
  PROVE  MixInv'
<1> DEFINE a  == [c |-> Out, write |-> TRUE, v |-> Head(res[Pump].v)]
<1>1. /\ Begin(Pump, <<a>>, FALSE) /\ mpc' = "send"
      /\ UNCHANGED <<ncalls, inputs, flags, soloMode, forward, ctl, opened>>
  BY DEF Forward
<1>2. a.c = Out
  OBVIOUS
<1> HIDE DEF a
<1>3. <<a>> \in Seq({a}) /\ 1 \in DOMAIN <<a>> /\ \A i \in DOMAIN <<a>> : <<a>>[i].c = Out
  BY <1>2
<1>4. SeqPorts(<<a>>)
  BY <1>3, SeqPortsFact, MixConstants
<1> QED
  BY <1>1, <1>3, <1>4, PumpBegins

\* The pump goes round its loop, or stops.
LEMMA LoopKeepsMix ==
  ASSUME MixInv, Consume \/ Drop \/ Sent
  PROVE  MixInv'
<1> USE DEF MixInv, MInv
<1>1. /\ pc[Pump] = "idle" /\ mpc' \in {"snapshot", "stopped"} /\ opened \subseteq opened'
      /\ UNCHANGED <<buf, closed, todo, pc, ports, dflt, at, res, ncalls, got, shut>>
  <2>1. pc[Pump] = "idle" /\ mpc' \in {"snapshot", "stopped"} /\ opened \subseteq opened' /\ alts' = alts
    BY DEF Consume, Drop, Sent, Back
  <2> QED
    BY <2>1 DEF alts, stepping
<1>2. Flow'
  BY <1>1, SameFlow
<1>3. CallerInv' /\ ControlInv' /\ PumpInv'
  BY <1>1 DEF CallerInv, Callers, ControlInv, PumpInv
<1>4. SlotInv' /\ SignalInv' /\ NeverReadUnopened'
  BY <1>1 DEF SlotInv, SignalInv, NeverReadUnopened
<1>5. OpenInv'
  <2>1. CASE Drop
    BY <2>1 DEF Drop, OpenInv
  <2>2. CASE UNCHANGED <<inputs, flags, soloMode, opened>>
    BY <2>2, SameView DEF OpenInv
  <2> QED
    BY <2>1, <2>2 DEF Consume, Sent
<1> QED
  BY <1>2, <1>3, <1>4, <1>5

\* A caller begins a call.
LEMMA CallKeepsMix ==
  ASSUME MixInv, NEW p \in Callers, Call(p), UNCHANGED mix
  PROVE  MixInv'
<1> USE DEF MixInv, MInv
<1>1. p \in Procs /\ p # Pump /\ p \notin Controls
  BY MixConstants
<1>2. UNCHANGED <<inputs, flags, soloMode, mpc, forward, ctl, opened>>
  BY DEF mix
<1>3. PICK m \in Menu[p] : \E ps :
        /\ Begin(p, ps, m.dflt) /\ SeqPorts(ps) /\ 1 \in DOMAIN ps /\ m.dflt \in BOOLEAN
        /\ DOMAIN ps = DOMAIN m.ports
        /\ \A i \in DOMAIN ps : /\ ps[i].c = m.ports[i].c /\ ps[i].write = m.ports[i].write
                                /\ ps[i].v = [by |-> p, n |-> ncalls[p] + 1, port |-> i, part |-> 0]
  <2>1. TypeCalls
    BY DEF Flow
  <2> QED
    BY <1>1, <2>1, CallPorts, AltsAssumption, Zenon
<1>4. PICK ps :
        /\ Begin(p, ps, m.dflt) /\ SeqPorts(ps) /\ 1 \in DOMAIN ps /\ m.dflt \in BOOLEAN
        /\ DOMAIN ps = DOMAIN m.ports
        /\ \A i \in DOMAIN ps : /\ ps[i].c = m.ports[i].c /\ ps[i].write = m.ports[i].write
                                /\ ps[i].v = [by |-> p, n |-> ncalls[p] + 1, port |-> i, part |-> 0]
  BY <1>3, Zenon
<1>5. \A i \in DOMAIN ps : ps[i].c # Change /\ (ps[i].c \in Inputs => ps[i].write)
  <2>1. \A i \in DOMAIN m.ports :
          m.ports[i].c # Change /\ (m.ports[i].c \in Inputs => m.ports[i].write)
    BY <1>1, MixAssumption, Zenon
  <2>2. DOMAIN ps = DOMAIN m.ports
    BY <1>4, Zenon
  <2>3. \A i \in DOMAIN ps : ps[i].c = m.ports[i].c /\ ps[i].write = m.ports[i].write
    BY <1>4, Zenon
  <2> QED
    BY ONLY <2>1, <2>2, <2>3, SMT
<1>6. ncalls' \in [Procs -> Nat]
  BY <1>1 DEF Call, Flow, TypeCalls
<1>7. /\ Flow' /\ UNCHANGED <<buf, closed, res, got>>
      /\ pc'[p] = "pass" /\ ports'[p] = ps
      /\ \A q \in Procs \ {p} : pc'[q] = pc[q] /\ ports'[q] = ports[q] /\ at'[q] = at[q]
  BY <1>1, <1>4, <1>6, BeginFrame
<1>8. CallerInv'
  BY <1>5, <1>7, MixConstants DEF CallerInv, Callers
<1>9. ControlInv' /\ PumpInv'
  BY <1>1, <1>2, <1>7, MixConstants DEF ControlInv, PumpInv
<1>10. View' = View /\ OpenInv'
  BY <1>2, SameView DEF OpenInv
<1>11. SlotInv' /\ SignalInv' /\ NeverReadUnopened'
  BY <1>1, <1>2, <1>7, <1>10, MixConstants DEF SlotInv, SignalInv, NeverReadUnopened
<1> QED
  BY <1>7, <1>8, <1>9, <1>10, <1>11
-----------------------------------------------------------------------------
\* The mix: the invariant, for any inputs, controls, callers and state maps.
THEOREM MixInvariance == Spec => []MixInv
<1>1. Init => MixInv
  <2> SUFFICES ASSUME Init  PROVE MixInv
    OBVIOUS
  <2>1. Flow
    BY DEF Init, AltsInit, Flow, TypePc, TypePorts, SeqPorts, TypeCalls, AtInv
  <2>2. \A p \in Procs : pc[p] = "idle" /\ DOMAIN ports[p] = {}
    BY DEF Init, AltsInit
  <2>3. CallerInv /\ ControlInv
    BY <2>2, MixConstants DEF CallerInv, ControlInv
  <2>4. PumpInv /\ SlotInv /\ SignalInv
    BY <2>2, MixConstants DEF Init, AltsInit, PumpInv, SlotInv, SignalInv
  <2>5. OpenInv /\ NeverReadUnopened
    BY DEF Init, AltsInit, OpenInv, Reads, NeverReadUnopened
  <2> QED
    BY <2>1, <2>3, <2>4, <2>5 DEF MixInv, MInv
<1>2. MixInv /\ [Next]_vars => MixInv'
  <2> SUFFICES ASSUME MixInv, [Next]_vars  PROVE MixInv'
    OBVIOUS
  <2>1. CASE PumpStep
    BY <2>1, SnapshotKeepsMix, ForwardKeepsMix, LoopKeepsMix, StepKeepsMix, MixConstants
       DEF PumpStep
  <2>2. ASSUME NEW p \in Controls, Control(p)  PROVE MixInv'
    BY <2>2, EditKeepsMix DEF Control, Admix, Unmix, UnmixAll, SoloMode, Toggle
  <2>3. ASSUME NEW p \in Controls, Signal(p)  PROVE MixInv'
    BY <2>3, SignalKeepsMix
  <2>4. ASSUME NEW p \in Callers, (Call(p) \/ AltsStep(p)) /\ UNCHANGED mix  PROVE MixInv'
    BY <2>4, CallKeepsMix, StepKeepsMix, MixConstants
  <2>5. ASSUME NEW c \in Chans, (Close(c) \/ CloseDone(c)) /\ UNCHANGED mix  PROVE MixInv'
    BY <2>5, CloseKeepsMix
  <2>6. CASE UNCHANGED vars
    <3>1. UNCHANGED <<buf, closed, todo, pc, ports, dflt, at, res, ncalls, got, shut>>
      BY <2>6 DEF vars, alts, stepping
    <3>2. UNCHANGED <<inputs, flags, soloMode, mpc, forward, ctl, opened>>
      BY <2>6 DEF vars, mix
    <3>3. Flow'
      BY <3>1, SameFlow DEF MixInv
    <3>4. CallerInv' /\ ControlInv' /\ PumpInv' /\ SlotInv' /\ NeverReadUnopened'
      BY <3>1, <3>2 DEF MixInv, MInv, CallerInv, Callers, ControlInv, PumpInv, SlotInv, NeverReadUnopened
    <3>5. OpenInv' /\ SignalInv'
      BY <3>1, <3>2, SameView DEF MixInv, MInv, OpenInv, SignalInv
    <3> QED
      BY <3>3, <3>4, <3>5 DEF MixInv, MInv
  <2> QED
    BY <2>1, <2>2, <2>3, <2>4, <2>5, <2>6 DEF Next
<1> QED
  BY <1>1, <1>2, PTL DEF Spec

\* No change is lost: the pump sleeps on a stale snapshot only while the one who
\* changed the mix has still to signal.
THEOREM SignalsAreNotLost == Spec => []NoLostSignal
<1>1. MixInv => NoLostSignal
  BY DEF MixInv, MInv, SlotInv, SignalInv, NoLostSignal
<1> QED
  BY <1>1, MixInvariance, PTL

\* The mix takes no value from an input that no state allowed it to read.
THEOREM UnopenedIsNotRead == Spec => []NeverReadUnopened
<1>1. MixInv => NeverReadUnopened
  BY DEF MixInv
<1> QED
  BY <1>1, MixInvariance, PTL
=============================================================================
