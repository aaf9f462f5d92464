-------------------------------- MODULE Nrepl --------------------------------
(***************************************************************************)
(* The nREPL server (pkg/nrepl/server.go).  A goroutine per connection     *)
(* reads messages and answers some itself (clone, close, interrupt,        *)
(* describe ...); eval, load-file, complete and lookup are queued for the  *)
(* goroutine of their session, which marks itself busy, runs one request   *)
(* at a time and sends its last reply ("done").  Messages are abstracted   *)
(* to their operation and session, evaluation to a step that ends.         *)
(***************************************************************************)
EXTENDS Naturals, Sequences, FiniteSets

CONSTANTS
  Conns,        \* client connections
  Script,       \* the messages of each: [op, session]; session 0 for none
  MaxSessions,  \* bound: sessions made; no less than the messages that can make one
  QCap          \* capacity of a session's reqs channel (16 in the code)

Sessions == 1..MaxSessions

ASSUME NreplAssumption ==
  /\ MaxSessions \in Nat /\ QCap \in Nat /\ IsFiniteSet(Conns)
  /\ Script \in [Conns -> Seq([op : {"clone", "close", "interrupt", "describe", "eval"},
                               session : Sessions \cup {0}])]

VARIABLES
  made,       \* sessions made so far: ids 1..made
  sessions,   \* s.sessions
  quit,       \* the sessions whose quit channel is closed
  nread,      \* messages each connection has read
  cpc,        \* where its goroutine is: "read", "deliver", "close",
              \* "queue" or "parked"
  target,     \* the session it has looked up
  reqs,       \* the reqs channel of each session; past QCap, parked connections
  spc,        \* the session goroutines: "none", "select", "take", "run", "reply" or "gone"
  busy,       \* the busy flags
  cur,        \* the request each session has in hand
  answered    \* the messages answered with "done", as <<connection, number>>

conns == <<nread, cpc, target>>
sess  == <<made, sessions, quit>>
work  == <<reqs, spc, busy, cur>>
nreplVars  == <<sess, conns, work, answered>>

NoReq   == <<>>
Msg(c)  == Script[c][nread[c]]
Id(c)   == <<c, nread[c]>>
Started == 1..made

NreplTypeOK ==
  /\ made \in Sessions \cup {0} /\ sessions \subseteq Started /\ quit \subseteq Started
  /\ \A c \in Conns : nread[c] \in 0..Len(Script[c])
  /\ cpc \in [Conns -> {"read", "deliver", "close", "queue", "parked"}]
  /\ target \in [Conns -> Sessions \cup {0}]
  /\ \A s \in Sessions : Len(reqs[s]) <= QCap + Cardinality(Conns)
  /\ spc \in [Sessions -> {"none", "select", "take", "run", "reply", "gone"}]
  /\ busy \in [Sessions -> BOOLEAN] /\ answered \subseteq Conns \X Nat

NreplInit ==
  /\ made = 0 /\ sessions = {} /\ quit = {}
  /\ nread = [c \in Conns |-> 0] /\ cpc = [c \in Conns |-> "read"]
  /\ target = [c \in Conns |-> 0]
  /\ reqs = [s \in Sessions |-> <<>>] /\ spc = [s \in Sessions |-> "none"]
  /\ busy = [s \in Sessions |-> FALSE] /\ cur = [s \in Sessions |-> NoReq]
  /\ answered = {}
------------------------------------------------------------------------------
\* A connection reads its next message.  Its client sends without waiting.
Read(c) ==
  /\ cpc[c] = "read" /\ nread[c] < Len(Script[c])
  /\ nread' = [nread EXCEPT ![c] = @ + 1] /\ cpc' = [cpc EXCEPT ![c] = "deliver"]
  /\ UNCHANGED <<sess, target, work, answered>>

\* Back to reading, the message answered.
Reply(c) ==
  /\ cpc' = [cpc EXCEPT ![c] = "read"] /\ answered' = answered \cup {Id(c)}
  /\ UNCHANGED nread

NewSession ==
  /\ made + 1 \in Sessions
  /\ made' = made + 1 /\ sessions' = sessions \cup {made'}
  /\ spc' = [spc EXCEPT ![made'] = "select"]
  /\ UNCHANGED <<quit, reqs, busy, cur>>

Clone(c) ==
  /\ cpc[c] = "deliver" /\ Msg(c).op = "clone"
  /\ NewSession /\ Reply(c) /\ UNCHANGED target

\* close: out of the map under s.mu, then close(quit).
CloseFind(c) ==
  /\ cpc[c] = "deliver" /\ Msg(c).op = "close"
  /\ target' = [target EXCEPT ![c] = IF Msg(c).session \in sessions THEN Msg(c).session ELSE 0]
  /\ sessions' = sessions \ {Msg(c).session}
  /\ cpc' = [cpc EXCEPT ![c] = "close"]
  /\ UNCHANGED <<made, quit, nread, work, answered>>

CloseQuit(c) ==
  /\ cpc[c] = "close"
  /\ quit' = quit \cup ({target[c]} \ {0})
  /\ Reply(c) /\ UNCHANGED <<made, sessions, target, work>>

\* interrupt answers idle or not supported by the busy flag, which nothing else
\* depends on; describe, ls-sessions, ns-list and an unknown op answer at once.
Answer(c) ==
  /\ cpc[c] = "deliver" /\ Msg(c).op \in {"interrupt", "describe"}
  /\ Reply(c) /\ UNCHANGED <<sess, target, work>>

\* sessionFor: the session of the message under s.mu, or a new one ...
Lookup(c) ==
  /\ cpc[c] = "deliver" /\ Msg(c).op = "eval"
  /\ cpc' = [cpc EXCEPT ![c] = "queue"]
  /\ \/ /\ Msg(c).session \in sessions
        /\ target' = [target EXCEPT ![c] = Msg(c).session]
        /\ UNCHANGED <<sess, work>>
     \/ /\ Msg(c).session \notin sessions
        /\ NewSession /\ target' = [target EXCEPT ![c] = made']
  /\ UNCHANGED <<nread, answered>>

\* ... and the request on its queue; the connection goes on when it has a slot.
Queue(c) ==
  /\ cpc[c] = "queue"
  /\ reqs' = [reqs EXCEPT ![target[c]] = Append(@, Id(c))]
  /\ cpc' = [cpc EXCEPT ![c] = "parked"]
  /\ UNCHANGED <<sess, nread, target, spc, busy, cur, answered>>

Queued(c) ==
  /\ cpc[c] = "parked"
  /\ \A i \in DOMAIN reqs[target[c]] : reqs[target[c]][i] = Id(c) => i <= QCap
  /\ cpc' = [cpc EXCEPT ![c] = "read"]
  /\ UNCHANGED <<sess, nread, target, work, answered>>

ConnStep(c) ==
  Clone(c) \/ CloseFind(c) \/ CloseQuit(c) \/ Answer(c) \/ Lookup(c) \/ Queue(c) \/ Queued(c)
------------------------------------------------------------------------------
(***************************************************************************)
(* The session goroutine.                                                  *)
(***************************************************************************)
\* select: a request, or quit; either when both are ready.
Take(s) ==
  /\ spc[s] = "select" /\ reqs[s] # <<>>
  /\ cur' = [cur EXCEPT ![s] = Head(reqs[s])] /\ reqs' = [reqs EXCEPT ![s] = Tail(@)]
  /\ spc' = [spc EXCEPT ![s] = "take"]
  /\ UNCHANGED <<sess, conns, busy, answered>>

Quit(s) ==
  /\ spc[s] = "select" /\ s \in quit
  /\ spc' = [spc EXCEPT ![s] = "gone"]
  /\ UNCHANGED <<sess, conns, reqs, busy, cur, answered>>

\* busy is set, the request run (a panic in it is recovered) ...
SetBusy(s) ==
  /\ spc[s] = "take"
  /\ busy' = [busy EXCEPT ![s] = TRUE] /\ spc' = [spc EXCEPT ![s] = "run"]
  /\ UNCHANGED <<sess, conns, reqs, cur, answered>>

\* Mutant: the last reply goes out first, the flag is cleared afterwards.
Mut_ClearBusy(s) ==
  /\ spc[s] = "run"
  /\ answered' = answered \cup {cur[s]} /\ spc' = [spc EXCEPT ![s] = "reply"]
  /\ UNCHANGED <<sess, conns, reqs, busy, cur>>

\* ... busy cleared, and only then the last reply sent.
ClearBusy(s) ==
  /\ spc[s] = "run"
  /\ busy' = [busy EXCEPT ![s] = FALSE] /\ spc' = [spc EXCEPT ![s] = "reply"]
  /\ UNCHANGED <<sess, conns, reqs, cur, answered>>

\* Mutant: the reply is lost.
Mut_SendDone(s) ==
  /\ spc[s] = "reply"
  /\ cur' = [cur EXCEPT ![s] = NoReq] /\ spc' = [spc EXCEPT ![s] = "select"]
  /\ UNCHANGED <<sess, conns, reqs, busy, answered>>

SendDone(s) ==
  /\ spc[s] = "reply"
  /\ answered' = answered \cup {cur[s]} /\ cur' = [cur EXCEPT ![s] = NoReq]
  /\ spc' = [spc EXCEPT ![s] = "select"]
  /\ UNCHANGED <<sess, conns, reqs, busy>>

SessionStep(s) == Take(s) \/ Quit(s) \/ SetBusy(s) \/ ClearBusy(s) \/ SendDone(s)

NreplNext ==
  \/ \E c \in Conns : Read(c) \/ ConnStep(c)
  \/ \E s \in Sessions : SessionStep(s)

NreplSpec == NreplInit /\ [][NreplNext]_nreplVars

\* Go schedules the goroutines, and an evaluation ends; clients need send nothing.
NreplFairSpec ==
  /\ NreplSpec
  /\ \A c \in Conns : WF_nreplVars(ConnStep(c))
  /\ \A s \in Sessions : WF_nreplVars(SessionStep(s))
------------------------------------------------------------------------------
(***************************************************************************)
(* Properties.                                                             *)
(***************************************************************************)

\* The requests given to session s.
Given(s) == {reqs[s][i] : i \in DOMAIN reqs[s]} \cup ({cur[s]} \ {NoReq})

\* Once the clients have read "done" for everything they gave a session, an
\* interrupt sees it idle (server.go:203-206, "a client that has read done must
\* be guaranteed a subsequent interrupt sees session-idle").
DoneThenIdle == \A s \in Sessions : Given(s) \subseteq answered => ~busy[s]

\* A message m that no one will answer: it waits, or is about to, on the queue of a
\* session that was closed after it was looked up.  The request in hand of such a
\* session is none: it is still answered.
Orphaned(m) ==
  \/ \E s \in quit : \E i \in DOMAIN reqs[s] : reqs[s][i] = m
  \/ nread[m[1]] = m[2] /\ cpc[m[1]] = "queue" /\ target[m[1]] \in quit

\* Every message that is read is answered, unless its session is closed first:
\* such a request stays on the queue for ever, and once the queue is full its
\* connection is stuck too (server.go:199-213, 301-302).
AnswersComeBack ==
  \A c \in Conns : \A n \in DOMAIN Script[c] :
    (nread[c] >= n) ~> (<<c, n>> \in answered \/ Orphaned(<<c, n>>))
==============================================================================
