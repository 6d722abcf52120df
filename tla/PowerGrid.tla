----------------------------- MODULE PowerGrid -----------------------------
(***************************************************************************)
(* The scenario of script-power-grid.cc: the server, its clients and the   *)
(* wireless channel between them.  ns-3 runs one event at a time, so every *)
(* handler is one step; when its packets arrive and its events fire        *)
(* relative to the others is left open, except that all TimerExpired       *)
(* events wait the same threshold and fire in the order they were armed.   *)
(***************************************************************************)
EXTENDS EchoServer, EchoClient

vars == <<netVars, serverVars, clientVars>>

Init == NetInit /\ ServerInit /\ ClientInit

ServerStep == (ServerHandleRead \/ TimerExpired) /\ UNCHANGED clientVars

ClientStep ==
  /\ \/ \E a \in Area : ClientSend(a)
     \/ ClientHandleRead
     \/ SendPacket
  /\ UNCHANGED serverVars

Next ==
  \/ ServerStep
  \/ ClientStep
  \/ Lose /\ UNCHANGED <<serverVars, clientVars>>

Spec == Init /\ [][Next]_vars

\* The simulator runs every scheduled event in its turn until Simulator::Stop.
TimerFires == TimerExpired /\ UNCHANGED clientVars

\* Clients send, and what is sent to the server arrives unless it is lost.
Delivery ==
  /\ WF_vars(ServerHandleRead /\ UNCHANGED clientVars)
  /\ \A a \in Area : WF_vars(ClientSend(a) /\ UNCHANGED serverVars)

\* Nothing is said of the clients' solvers, which may never answer.
ProgressSpec == Spec /\ WF_vars(TimerFires) /\ Delivery

----------------------------------------------------------------------------
(* What the properties speak of                                            *)

\* The slots whose vector is a client's answer to the round that is open; in
\* round 1, where nothing was asked yet, a client's start vector.
HeldSlots ==
  {k \in Area : /\ ClientData[k].vector.round = current_round
                /\ current_round = 1 \/ ClientData[k].vector.form = "answer"}

AnsweredAreas == {ClientData[k].client : k \in HeldSlots}

Requests == {p \in down : p.vec.form = "request"}

\* The clients were first heard in the order of their numbers.
HeardInOrder == \A i \in DOMAIN addressList : addressList[i] = i - 1

----------------------------------------------------------------------------
(* Invariants                                                              *)

\* Every variable has its type; in particular no client number that reaches
\* HandleRead indexes ClientData outside its bounds.
TypeOK == NetTypeOK /\ ServerTypeOK /\ ClientTypeOK

\* m_addressList holds no address twice, so the running index over it stays
\* below the number of clients: with TypeOK, the inductive invariant.
TypeInv ==
  /\ TypeOK
  /\ \A i, j \in DOMAIN addressList : addressList[i] = addressList[j] => i = j

\* counter, which HandleRead bumps once per packet and three paths reset, is
\* the number of areas heard in the round that is open: no packet is counted
\* twice, none survives a reset, and no two areas share a slot.
CounterCountsAreas == counter = Cardinality(AnsweredAreas)

\* From round 3 on every slot holds a vector of the round that is open, so no
\* calculation mixes the answers of two ADMM iterations, whatever was late,
\* lost or resent, and whichever number a client answered under.
NoMixedIterations ==
  current_round > 2 =>
    \A k \in Area : ClientData[k].vector.round = current_round

\* An area has at most one packet of a round on its way, as a request, as a
\* pending answer or as a sent answer: no step asks or answers twice.
OnePacketPerAreaAndRound ==
  \A a \in Area, r \in 2 .. MaxRound :
    LET of(S) == {p \in S : p.area = a /\ p.vec.round = r} IN
      Cardinality(of(down)) + Cardinality(of(solving)) + Cardinality(of(up)) <= 1

\* Nothing on its way is of a round that is not open yet: what HandleRead
\* drops as "from the previous round" never is the answer to a later one.
NothingFromTheFuture ==
  /\ \A p \in up \cup down \cup solving : p.vec.round <= current_round
  /\ \A k \in Area : /\ ClientData[k].vector.round <= current_round
                      /\ ClientData[k].initialVector.round <= current_round

\* As soon as round 1 is over a timer is pending, no timer belongs to a round
\* that is not open yet, they fire oldest first, and there are at most as many
\* as rounds were opened: none is ever cancelled, but they do not multiply.
TimersBounded ==
  /\ current_round > 1 => timers # <<>>
  /\ Len(timers) <= current_round - 1
  /\ \A i \in DOMAIN timers : timers[i] \in 2 .. current_round
  /\ \A i, j \in DOMAIN timers : i <= j => timers[i] <= timers[j]

\* Until every client has answered twice the server only sends start vectors
\* back, so every request is whole and carries the number of its area.
EarlyRequestsAreOwn ==
  SomeoneMissedFirstRound =>
    \A p \in down : /\ p.vec.num = p.area
                    /\ p.vec.size = "whole"
                    /\ p.vec.form = "request"

\* When the clients are first heard in the order of their numbers, the process
\* only dies once the duals were lost or the script is out of rounds.
AbortHasCause ==
  aborted => ~HeardInOrder \/ duals = "short" \/ current_round >= MAX_ITER

\* When the clients are first heard in order, the first calculation replaces
\* all that an earlier simulation left in args.json: none of its results is ever
\* mixed with this one's, whoever was late or lost.
NoOldResults ==
  HeardInOrder => \/ \A a \in Area : json[a] # "old"
                  \/ \A a \in Area : json[a] = "old"

\* Also when clients send their start vector again (every m_interval, whoever
\* was heard), round 1 only ends alive with a vector of every area: a client
\* counted twice makes the slicing of the missing one's vector fault.
FirstRoundHasEveryArea ==
  current_round > 1 =>
    /\ Heard(addressList) = Area
    /\ \A k \in Area : ClientData[k].initialVector.form = "request"

\* A repeated start vector is counted twice in round 1 at most: in later
\* rounds it is late like any other and the counter is exact.
MiscountStaysInFirstRound ==
  counter # Cardinality(AnsweredAreas) => current_round = 1

----------------------------------------------------------------------------
(* Steps and progress                                                      *)

\* When the clients are first heard in order, every new round, however the one
\* before it ended, puts a request of that round on its way to every area:
\* none is forgotten because it was late, lost or never answered.
AsksEveryArea ==
  [][ (current_round' # current_round /\ HeardInOrder') =>
        \A a \in Area : \E p \in down' :
          /\ p.area = a
          /\ p.vec.form = "request"
          /\ p.vec.round = current_round' ]_vars

\* The rounds are those of RoundBarrier: each is closed by the answers of all
\* areas or by a timer that fires; no answer is held twice or kept.
Barrier == INSTANCE RoundBarrier
             WITH round <- current_round, answered <- AnsweredAreas

BarrierSpec == Barrier!Spec

\* Once a timer was armed the rounds go on to the last, each closed whatever the
\* channel loses, because some TimerExpired event is always pending (or the
\* process has died).
RoundsKeepClosing ==
  current_round = 2 ~> current_round = MaxRound \/ aborted

\* An area that was not heard has no start vector left that could arrive.
StartVectorsLost ==
  \E a \in Area : /\ a \notin Heard(addressList) /\ sent[a] = MaxSends
                 /\ Packet(a, StartVec(a)) \notin up

\* Round 1, which no timer guards, closes when every area is heard: it stays
\* open only for want of a start vector, and the process dies in it only when
\* one that came twice is counted for one that did not come.
FirstRoundCloses ==
  current_round = 1 ~>
    \/ current_round > 1
    \/ StartVectorsLost
    \/ aborted /\ Heard(addressList) # Area

----------------------------------------------------------------------------
(* What the comments and the README say and the code does not do           *)

\* README: the server "initiates a timer after every broadcast; if the timer
\* elapses, it resumes the sending round": the timer that closes a round is
\* the one armed when that round was sent.
TimerBelongsToRound ==
  [][ TimerFires => Head(timers) = current_round ]_vars

\* The second float of a request is the number of the client it goes to.
RequestNumberIsArea == \A p \in Requests : p.vec.num = p.area
=============================================================================
