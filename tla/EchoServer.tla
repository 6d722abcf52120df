---------------------------- MODULE EchoServer -----------------------------
(***************************************************************************)
(* The coordinator of the distributed power-flow computation               *)
(* (udp-echo-server.cc): it collects one answer of every area, lets a      *)
(* Julia script update the consensus and dual variables, and sends every   *)
(* area its next request; a timer armed with every request closes a round  *)
(* whose answers do not all come.                                          *)
(***************************************************************************)
EXTENDS GridNetwork, Sequences

CONSTANT
  MAX_ITER         \* last round Dist_rev.jl computes

ASSUME MaxIterAssumption == MAX_ITER \in Nat

VARIABLES
  counter,         \* packets accepted since the last broadcast
  current_round,
  addressList,     \* m_addressList: areas in the order they were first heard
  ClientData,      \* what the server keeps per client number
  json,            \* for every area, whether its entry in args.json is there,
                   \* is an earlier simulation's, or has the length that the
                   \* Julia script needs
  duals,           \* the lengths of z12, z13 and the four lambdas
  timers           \* the round each pending TimerExpired event was armed in,
                   \* first to fire first (the events carry no round: history)

serverVars ==
  <<counter, current_round, addressList, ClientData, json, duals, timers>>

Slot == [vector : Vec, initialVector : Vec,
         client : Area \cup {NoArea}, nbr_response : 0 .. 2]

EmptySlot == [vector |-> NoVec, initialVector |-> NoVec,
              client |-> NoArea, nbr_response |-> 0]

ServerTypeOK ==
  /\ counter \in 0 .. total_of_node - 1
  /\ current_round \in Round
  /\ addressList \in Seq(Area)
  /\ ClientData \in [Area -> Slot]
  /\ json \in [Area -> {"none", "old", "fits", "misfit"}]
  /\ duals \in {"unset", "whole", "short"}
  /\ timers \in Seq(Round)

\* args.json is the file an earlier simulation left, or there is none.
ServerInit ==
  /\ counter = 0
  /\ current_round = 1
  /\ addressList = <<>>
  /\ ClientData = [k \in Area |-> EmptySlot]
  /\ json \in {[a \in Area |-> "none"], [a \in Area |-> "old"]}
  /\ duals = "unset"
  /\ timers = <<>>

----------------------------------------------------------------------------
(* Looking up slots                                                        *)

\* An area may be stored under no client number, or under several.
SlotsOf(data, a) == {k \in Area : data[k].client = a}

\* The slots no later slot shares the client name with.
LastSlots(data) ==
  {k \in Area : \A j \in Area : j > k => data[j].client # data[k].client}

Heard(list) == {list[i] : i \in DOMAIN list}

\* Mutant: the running index starts at 1.
ArrivalIndexFromOne(list, a) == CHOOSE i \in DOMAIN list : list[i] = a

ArrivalIndex(list, a) == (CHOOSE i \in DOMAIN list : list[i] = a) - 1

\* Every loop over ClientData overwrites the buffer at each match, so the last
\* matching slot is what is sent, and an area without a slot gets no bytes.
Broadcast(data, list) ==
  {Packet(data[k].client, data[k].vector) :
     k \in {k \in LastSlots(data) : data[k].client \in Heard(list)}}
  \cup {Packet(a, NoVec) : a \in {a \in Heard(list) : SlotsOf(data, a) = {}}}

\* Mutant: the round is counted up once more than the server did.
RestampedAhead(data, list, round) ==
  [k \in Area |-> IF data[k].client \in Heard(list)
                  THEN [data[k] EXCEPT !.vector.round = round + 1]
                  ELSE data[k]]

\* The slots of every area in the list, with the round number written over.
Restamped(data, list, round) ==
  [k \in Area |-> IF data[k].client \in Heard(list)
                  THEN [data[k] EXCEPT !.vector.round = round]
                  ELSE data[k]]

\* A TimerExpired event for the round being opened.
Armed(pending) == Append(pending, current_round + 1)

----------------------------------------------------------------------------
(* CalculateAndSendDataBackToAreas                                         *)

\* The slots of clients with at most one answer remember it for a reset.
Remembered(data) ==
  [k \in Area |-> IF data[k].nbr_response <= 1
                  THEN [data[k] EXCEPT !.initialVector = data[k].vector]
                  ELSE data[k]]

\* Whether four header floats off the vector leave what Dist_rev.jl slices:
\* an answer always does; of a request only area 1's is long enough.
Fits(a, v) == v.form = "answer" \/ (a = 0 /\ v.size # "short")

\* Mutant: a request that went out is not stored.
SavedAnswers(data) ==
  [a \in Area |->
     IF \E k \in LastSlots(data) \cap SlotsOf(data, a) :
          data[k].vector.form = "answer" THEN "fits" ELSE json[a]]

\* args.json after the slots are stored by client name, later ones over
\* earlier ones; an area without a slot keeps the entry it had.
Saved(data) ==
  [a \in Area |->
     IF SlotsOf(data, a) = {} THEN json[a]
     ELSE IF \E k \in LastSlots(data) \cap SlotsOf(data, a) :
               Fits(a, data[k].vector) THEN "fits" ELSE "misfit"]

\* Round 1 slices rho and the duals out of every slot: a slot nobody wrote is
\* an empty vector.
SlicingFaults(data) == \E k \in Area : data[k].vector = NoVec

\* Dist_rev.jl stops before it prints the lengths, because no round is left or
\* an area is missing from args.json: one of the last six output lines is then
\* blank, and parseFloatVector throws.
OutputIsBlank(data) ==
  \/ current_round + 1 > MAX_ITER
  \/ \E a \in Area : Saved(data)[a] = "none"

\* Mutant: an unwritten slot is let through.
CalculationDiesLater(round, data) == round # 1 /\ OutputIsBlank(data)

CalculationDies(round, data) ==
  IF round = 1 THEN SlicingFaults(data) ELSE OutputIsBlank(data)

\* Round 1: every client gets its own vector back, and the duals are set.
ResendFirst(data, list) ==
  /\ down' = down \cup
       Broadcast(Restamped(data, list, current_round + 1), list)
  /\ duals' = "whole"
  /\ ClientData' = data
  /\ UNCHANGED json

\* The Julia script updates the duals if the lengths of all it reads agree; an
\* earlier simulation's entries have the lengths of this one's.
Solved(data) == duals = "whole" /\ \A a \in Area : Saved(data)[a] \in {"old", "fits"}

\* The next request for the client of a slot, numbered by its place in the
\* list. A failing Julia run is only reported: the six lines read as the duals
\* are then the printed lengths, parsed as one-element or empty vectors. The
\* second slot of a client gets its sub-vectors and the first slot's.
Request(data, list, k) ==
  [form  |-> "request",
   round |-> current_round + 1,
   num   |-> ArrivalIndex(list, data[k].client),
   size  |-> IF ~Solved(data) THEN "short"
             ELSE IF \E j \in Area : j < k /\ data[j].client = data[k].client
                  THEN "long" ELSE "whole"]

Asked(data, list) ==
  [k \in Area |-> IF data[k].client \in Heard(list)
                  THEN [data[k] EXCEPT !.vector = Request(data, list, k)]
                  ELSE data[k]]

SolveAndSend(data, list) ==
  /\ down' = down \cup Broadcast(Asked(data, list), list)
  /\ duals' = IF Solved(data) THEN "whole" ELSE "short"
  /\ ClientData' = Asked(data, list)
  /\ json' = Saved(data)

CalculateAndSendDataBackToAreas(round, data, list, pending) ==
  /\ current_round' = current_round + 1
  /\ addressList' = list
  /\ timers' = Armed(pending)
  /\ IF round = 1 THEN ResendFirst(Remembered(data), list)
                  ELSE SolveAndSend(Remembered(data), list)

----------------------------------------------------------------------------
(* HandleRead                                                              *)

\* nbr_response is only compared with 1: it is kept up to 2.
OneMore(n) == IF n < 2 THEN n + 1 ELSE 2

\* Mutant: the name of the client is not stored.
FilledNameless(slot, v, a) ==
  [slot EXCEPT !.vector = v, !.nbr_response = OneMore(slot.nbr_response)]

Filled(slot, v, a) ==
  [slot EXCEPT !.vector = v,
               !.client = a,
               !.nbr_response = OneMore(slot.nbr_response)]

Stored(v, a) == [ClientData EXCEPT ![v.num] = Filled(@, v, a)]

Listed(a) ==
  IF a \in Heard(addressList) THEN addressList ELSE Append(addressList, a)

\* The packet is of an earlier round: ignored.
Ignore(p) ==
  /\ p.vec.round # current_round
  /\ up' = up \ {p}
  /\ UNCHANGED <<down, aborted>>
  /\ UNCHANGED serverVars

\* What HandleRead does with a packet that does not fill the round, ...
Keep(p) ==
  /\ up' = up \ {p}
  /\ counter' = counter + 1
  /\ ClientData' = Stored(p.vec, p.area)
  /\ addressList' = Listed(p.area)
  /\ UNCHANGED <<down, aborted, current_round, json, duals, timers>>

\* ... and with the one that does.
CloseRound(p) ==
  /\ current_round < MaxRound
  /\ LET data == Stored(p.vec, p.area) IN
       IF CalculationDies(current_round, Remembered(data))
       THEN Die /\ UNCHANGED serverVars
       ELSE /\ up' = up \ {p}
            /\ counter' = 0
            /\ CalculateAndSendDataBackToAreas(current_round, data,
                                               Listed(p.area), timers)
            /\ UNCHANGED aborted

\* Mutant: answers of every round are accepted.
CollectAnyRound(p) == counter + 1 # total_of_node /\ Keep(p)

Collect(p) ==
  /\ p.vec.round = current_round
  /\ counter + 1 # total_of_node
  /\ Keep(p)

\* Mutant: the round closes one answer early.
CompleteEarly(p) ==
  /\ p.vec.round = current_round
  /\ counter + 2 >= total_of_node
  /\ CloseRound(p)

\* Mutant: the counter is compared before it is counted up.
CompleteLate(p) ==
  /\ p.vec.round = current_round
  /\ counter = total_of_node
  /\ CloseRound(p)

Complete(p) ==
  /\ p.vec.round = current_round
  /\ counter + 1 = total_of_node
  /\ CloseRound(p)

ServerHandleRead ==
  /\ ~aborted
  /\ \E p \in up : Ignore(p) \/ Collect(p) \/ Complete(p)

----------------------------------------------------------------------------
(* TimerExpired                                                            *)

SomeoneMissedFirstRound == \E k \in Area : ClientData[k].nbr_response <= 1

\* The calculation arms a timer, and so does the handler after it.
Calculate ==
  IF CalculationDies(current_round, Remembered(ClientData))
  THEN Die /\ UNCHANGED serverVars
  ELSE /\ counter' = 0
       /\ CalculateAndSendDataBackToAreas(current_round, ClientData,
            addressList, Armed(Tail(timers)))
       /\ UNCHANGED <<up, aborted>>

\* Mutant: clients with one answer are taken for clients with two.
CalculateUnprepared == counter > 0 /\ Calculate

\* Some answers came and every client has answered before: go on without the
\* rest.
CalculateWithoutRest ==
  /\ counter > 0
  /\ ~SomeoneMissedFirstRound
  /\ Calculate

\* The slots go out as they are, under the number of the round that starts.
ResendAs(data, round, pending) ==
  LET sent == Restamped(data, addressList, round) IN
  /\ current_round' = round
  /\ down' = down \cup Broadcast(sent, addressList)
  /\ ClientData' = sent
  /\ timers' = pending
  /\ UNCHANGED <<up, aborted, addressList, json, duals>>

\* Mutant: the counter is not reset.
ResendCounting(data) ==
  ResendAs(data, current_round + 1, Armed(Tail(timers))) /\ UNCHANGED counter

\* Mutant: the round is not counted up.
ResendSameRound(data) ==
  /\ counter' = 0
  /\ ResendAs(data, current_round, Append(Tail(timers), current_round))

\* Mutant: no new timer is armed.
ResendUnarmed(data) ==
  counter' = 0 /\ ResendAs(data, current_round + 1, Tail(timers))

Resend(data) ==
  counter' = 0 /\ ResendAs(data, current_round + 1, Armed(Tail(timers)))

\* Some answers came but a client has not answered twice yet: every client is
\* sent its first vector again.
ResendInitial ==
  /\ counter > 0
  /\ SomeoneMissedFirstRound
  /\ Resend([k \in Area |->
       [ClientData[k] EXCEPT !.vector = ClientData[k].initialVector]])

\* Nobody answered: the previous requests go out again.
ResendPrevious ==
  /\ counter = 0
  /\ Resend(ClientData)

\* Its test that counter is not total_of_node always holds: the packet that
\* fills a round resets the counter in the same handler.
TimerExpired ==
  /\ ~aborted
  /\ timers # <<>>
  /\ current_round < MaxRound
  /\ CalculateWithoutRest \/ ResendInitial \/ ResendPrevious
=============================================================================
