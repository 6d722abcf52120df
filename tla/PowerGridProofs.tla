-------------------------- MODULE PowerGridProofs --------------------------
(***************************************************************************)
(* Theorems about PowerGrid, for any number of areas, rounds and repeated  *)
(* start vectors, on a reliable or a lossy channel.                        *)
(***************************************************************************)
EXTENDS PowerGrid, FiniteSetTheorems, SequenceTheorems, TLAPS

\* A list without repetitions, as a conjunct of TypeInv has it.
Distinct(list) ==
  \A i, j \in DOMAIN list : list[i] = list[j] => i = j

LEMMA AreaFacts == Area \subseteq Nat /\ 0 \in Area /\ NoArea \notin Area
BY GridAssumption DEF Area

LEMMA NoVecType == NoVec \in Vec
BY AreaFacts, GridAssumption DEF NoVec, Vec

----------------------------------------------------------------------------
(* The client list                                                         *)

LEMMA DistinctIsShort ==
  ASSUME NEW list \in Seq(Area), Distinct(list)
  PROVE  Len(list) <= total_of_node
<1>1. list \in Injection(1 .. Len(list), Area)
  BY DEF Distinct, Injection, IsInjective
<1>2. IsFiniteSet(Area) /\ Cardinality(Area) = total_of_node
  BY FS_Interval, GridAssumption DEF Area
<1>3. Cardinality(1 .. Len(list)) = Len(list)
  <2>1. 1 \in Int /\ Len(list) \in Int
    OBVIOUS
  <2>2. Cardinality(1 .. Len(list)) =
          IF 1 > Len(list) THEN 0 ELSE Len(list) - 1 + 1
    BY <2>1, FS_Interval
  <2> QED
    BY <2>1, <2>2
<1>4. Cardinality(1 .. Len(list)) <= Cardinality(Area)
  BY <1>1, <1>2, FS_Injection
<1> QED
  BY <1>2, <1>3, <1>4

LEMMA ArrivalIndexType ==
  ASSUME NEW list \in Seq(Area), Distinct(list), NEW a \in Heard(list)
  PROVE  ArrivalIndex(list, a) \in Area
<1> DEFINE i == CHOOSE i \in DOMAIN list : list[i] = a
<1>1. \E k \in DOMAIN list : list[k] = a
  BY DEF Heard
<1>2. i \in DOMAIN list /\ ArrivalIndex(list, a) = i - 1
  BY <1>1 DEF ArrivalIndex
<1>3. i \in 1 .. Len(list)
  BY <1>2
<1>4. Len(list) <= total_of_node
  BY DistinctIsShort
<1> QED
  BY <1>2, <1>3, <1>4, GridAssumption DEF Area

LEMMA ListedType ==
  ASSUME addressList \in Seq(Area), Distinct(addressList), NEW a \in Area
  PROVE  Listed(a) \in Seq(Area) /\ Distinct(Listed(a))
<1>1. CASE a \in Heard(addressList)
  BY <1>1 DEF Listed
<1>2. CASE a \notin Heard(addressList)
  <2>1. Listed(a) = Append(addressList, a)
    BY <1>2 DEF Listed
  <2>2. \A i \in DOMAIN addressList : addressList[i] # a
    BY <1>2 DEF Heard
  <2> QED
    BY <2>1, <2>2 DEF Distinct
<1> QED
  BY <1>1, <1>2

----------------------------------------------------------------------------
(* The client slots                                                        *)

LEMMA RestampedType ==
  ASSUME NEW data \in [Area -> Slot], NEW list, NEW r \in 0 .. MaxRound
  PROVE  Restamped(data, list, r) \in [Area -> Slot]
BY DEF Restamped, Slot, Vec

LEMMA RememberedType ==
  ASSUME NEW data \in [Area -> Slot]
  PROVE  Remembered(data) \in [Area -> Slot]
BY DEF Remembered, Slot

LEMMA StoredType ==
  ASSUME ClientData \in [Area -> Slot], NEW v \in Vec, NEW a \in Area
  PROVE  Stored(v, a) \in [Area -> Slot]
<1>1. v.num \in Area
  BY DEF Vec
<1>2. \A slot \in Slot : OneMore(slot.nbr_response) \in 0 .. 2
  BY DEF Slot, OneMore
<1>3. \A slot \in Slot : Filled(slot, v, a) \in Slot
  BY <1>2 DEF Slot, Filled
<1> QED
  BY <1>1, <1>3 DEF Stored

LEMMA SavedType ==
  ASSUME json \in [Area -> {"none", "old", "fits", "misfit"}], NEW data
  PROVE  Saved(data) \in [Area -> {"none", "old", "fits", "misfit"}]
BY DEF Saved

LEMMA BroadcastType ==
  ASSUME NEW data \in [Area -> Slot], NEW list \in Seq(Area)
  PROVE  Broadcast(data, list) \subseteq Datagram
<1>1. Heard(list) \subseteq Area
  BY DEF Heard
<1>2. LastSlots(data) \subseteq Area
  BY DEF LastSlots
<1>3. \A k \in Area : data[k].vector \in Vec
  BY DEF Slot
<1> QED
  BY <1>1, <1>2, <1>3, NoVecType DEF Broadcast, Packet, Datagram

LEMMA AskedType ==
  ASSUME NEW data \in [Area -> Slot], NEW list \in Seq(Area), Distinct(list),
         current_round \in Round, current_round < MaxRound
  PROVE  Asked(data, list) \in [Area -> Slot]
<1>1. \A k \in Area : data[k].client \in Heard(list)
                         => Request(data, list, k) \in Vec
  <2> SUFFICES ASSUME NEW k \in Area, data[k].client \in Heard(list)
               PROVE  Request(data, list, k) \in Vec
    OBVIOUS
  <2>1. ArrivalIndex(list, data[k].client) \in Area
    BY ArrivalIndexType
  <2>2. current_round + 1 \in 0 .. MaxRound
    BY GridAssumption DEF Round
  <2> QED
    BY <2>1, <2>2 DEF Request, Vec
<1>2. \A k \in Area : data[k].client \in Heard(list)
        => [data[k] EXCEPT !.vector = Request(data, list, k)] \in Slot
  BY <1>1 DEF Slot
<1> QED
  BY <1>2 DEF Asked

----------------------------------------------------------------------------
(* The calculation and its two callers                                     *)

LEMMA CalculateType ==
  ASSUME TypeInv, current_round < MaxRound,
         NEW data \in [Area -> Slot], NEW list \in Seq(Area), Distinct(list),
         NEW pending \in Seq(Round),
         CalculateAndSendDataBackToAreas(current_round, data, list, pending)
  PROVE  /\ down' \subseteq Datagram
         /\ current_round' \in Round
         /\ addressList' \in Seq(Area) /\ Distinct(addressList)'
         /\ ClientData' \in [Area -> Slot]
         /\ json' \in [Area -> {"none", "old", "fits", "misfit"}]
         /\ duals' \in {"unset", "whole", "short"}
         /\ timers' \in Seq(Round)
<1> DEFINE kept == Remembered(data)
<1>1. /\ down \subseteq Datagram
      /\ current_round \in Round
      /\ json \in [Area -> {"none", "old", "fits", "misfit"}]
  BY DEF TypeInv, TypeOK, NetTypeOK, ServerTypeOK
<1>2. current_round + 1 \in Round /\ current_round + 1 \in 0 .. MaxRound
  BY <1>1, GridAssumption DEF Round
<1>3. /\ current_round' = current_round + 1
      /\ addressList' = list
      /\ timers' = Append(pending, current_round + 1)
  BY DEF CalculateAndSendDataBackToAreas, Armed
<1>4. kept \in [Area -> Slot]
  BY RememberedType
<1>5. CASE ResendFirst(kept, list)
  <2>1. Restamped(kept, list, current_round + 1) \in [Area -> Slot]
    BY <1>2, <1>4, RestampedType
  <2>2. Broadcast(Restamped(kept, list, current_round + 1), list)
          \subseteq Datagram
    BY <2>1, BroadcastType
  <2> QED
    BY <1>1, <1>2, <1>3, <1>4, <1>5, <2>2 DEF ResendFirst, Distinct
<1>6. CASE SolveAndSend(kept, list)
  <2>1. Asked(kept, list) \in [Area -> Slot]
    BY <1>1, <1>4, AskedType
  <2>2. Broadcast(Asked(kept, list), list) \subseteq Datagram
    BY <2>1, BroadcastType
  <2>3. Saved(kept) \in [Area -> {"none", "old", "fits", "misfit"}]
    BY <1>1, SavedType
  <2> QED
    BY <1>1, <1>2, <1>3, <1>6, <2>1, <2>2, <2>3 DEF SolveAndSend, Distinct
<1> QED
  BY <1>5, <1>6 DEF CalculateAndSendDataBackToAreas

LEMMA ResendType ==
  ASSUME TypeInv, timers # <<>>, current_round < MaxRound,
         NEW data \in [Area -> Slot], Resend(data), UNCHANGED clientVars
  PROVE  TypeInv'
<1> DEFINE out == Restamped(data, addressList, current_round + 1)
<1>1. /\ current_round \in Round
      /\ timers \in Seq(Round)
      /\ addressList \in Seq(Area)
  BY DEF TypeInv, TypeOK, ServerTypeOK
<1>2. current_round + 1 \in Round /\ current_round + 1 \in 0 .. MaxRound
  BY <1>1, GridAssumption DEF Round
<1>3. out \in [Area -> Slot]
  BY <1>2, RestampedType
<1>4. Broadcast(out, addressList) \subseteq Datagram
  BY <1>1, <1>3, BroadcastType
<1>5. Armed(Tail(timers)) \in Seq(Round)
  BY <1>1, <1>2 DEF Armed
<1>6. 0 \in 0 .. total_of_node - 1
  BY GridAssumption
<1>7. /\ counter' = 0
      /\ current_round' = current_round + 1
      /\ down' = down \cup Broadcast(out, addressList)
      /\ ClientData' = out
      /\ timers' = Armed(Tail(timers))
      /\ UNCHANGED <<up, aborted, addressList, json, duals>>
  BY DEF Resend, ResendAs
<1> QED
  BY <1>2, <1>3, <1>4, <1>5, <1>6, <1>7
  DEF TypeInv, TypeOK, NetTypeOK, ServerTypeOK, ClientTypeOK, clientVars

LEMMA DieType ==
  ASSUME TypeInv, Die, UNCHANGED <<serverVars, clientVars>>
  PROVE  TypeInv'
BY DEF TypeInv, TypeOK, NetTypeOK, ServerTypeOK, ClientTypeOK, Die,
       serverVars, clientVars

LEMMA HandleReadType ==
  ASSUME TypeInv, ServerHandleRead, UNCHANGED clientVars
  PROVE  TypeInv'
<1> PICK p \in up : Ignore(p) \/ Collect(p) \/ Complete(p)
  BY DEF ServerHandleRead
<1>1. /\ p \in Datagram
      /\ up \subseteq Datagram
      /\ ClientData \in [Area -> Slot]
      /\ addressList \in Seq(Area) /\ Distinct(addressList)
      /\ counter \in 0 .. total_of_node - 1
      /\ timers \in Seq(Round)
  BY DEF TypeInv, TypeOK, NetTypeOK, ServerTypeOK, Distinct
<1>2. p.area \in Area /\ p.vec \in Vec
  BY <1>1 DEF Datagram
<1>3. Stored(p.vec, p.area) \in [Area -> Slot]
  BY <1>1, <1>2, StoredType
<1>4. Listed(p.area) \in Seq(Area) /\ Distinct(Listed(p.area))
  BY <1>1, <1>2, ListedType
<1>5. CASE Ignore(p)
  BY <1>5 DEF Ignore, TypeInv, TypeOK, NetTypeOK, ServerTypeOK, ClientTypeOK,
              serverVars, clientVars
<1>6. CASE Collect(p)
  <2>1. counter + 1 \in 0 .. total_of_node - 1
    BY <1>1, <1>6, GridAssumption DEF Collect
  <2>2. /\ counter' = counter + 1
        /\ ClientData' = Stored(p.vec, p.area)
        /\ addressList' = Listed(p.area)
        /\ up' \subseteq up
        /\ UNCHANGED <<down, aborted, current_round, json, duals, timers>>
    BY <1>6 DEF Collect, Keep
  <2> QED
    BY <2>1, <2>2, <1>3, <1>4
    DEF TypeInv, TypeOK, NetTypeOK, ServerTypeOK, ClientTypeOK, clientVars,
        Distinct
<1>7. CASE Complete(p)
  <2>1. CASE Die /\ UNCHANGED serverVars
    BY <2>1, DieType DEF serverVars, clientVars
  <2>2. CASE /\ up' = up \ {p}
             /\ counter' = 0
             /\ CalculateAndSendDataBackToAreas(current_round,
                  Stored(p.vec, p.area), Listed(p.area), timers)
             /\ UNCHANGED aborted
    <3>1. current_round < MaxRound
      BY <1>7 DEF Complete, CloseRound
    <3>2. 0 \in 0 .. total_of_node - 1
      BY GridAssumption
    <3> QED
      BY <3>1, <3>2, <2>2, <1>1, <1>3, <1>4, CalculateType
      DEF TypeInv, TypeOK, NetTypeOK, ServerTypeOK, ClientTypeOK, clientVars,
          Distinct
  <2> QED
    BY <1>7, <2>1, <2>2 DEF Complete, CloseRound
<1> QED
  BY <1>5, <1>6, <1>7

LEMMA TimerType ==
  ASSUME TypeInv, TimerExpired, UNCHANGED clientVars
  PROVE  TypeInv'
<1>1. /\ ClientData \in [Area -> Slot]
      /\ addressList \in Seq(Area) /\ Distinct(addressList)
      /\ current_round \in Round
      /\ timers \in Seq(Round)
  BY DEF TypeInv, TypeOK, ServerTypeOK, Distinct
<1>2. timers # <<>> /\ current_round < MaxRound
  BY DEF TimerExpired
<1>3. CASE CalculateWithoutRest
  <2>1. CASE Die /\ UNCHANGED serverVars
    BY <2>1, DieType DEF serverVars, clientVars
  <2>2. CASE /\ counter' = 0
             /\ CalculateAndSendDataBackToAreas(current_round, ClientData,
                  addressList, Armed(Tail(timers)))
             /\ UNCHANGED <<up, aborted>>
    <3>1. Armed(Tail(timers)) \in Seq(Round)
      BY <1>1, <1>2, GridAssumption DEF Armed, Round
    <3>2. 0 \in 0 .. total_of_node - 1
      BY GridAssumption
    <3> QED
      BY <3>1, <3>2, <2>2, <1>1, <1>2, CalculateType
      DEF TypeInv, TypeOK, NetTypeOK, ServerTypeOK, ClientTypeOK, clientVars,
          Distinct
  <2> QED
    BY <1>3, <2>1, <2>2 DEF CalculateWithoutRest, Calculate
<1>4. CASE ResendInitial
  <2> DEFINE first == [k \in Area |->
        [ClientData[k] EXCEPT !.vector = ClientData[k].initialVector]]
  <2>1. first \in [Area -> Slot]
    BY <1>1 DEF Slot
  <2>2. Resend(first)
    BY <1>4 DEF ResendInitial
  <2> QED
    BY <2>1, <2>2, <1>2, ResendType
<1>5. CASE ResendPrevious
  BY <1>1, <1>2, <1>5, ResendType DEF ResendPrevious
<1> QED
  BY <1>3, <1>4, <1>5 DEF TimerExpired

LEMMA ClientType ==
  ASSUME TypeInv, ClientStep
  PROVE  TypeInv'
<1>1. /\ up \subseteq Datagram /\ down \subseteq Datagram
      /\ solving \subseteq Datagram
      /\ sent \in [Area -> 0 .. MaxSends]
  BY DEF TypeInv, TypeOK, NetTypeOK, ClientTypeOK
<1>2. UNCHANGED serverVars
  BY DEF ClientStep
<1>3. ASSUME NEW a \in Area, ClientSend(a)
      PROVE  TypeInv'
  <2>1. Packet(a, StartVec(a)) \in Datagram
    BY GridAssumption DEF Packet, StartVec, Datagram, Vec
  <2>2. sent' \in [Area -> 0 .. MaxSends]
    BY <1>1, <1>3, GridAssumption DEF ClientSend
  <2> QED
    BY <1>2, <1>3, <2>1, <2>2 DEF ClientSend, TypeInv, TypeOK, NetTypeOK,
       ServerTypeOK, ClientTypeOK, serverVars
<1>4. CASE ClientHandleRead
  <2>1. CASE Die /\ UNCHANGED clientVars
    BY <1>2, <2>1, DieType DEF serverVars, clientVars
  <2>2. ASSUME NEW p \in down,
               down' = down \ {p},
               solving' = solving \cup {Packet(p.area, Answer(p.vec))},
               UNCHANGED <<up, aborted, sent>>
        PROVE  TypeInv'
    <3>1. Packet(p.area, Answer(p.vec)) \in Datagram
      BY <1>1 DEF Packet, Answer, Datagram, Vec
    <3> QED
      BY <1>2, <2>2, <3>1 DEF TypeInv, TypeOK, NetTypeOK, ServerTypeOK,
         ClientTypeOK, serverVars
  <2> QED
    BY <1>4, <2>1, <2>2 DEF ClientHandleRead
<1>5. CASE SendPacket
  BY <1>2, <1>5 DEF SendPacket, TypeInv, TypeOK, NetTypeOK, ServerTypeOK,
     ClientTypeOK, serverVars
<1> QED
  BY <1>3, <1>4, <1>5 DEF ClientStep

----------------------------------------------------------------------------
(* Type correctness                                                        *)

LEMMA InitType == Init => TypeInv
<1> SUFFICES ASSUME Init PROVE TypeInv
  OBVIOUS
<1>1. NetTypeOK
  BY DEF Init, NetInit, NetTypeOK
<1>2. ServerTypeOK
  <2>1. EmptySlot \in Slot
    BY NoVecType DEF EmptySlot, Slot
  <2>2. 0 \in 0 .. total_of_node - 1 /\ 1 \in Round
    BY GridAssumption DEF Round
  <2> QED
    BY <2>1, <2>2 DEF Init, ServerInit, ServerTypeOK
<1>3. ClientTypeOK
  BY GridAssumption DEF Init, ClientInit, ClientTypeOK
<1> QED
  BY <1>1, <1>2, <1>3 DEF Init, ServerInit, TypeInv, TypeOK

LEMMA NextType == TypeInv /\ [Next]_vars => TypeInv'
<1> SUFFICES ASSUME TypeInv, [Next]_vars PROVE TypeInv'
  OBVIOUS
<1>1. CASE ServerStep
  BY <1>1, HandleReadType, TimerType DEF ServerStep
<1>2. CASE ClientStep
  BY <1>2, ClientType
<1>3. CASE Lose /\ UNCHANGED <<serverVars, clientVars>>
  BY <1>3 DEF Lose, LoseUp, LoseDown, TypeInv, TypeOK, NetTypeOK,
     ServerTypeOK, ClientTypeOK, serverVars, clientVars
<1>4. CASE UNCHANGED vars
  BY <1>4 DEF vars, netVars, serverVars, clientVars, TypeInv, TypeOK,
     NetTypeOK, ServerTypeOK, ClientTypeOK
<1> QED
  BY <1>1, <1>2, <1>3, <1>4 DEF Next

LEMMA TypeInvariant == Spec => []TypeInv
BY InitType, NextType, PTL DEF Spec

\* Every variable keeps its type; the client numbers the server hands out, and
\* gets back in the packets it stores, are indices of ClientData.
THEOREM TypeCorrect == Spec => []TypeOK
<1>1. TypeInv => TypeOK
  BY DEF TypeInv
<1> QED
  BY <1>1, TypeInvariant, PTL

----------------------------------------------------------------------------
(* The pending timers                                                      *)

\* Armed in rounds 2 to r, oldest first: what TimersBounded says of every
\* timer and every two of them.
Ordered(ts, r) ==
  /\ \A i \in DOMAIN ts : ts[i] \in 2 .. r
  /\ \A i, j \in DOMAIN ts : i <= j => ts[i] <= ts[j]

LEMMA TailOrdered ==
  ASSUME NEW ts \in Seq(Nat), ts # <<>>, NEW r \in Nat, Ordered(ts, r)
  PROVE  /\ Tail(ts) \in Seq(Nat)
         /\ Len(Tail(ts)) = Len(ts) - 1
         /\ Ordered(Tail(ts), r)
<1>1. /\ Tail(ts) \in Seq(Nat)
      /\ Len(Tail(ts)) = Len(ts) - 1
      /\ \A i \in 1 .. Len(ts) - 1 : Tail(ts)[i] = ts[i + 1]
  OBVIOUS
<1>2. DOMAIN Tail(ts) = 1 .. Len(ts) - 1 /\ DOMAIN ts = 1 .. Len(ts)
  BY <1>1
<1>3. \A i \in 1 .. Len(ts) - 1 : Tail(ts)[i] \in 2 .. r
  BY <1>1, <1>2 DEF Ordered
<1>4. ASSUME NEW i \in 1 .. Len(ts) - 1, NEW j \in 1 .. Len(ts) - 1, i <= j
      PROVE  Tail(ts)[i] <= Tail(ts)[j]
  <2>1. ts[i + 1] <= ts[j + 1]
    BY <1>2, <1>4 DEF Ordered
  <2> QED
    BY <1>1, <2>1
<1> QED
  BY <1>1, <1>2, <1>3, <1>4 DEF Ordered

LEMMA AppendOrdered ==
  ASSUME NEW ts \in Seq(Nat), NEW r \in Nat \ {0}, Ordered(ts, r)
  PROVE  /\ Append(ts, r + 1) \in Seq(Nat)
         /\ Len(Append(ts, r + 1)) = Len(ts) + 1
         /\ Append(ts, r + 1) # <<>>
         /\ Ordered(Append(ts, r + 1), r + 1)
<1> DEFINE new == Append(ts, r + 1)
<1>1. /\ new \in Seq(Nat) /\ Len(new) = Len(ts) + 1 /\ new # <<>>
      /\ \A i \in 1 .. Len(ts) : new[i] = ts[i]
      /\ new[Len(ts) + 1] = r + 1
  OBVIOUS
<1>2. DOMAIN new = 1 .. Len(ts) + 1 /\ DOMAIN ts = 1 .. Len(ts)
  BY <1>1
<1>3. \A i \in 1 .. Len(ts) : ts[i] \in 2 .. r
  BY <1>2 DEF Ordered
<1>4. \A i \in 1 .. Len(ts) + 1 : new[i] \in 2 .. r + 1
  BY <1>1, <1>3
<1>5. ASSUME NEW i \in 1 .. Len(ts) + 1, NEW j \in 1 .. Len(ts) + 1, i <= j
      PROVE  new[i] <= new[j]
  <2>1. CASE j = Len(ts) + 1
    BY <1>1, <1>4, <2>1
  <2>2. CASE j # Len(ts) + 1
    <3>1. i \in 1 .. Len(ts) /\ j \in 1 .. Len(ts)
      BY <1>5, <2>2
    <3>2. ts[i] <= ts[j]
      BY <1>2, <1>5, <3>1 DEF Ordered
    <3> QED
      BY <1>1, <3>1, <3>2
  <2> QED
    BY <2>1, <2>2
<1> QED
  BY <1>1, <1>2, <1>4, <1>5 DEF Ordered

\* The second timer TimerExpired arms after its calculation armed one.
LEMMA AppendSame ==
  ASSUME NEW ts \in Seq(Nat), NEW r \in Nat \ {0, 1}, Ordered(ts, r)
  PROVE  /\ Append(ts, r) \in Seq(Nat)
         /\ Len(Append(ts, r)) = Len(ts) + 1
         /\ Ordered(Append(ts, r), r)
<1> DEFINE new == Append(ts, r)
<1>1. /\ new \in Seq(Nat) /\ Len(new) = Len(ts) + 1
      /\ \A i \in 1 .. Len(ts) : new[i] = ts[i]
      /\ new[Len(ts) + 1] = r
  OBVIOUS
<1>2. DOMAIN new = 1 .. Len(ts) + 1 /\ DOMAIN ts = 1 .. Len(ts)
  BY <1>1
<1>3. \A i \in 1 .. Len(ts) : ts[i] \in 2 .. r
  BY <1>2 DEF Ordered
<1>4. \A i \in 1 .. Len(ts) + 1 : new[i] \in 2 .. r
  BY <1>1, <1>3
<1>5. ASSUME NEW i \in 1 .. Len(ts) + 1, NEW j \in 1 .. Len(ts) + 1, i <= j
      PROVE  new[i] <= new[j]
  <2>1. CASE j = Len(ts) + 1
    BY <1>1, <1>4, <2>1
  <2>2. CASE j # Len(ts) + 1
    <3>1. i \in 1 .. Len(ts) /\ j \in 1 .. Len(ts)
      BY <1>5, <2>2
    <3>2. ts[i] <= ts[j]
      BY <1>2, <1>5, <3>1 DEF Ordered
    <3> QED
      BY <1>1, <3>1, <3>2
  <2> QED
    BY <2>1, <2>2
<1> QED
  BY <1>1, <1>2, <1>4, <1>5 DEF Ordered

LEMMA TimersStep == TypeInv /\ TimersBounded /\ [Next]_vars => TimersBounded'
<1> SUFFICES ASSUME TypeInv, TimersBounded, [Next]_vars
             PROVE  TimersBounded'
  OBVIOUS
<1>1. /\ current_round \in Nat \ {0}
      /\ timers \in Seq(Nat)
      /\ Ordered(timers, current_round)
      /\ Len(timers) <= current_round - 1
  <2>1. Round \subseteq Nat \ {0}
    BY GridAssumption DEF Round
  <2>2. current_round \in Round /\ timers \in Seq(Round)
    BY DEF TypeInv, TypeOK, ServerTypeOK
  <2>3. timers \in Seq(Nat)
    BY <2>1, <2>2, SeqMonotonic
  <2> QED
    BY <2>1, <2>2, <2>3 DEF TimersBounded, Ordered
<1>2. CASE UNCHANGED <<timers, current_round>>
  BY <1>2 DEF TimersBounded
<1>3. CASE /\ current_round' = current_round + 1
           /\ timers' = Armed(timers)
  BY <1>1, <1>3, AppendOrdered DEF TimersBounded, Ordered, Armed
<1>4. ASSUME timers # <<>>
      PROVE  /\ Tail(timers) \in Seq(Nat)
             /\ Len(Tail(timers)) = Len(timers) - 1
             /\ Ordered(Tail(timers), current_round)
  BY <1>1, <1>4, TailOrdered
<1>5. CASE /\ timers # <<>>
           /\ current_round' = current_round + 1
           /\ timers' = Armed(Tail(timers))
  <2> DEFINE one == Armed(Tail(timers))
  <2>1. /\ Len(one) = Len(Tail(timers)) + 1
        /\ one # <<>>
        /\ Ordered(one, current_round + 1)
    BY <1>1, <1>4, <1>5, AppendOrdered DEF Armed
  <2>2. Len(one) <= current_round /\ Len(timers) \in Nat
    BY <1>1, <1>4, <1>5, <2>1
  <2> QED
    BY <1>1, <1>5, <2>1, <2>2 DEF TimersBounded, Ordered
<1>6. CASE /\ timers # <<>>
           /\ current_round' = current_round + 1
           /\ timers' = Armed(Armed(Tail(timers)))
  <2> DEFINE one == Armed(Tail(timers))
  <2>1. /\ one \in Seq(Nat)
        /\ Len(one) = Len(Tail(timers)) + 1
        /\ Ordered(one, current_round + 1)
    BY <1>1, <1>4, <1>6, AppendOrdered DEF Armed
  <2>2. current_round + 1 \in Nat \ {0, 1}
    BY <1>1
  <2>3. /\ Len(Armed(one)) = Len(one) + 1
        /\ Ordered(Armed(one), current_round + 1)
    BY <2>1, <2>2, AppendSame DEF Armed
  <2>4. Len(Armed(one)) <= current_round /\ Armed(one) # <<>>
    BY <1>1, <1>4, <1>6, <2>1, <2>3
  <2> QED
    BY <1>1, <1>6, <2>3, <2>4 DEF TimersBounded, Ordered
<1>7. CASE ServerHandleRead
  BY <1>2, <1>3, <1>7
  DEF ServerHandleRead, Ignore, Collect, Keep, Complete, CloseRound, serverVars,
      CalculateAndSendDataBackToAreas
<1>8. CASE TimerExpired
  BY <1>2, <1>5, <1>6, <1>8
  DEF TimerExpired, CalculateWithoutRest, Calculate, ResendInitial,
      ResendPrevious, Resend, ResendAs, CalculateAndSendDataBackToAreas,
      serverVars
<1> QED
  BY <1>2, <1>7, <1>8
  DEF Next, ServerStep, ClientStep, vars, serverVars

\* After round 1 a timer is always pending, so a silent round cannot last; and
\* although no timer is cancelled, there are never more than rounds opened.
THEOREM TimersLaw == Spec => []TimersBounded
<1>1. Init => TimersBounded
  BY DEF Init, ServerInit, TimersBounded
<1> QED
  BY <1>1, TimersStep, TypeInvariant, PTL DEF Spec

----------------------------------------------------------------------------
(* Nothing is ahead of its round                                           *)

UpTo(S, r) == \A p \in S : p.vec.round <= r

SlotsUpTo(data, r) ==
  \A k \in Area : data[k].vector.round <= r /\ data[k].initialVector.round <= r

LEMMA BroadcastUpTo ==
  ASSUME NEW data \in [Area -> Slot], NEW list, NEW r \in Nat,
         SlotsUpTo(data, r)
  PROVE  UpTo(Broadcast(data, list), r)
<1>1. LastSlots(data) \subseteq Area
  BY DEF LastSlots
<1>2. NoVec.round <= r
  BY DEF NoVec
<1> QED
  BY <1>1, <1>2 DEF Broadcast, Packet, UpTo, SlotsUpTo

LEMMA RestampedUpTo ==
  ASSUME NEW data \in [Area -> Slot], NEW list, NEW r \in Nat,
         SlotsUpTo(data, r)
  PROVE  SlotsUpTo(Restamped(data, list, r + 1), r + 1)
<1> SUFFICES ASSUME NEW k \in Area
             PROVE  LET s == Restamped(data, list, r + 1)[k] IN
                      s.vector.round <= r + 1 /\ s.initialVector.round <= r + 1
  BY DEF SlotsUpTo
<1>1. /\ data[k].vector.round \in Nat /\ data[k].vector.round <= r
      /\ data[k].initialVector.round \in Nat
      /\ data[k].initialVector.round <= r
  BY GridAssumption DEF SlotsUpTo, Slot, Vec
<1> QED
  BY <1>1 DEF Restamped, Slot, Vec

LEMMA CalculateUpTo ==
  ASSUME TypeInv, NothingFromTheFuture, current_round < MaxRound,
         NEW data \in [Area -> Slot], SlotsUpTo(data, current_round),
         NEW list \in Seq(Area), Distinct(list), NEW pending,
         CalculateAndSendDataBackToAreas(current_round, data, list, pending)
  PROVE  /\ current_round' = current_round + 1
         /\ UpTo(down', current_round + 1)
         /\ SlotsUpTo(ClientData', current_round + 1)
<1> DEFINE kept == Remembered(data)
           next == current_round + 1
<1>1. current_round \in Round /\ current_round \in Nat
  BY GridAssumption DEF TypeInv, TypeOK, ServerTypeOK, Round
<1>2. kept \in [Area -> Slot]
  BY RememberedType
<1>3. SlotsUpTo(kept, current_round)
  BY DEF Remembered, SlotsUpTo, Slot
<1>4. \A k \in Area : /\ kept[k].vector.round \in Nat
                       /\ kept[k].initialVector.round \in Nat
  BY <1>2, GridAssumption DEF Slot, Vec
<1>5. SlotsUpTo(kept, next)
  BY <1>1, <1>3, <1>4 DEF SlotsUpTo
<1>6. UpTo(down, next)
  <2>1. \A p \in down : p.vec.round \in Nat
    BY GridAssumption DEF TypeInv, TypeOK, NetTypeOK, Datagram, Vec
  <2> QED
    BY <1>1, <2>1 DEF UpTo, NothingFromTheFuture
<1>7. CASE ResendFirst(kept, list)
  <2> DEFINE out == Restamped(kept, list, next)
  <2>1. SlotsUpTo(out, next)
    BY <1>1, <1>2, <1>3, RestampedUpTo
  <2>2. next \in 0 .. MaxRound
    BY <1>1, GridAssumption DEF Round
  <2>3. out \in [Area -> Slot]
    BY <1>2, <2>2, RestampedType
  <2>4. UpTo(Broadcast(out, list), next)
    BY <1>1, <2>1, <2>3, BroadcastUpTo
  <2> QED
    BY <1>5, <1>6, <1>7, <2>4
    DEF ResendFirst, UpTo, CalculateAndSendDataBackToAreas
<1>8. CASE SolveAndSend(kept, list)
  <2> DEFINE out == Asked(kept, list)
  <2>1. out \in [Area -> Slot]
    BY <1>1, <1>2, AskedType
  <2>2. ASSUME NEW k \in Area
        PROVE  out[k].vector.round <= next /\ out[k].initialVector.round <= next
    <3>1. CASE kept[k].client \in Heard(list)
      <4>1. out[k] = [kept[k] EXCEPT !.vector = Request(kept, list, k)]
        BY <3>1 DEF Asked
      <4>2. Request(kept, list, k).round = next
        BY DEF Request
      <4>3. kept[k] \in Slot
        BY <1>2
      <4>4. /\ out[k].vector = Request(kept, list, k)
            /\ out[k].initialVector = kept[k].initialVector
        BY <4>1, <4>3 DEF Slot
      <4> QED
        BY <1>1, <1>5, <4>2, <4>4 DEF SlotsUpTo
    <3>2. CASE kept[k].client \notin Heard(list)
      BY <1>5, <3>2 DEF Asked, SlotsUpTo
    <3> QED
      BY <3>1, <3>2
  <2>3. SlotsUpTo(out, next)
    BY <2>2 DEF SlotsUpTo
  <2>4. UpTo(Broadcast(out, list), next)
    BY <1>1, <2>1, <2>3, BroadcastUpTo
  <2> QED
    BY <1>6, <1>8, <2>3, <2>4
    DEF SolveAndSend, UpTo, CalculateAndSendDataBackToAreas
<1> QED
  BY <1>7, <1>8 DEF CalculateAndSendDataBackToAreas

LEMMA FutureStep ==
  TypeInv /\ NothingFromTheFuture /\ [Next]_vars => NothingFromTheFuture'
<1> SUFFICES ASSUME TypeInv, NothingFromTheFuture, [Next]_vars
             PROVE  NothingFromTheFuture'
  OBVIOUS
<1> DEFINE r == current_round
<1>1. /\ r \in Nat \ {0} /\ r \in 0 .. MaxRound
      /\ ClientData \in [Area -> Slot]
      /\ addressList \in Seq(Area) /\ Distinct(addressList)
      /\ up \subseteq Datagram /\ down \subseteq Datagram
      /\ solving \subseteq Datagram
  BY GridAssumption DEF TypeInv, TypeOK, NetTypeOK, ServerTypeOK,
     ClientTypeOK, Round, Distinct
<1>2. /\ UpTo(up, r) /\ UpTo(down, r) /\ UpTo(solving, r)
      /\ SlotsUpTo(ClientData, r)
  BY DEF NothingFromTheFuture, UpTo, SlotsUpTo
<1>3. ASSUME UpTo(up', r'), UpTo(down', r'), UpTo(solving', r'),
             SlotsUpTo(ClientData', r')
      PROVE  NothingFromTheFuture'
  BY <1>3 DEF NothingFromTheFuture, UpTo, SlotsUpTo
<1>4. UpTo(up, r + 1) /\ UpTo(down, r + 1) /\ UpTo(solving, r + 1)
  BY <1>1, <1>2, GridAssumption DEF UpTo, Datagram, Vec
<1>5. CASE UNCHANGED <<up, down, solving, ClientData, current_round>>
  BY <1>5 DEF NothingFromTheFuture
<1>6. CASE ServerHandleRead /\ UNCHANGED clientVars
  <2> PICK p \in up : Ignore(p) \/ Collect(p) \/ Complete(p)
    BY <1>6 DEF ServerHandleRead
  <2>1. p.area \in Area /\ p.vec \in Vec /\ p.vec.round <= r
    BY <1>1, <1>2 DEF Datagram, UpTo
  <2>2. Stored(p.vec, p.area) \in [Area -> Slot]
    BY <1>1, <2>1, StoredType
  <2>3. SlotsUpTo(Stored(p.vec, p.area), r)
    BY <1>1, <1>2, <2>1 DEF SlotsUpTo, Stored, Filled, Slot
  <2>4. solving' = solving
    BY <1>6 DEF clientVars
  <2>5. CASE Ignore(p)
    BY <1>2, <1>3, <2>4, <2>5 DEF Ignore, UpTo, serverVars
  <2>6. CASE Collect(p)
    BY <1>2, <1>3, <2>3, <2>4, <2>6 DEF Collect, Keep, UpTo
  <2>7. CASE Complete(p)
    <3>1. CASE Die /\ UNCHANGED serverVars
      BY <1>5, <2>4, <3>1 DEF Die, serverVars
    <3>2. CASE /\ up' = up \ {p}
               /\ CalculateAndSendDataBackToAreas(current_round,
                    Stored(p.vec, p.area), Listed(p.area), timers)
      <4>1. current_round < MaxRound
        BY <2>7 DEF Complete, CloseRound
      <4>2. Listed(p.area) \in Seq(Area) /\ Distinct(Listed(p.area))
        BY <1>1, <2>1, ListedType
      <4>3. /\ r' = r + 1
            /\ UpTo(down', r + 1)
            /\ SlotsUpTo(ClientData', r + 1)
        BY <2>2, <2>3, <3>2, <4>1, <4>2, CalculateUpTo
      <4>4. UpTo(up', r + 1)
        BY <1>4, <3>2 DEF UpTo
      <4> QED
        BY <1>3, <1>4, <2>4, <4>3, <4>4
    <3> QED
      BY <2>7, <3>1, <3>2 DEF Complete, CloseRound
  <2> QED
    BY <2>5, <2>6, <2>7
<1>7. ASSUME NEW data \in [Area -> Slot], SlotsUpTo(data, r),
             Resend(data), UNCHANGED clientVars, r < MaxRound
      PROVE  NothingFromTheFuture'
  <2> DEFINE out == Restamped(data, addressList, r + 1)
  <2>1. r + 1 \in 0 .. MaxRound
    BY <1>1, <1>7, GridAssumption
  <2>2. out \in [Area -> Slot]
    BY <1>7, <2>1, RestampedType
  <2>3. SlotsUpTo(out, r + 1)
    BY <1>1, <1>7, RestampedUpTo
  <2>4. UpTo(Broadcast(out, addressList), r + 1)
    BY <1>1, <2>2, <2>3, BroadcastUpTo
  <2>5. /\ r' = r + 1
        /\ down' = down \cup Broadcast(out, addressList)
        /\ ClientData' = out
        /\ up' = up /\ solving' = solving
    BY <1>7 DEF Resend, ResendAs, clientVars
  <2>6. UpTo(down', r + 1)
    BY <1>4, <2>4, <2>5 DEF UpTo
  <2> QED
    BY <1>3, <1>4, <2>3, <2>5, <2>6
<1>8. CASE TimerExpired /\ UNCHANGED clientVars
  <2>1. r < MaxRound
    BY <1>8 DEF TimerExpired
  <2>2. CASE CalculateWithoutRest
    <3>1. CASE Die /\ UNCHANGED serverVars
      BY <1>5, <1>8, <3>1 DEF Die, serverVars, clientVars
    <3>2. CASE /\ CalculateAndSendDataBackToAreas(current_round, ClientData,
                    addressList, Armed(Tail(timers)))
               /\ UNCHANGED <<up, aborted>>
      <4>1. /\ r' = r + 1
            /\ UpTo(down', r + 1)
            /\ SlotsUpTo(ClientData', r + 1)
        BY <1>1, <1>2, <2>1, <3>2, CalculateUpTo
      <4>2. up' = up /\ solving' = solving
        BY <1>8, <3>2 DEF clientVars
      <4> QED
        BY <1>3, <1>4, <4>1, <4>2
    <3> QED
      BY <2>2, <3>1, <3>2 DEF CalculateWithoutRest, Calculate
  <2>3. CASE ResendInitial
    <3> DEFINE first == [k \in Area |->
          [ClientData[k] EXCEPT !.vector = ClientData[k].initialVector]]
    <3>1. first \in [Area -> Slot]
      BY <1>1 DEF Slot
    <3>2. SlotsUpTo(first, r)
      BY <1>1, <1>2 DEF SlotsUpTo, Slot
    <3>3. Resend(first)
      BY <2>3 DEF ResendInitial
    <3> QED
      BY <1>7, <1>8, <2>1, <3>1, <3>2, <3>3
  <2>4. CASE ResendPrevious
    BY <1>1, <1>2, <1>7, <1>8, <2>1, <2>4 DEF ResendPrevious
  <2> QED
    BY <1>8, <2>2, <2>3, <2>4 DEF TimerExpired
<1>9. CASE ClientStep
  <2>1. ClientData' = ClientData /\ r' = r
    BY <1>9 DEF ClientStep, serverVars
  <2>2. ASSUME NEW a \in Area, ClientSend(a)
        PROVE  NothingFromTheFuture'
    <3>1. Packet(a, StartVec(a)).vec.round <= r
      BY <1>1 DEF Packet, StartVec
    <3> QED
      BY <1>2, <1>3, <2>1, <2>2, <3>1 DEF ClientSend, UpTo
  <2>3. CASE ClientHandleRead
    <3>1. CASE Die /\ UNCHANGED clientVars
      BY <1>5, <2>1, <3>1 DEF Die, clientVars
    <3>2. ASSUME NEW p \in down,
                 down' = down \ {p},
                 solving' = solving \cup {Packet(p.area, Answer(p.vec))},
                 UNCHANGED up
          PROVE  NothingFromTheFuture'
      <4>1. Packet(p.area, Answer(p.vec)).vec.round <= r
        BY <1>2 DEF Packet, Answer, UpTo
      <4> QED
        BY <1>2, <1>3, <2>1, <3>2, <4>1 DEF UpTo
    <3> QED
      BY <2>3, <3>1, <3>2 DEF ClientHandleRead
  <2>4. CASE SendPacket
    BY <1>2, <1>3, <2>1, <2>4 DEF SendPacket, UpTo
  <2> QED
    BY <1>9, <2>2, <2>3, <2>4 DEF ClientStep
<1>10. CASE Lose /\ UNCHANGED <<serverVars, clientVars>>
  BY <1>2, <1>3, <1>10
  DEF Lose, LoseUp, LoseDown, UpTo, serverVars, clientVars
<1> QED
  BY <1>5, <1>6, <1>8, <1>9, <1>10
  DEF Next, ServerStep, vars, netVars, serverVars, clientVars

\* No packet, pending answer or stored vector is of a round not yet opened: a
\* packet HandleRead drops for its round is late for good.
THEOREM RoundsNotAhead == Spec => []NothingFromTheFuture
<1>1. Init => NothingFromTheFuture
  BY DEF Init, NetInit, ServerInit, ClientInit, EmptySlot, NoVec,
     NothingFromTheFuture
<1> QED
  BY <1>1, FutureStep, TypeInvariant, PTL DEF Spec
=============================================================================
