------------------------ MODULE PowerGridRoundProofs ------------------------
(***************************************************************************)
(* Theorems about the packets and slots of a round, for any number of      *)
(* areas and rounds, lossy or not, over the types and round numbers of     *)
(* PowerGridProofs.                                                        *)
(***************************************************************************)
EXTENDS PowerGridProofs

----------------------------------------------------------------------------
(* What opening a round sends                                              *)

\* Every slot of a client that was heard is of the round.
OfRound(out, list, r) ==
  \A k \in Area : out[k].client \in Heard(list) => out[k].vector.round = r

Opening(out, list) ==
  /\ current_round' = current_round + 1
  /\ down' = down \cup Broadcast(out, list)
  /\ up' \subseteq up /\ solving' = solving
  /\ OfRound(out, list, current_round + 1)

Quiet == /\ UNCHANGED <<current_round, down, solving>>
         /\ up' \subseteq up

LEMMA RestampedRound ==
  ASSUME NEW data \in [Area -> Slot], NEW list, NEW r \in 0 .. MaxRound
  PROVE  /\ OfRound(Restamped(data, list, r), list, r)
         /\ \A k \in Area : Restamped(data, list, r)[k].client = data[k].client
<1> SUFFICES ASSUME NEW k \in Area
             PROVE  /\ Restamped(data, list, r)[k].client = data[k].client
                    /\ data[k].client \in Heard(list)
                         => Restamped(data, list, r)[k].vector.round = r
  BY DEF OfRound
<1>1. data[k] \in Slot
  OBVIOUS
<1> QED
  BY <1>1 DEF Restamped, Slot, Vec

LEMMA AskedRound ==
  ASSUME NEW data \in [Area -> Slot], NEW list
  PROVE  /\ OfRound(Asked(data, list), list, current_round + 1)
         /\ \A k \in Area : Asked(data, list)[k].client = data[k].client
<1> SUFFICES ASSUME NEW k \in Area
             PROVE  /\ Asked(data, list)[k].client = data[k].client
                    /\ data[k].client \in Heard(list)
                         => Asked(data, list)[k].vector.round = current_round + 1
  BY DEF OfRound
<1>1. data[k] \in Slot
  OBVIOUS
<1>2. PICK v : v = Request(data, list, k)
  OBVIOUS
<1>3. v.round = current_round + 1
  BY <1>2 DEF Request
<1>4. Asked(data, list)[k] = IF data[k].client \in Heard(list)
                             THEN [data[k] EXCEPT !.vector = v] ELSE data[k]
  BY <1>2 DEF Asked
<1> QED
  BY <1>1, <1>3, <1>4 DEF Slot

\* A client gets one packet, whichever slots name it.
LEMMA BroadcastOnce ==
  ASSUME NEW out \in [Area -> Slot], NEW list, NEW r, OfRound(out, list, r)
  PROVE  /\ \A p, q \in Broadcast(out, list) : p.area = q.area => p = q
         /\ \A p \in Broadcast(out, list) : p.vec.round \in {0, r}
<1> DEFINE Ks == {k \in LastSlots(out) : out[k].client \in Heard(list)}
           As == {a \in Heard(list) : SlotsOf(out, a) = {}}
<1>1. ASSUME NEW p \in Broadcast(out, list)
      PROVE  \/ \E k \in Ks : p.area = out[k].client /\ p.vec = out[k].vector
                              /\ p = Packet(out[k].client, out[k].vector)
             \/ \E a \in As : p.area = a /\ p.vec = NoVec /\ p = Packet(a, NoVec)
  BY DEF Broadcast, Packet
<1>2. ASSUME NEW j \in Ks, NEW k \in Ks, out[j].client = out[k].client
      PROVE  j = k
  <2>1. j \in Nat /\ k \in Nat
    BY AreaFacts DEF LastSlots
  <2> QED
    BY <1>2, <2>1 DEF LastSlots
<1>3. ASSUME NEW k \in Ks, NEW a \in As
      PROVE  out[k].client # a
  BY DEF SlotsOf, LastSlots
<1>4. \A p, q \in Broadcast(out, list) : p.area = q.area => p = q
  BY <1>1, <1>2, <1>3
<1>5. \A k \in Ks : out[k].vector.round = r
  BY DEF OfRound, LastSlots
<1>6. \A p \in Broadcast(out, list) : p.vec.round \in {0, r}
  BY <1>1, <1>5 DEF NoVec
<1> QED
  BY <1>4, <1>6

LEMMA CalculateOpens ==
  ASSUME TypeInv, current_round < MaxRound, UNCHANGED solving, up' \subseteq up,
         NEW data \in [Area -> Slot], NEW list \in Seq(Area), Distinct(list),
         NEW pending, NEW round,
         CalculateAndSendDataBackToAreas(round, data, list, pending)
  PROVE  \E l : \E out \in [Area -> Slot] : Opening(out, l)
<1> DEFINE kept == Remembered(data)
<1>1. kept \in [Area -> Slot] /\ current_round + 1 \in 0 .. MaxRound
      /\ current_round \in Round
  BY RememberedType, GridAssumption DEF TypeInv, TypeOK, ServerTypeOK, Round
<1>2. current_round' = current_round + 1
  BY DEF CalculateAndSendDataBackToAreas
<1>3. CASE ResendFirst(kept, list)
  <2>1. PICK out : out = Restamped(kept, list, current_round + 1)
    OBVIOUS
  <2>2. out \in [Area -> Slot] /\ OfRound(out, list, current_round + 1)
    BY <1>1, <2>1, RestampedType, RestampedRound
  <2>3. down' = down \cup Broadcast(out, list)
    BY <1>3, <2>1 DEF ResendFirst
  <2> QED
    BY <1>2, <2>2, <2>3 DEF Opening
<1>4. CASE SolveAndSend(kept, list)
  <2>1. PICK out : out = Asked(kept, list)
    OBVIOUS
  <2>2. out \in [Area -> Slot] /\ OfRound(out, list, current_round + 1)
    BY <1>1, <2>1, AskedType, AskedRound
  <2>3. down' = down \cup Broadcast(out, list)
    BY <1>4, <2>1 DEF SolveAndSend
  <2> QED
    BY <1>2, <2>2, <2>3 DEF Opening
<1> QED
  BY <1>3, <1>4 DEF CalculateAndSendDataBackToAreas

LEMMA ResendOpens ==
  ASSUME TypeInv, current_round < MaxRound, UNCHANGED solving,
         NEW data \in [Area -> Slot], Resend(data)
  PROVE  \E l : \E out \in [Area -> Slot] : Opening(out, l)
<1>1. current_round + 1 \in 0 .. MaxRound
  BY GridAssumption DEF TypeInv, TypeOK, ServerTypeOK, Round
<1>2. PICK out, l : out = Restamped(data, addressList, current_round + 1) /\ l = addressList
  OBVIOUS
<1>3. out \in [Area -> Slot] /\ OfRound(out, l, current_round + 1)
  BY <1>1, <1>2, RestampedType, RestampedRound
<1>4. down' = down \cup Broadcast(out, l) /\ current_round' = current_round + 1 /\ up' = up
  BY <1>2 DEF Resend, ResendAs
<1> QED
  BY <1>3, <1>4 DEF Opening

LEMMA ServerSends ==
  ASSUME TypeInv, ServerStep
  PROVE  Quiet \/ \E l : \E out \in [Area -> Slot] : Opening(out, l)
<1>0. /\ UNCHANGED solving /\ ClientData \in [Area -> Slot]
      /\ addressList \in Seq(Area) /\ Distinct(addressList)
  BY DEF ServerStep, clientVars, TypeInv, TypeOK, ServerTypeOK, Distinct
<1>1. CASE ServerHandleRead
  <2>1. PICK p \in up : Ignore(p) \/ Collect(p) \/ Complete(p)
    BY <1>1 DEF ServerHandleRead
  <2>2. CASE Ignore(p) \/ Collect(p)
    BY <1>0, <2>2 DEF Quiet, Ignore, Collect, Keep, serverVars
  <2>3. CASE Complete(p)
    <3>1. CASE Die /\ UNCHANGED serverVars
      BY <1>0, <3>1 DEF Quiet, Die, serverVars
    <3>2. CASE /\ up' = up \ {p}
               /\ CalculateAndSendDataBackToAreas(current_round,
                    Stored(p.vec, p.area), Listed(p.area), timers)
      <4>1. p.area \in Area /\ p.vec \in Vec
        BY DEF TypeInv, TypeOK, NetTypeOK, Datagram
      <4>2. Stored(p.vec, p.area) \in [Area -> Slot]
        BY <1>0, <4>1, StoredType
      <4>3. current_round < MaxRound /\ up' \subseteq up
        BY <2>3, <3>2 DEF Complete, CloseRound
      <4>4. Listed(p.area) \in Seq(Area) /\ Distinct(Listed(p.area))
        BY <1>0, <4>1, ListedType
      <4> QED
        BY <1>0, <3>2, <4>2, <4>3, <4>4, CalculateOpens
    <3> QED
      BY <2>3, <3>1, <3>2 DEF Complete, CloseRound
  <2> QED
    BY <2>1, <2>2, <2>3
<1>2. CASE TimerExpired
  <2>1. current_round < MaxRound
    BY <1>2 DEF TimerExpired
  <2>2. CASE CalculateWithoutRest
    <3>1. CASE Die /\ UNCHANGED serverVars
      BY <1>0, <3>1 DEF Quiet, Die, serverVars
    <3>2. CASE /\ CalculateAndSendDataBackToAreas(current_round, ClientData,
                    addressList, Armed(Tail(timers)))
               /\ UNCHANGED <<up, aborted>>
      BY <1>0, <2>1, <3>2, CalculateOpens
    <3> QED
      BY <2>2, <3>1, <3>2 DEF CalculateWithoutRest, Calculate
  <2>3. CASE ResendInitial
    <3>1. PICK first : first = [k \in Area |->
            [ClientData[k] EXCEPT !.vector = ClientData[k].initialVector]]
      OBVIOUS
    <3>2. first \in [Area -> Slot] /\ Resend(first)
      BY <1>0, <2>3, <3>1 DEF ResendInitial, Slot
    <3> QED
      BY <1>0, <2>1, <3>2, ResendOpens
  <2>4. CASE ResendPrevious
    BY <1>0, <2>1, <2>4, ResendOpens DEF ResendPrevious
  <2> QED
    BY <1>2, <2>2, <2>3, <2>4 DEF TimerExpired
<1> QED
  BY <1>1, <1>2 DEF ServerStep

----------------------------------------------------------------------------
(* One packet per area and round                                           *)

\* Two packets of an area in a round it was asked in.
Same(p, q) == p.area = q.area /\ p.vec.round = q.vec.round /\ p.vec.round >= 2

Single(S) == \A p, q \in S : Same(p, q) => p = q
Apart(S, T) == \A p \in S, q \in T : ~Same(p, q)

OneInv ==
  /\ Single(down) /\ Single(solving) /\ Single(up)
  /\ Apart(down, solving) /\ Apart(down, up) /\ Apart(solving, up)

LEMMA OneOpens ==
  ASSUME TypeInv, NothingFromTheFuture, OneInv,
         NEW out \in [Area -> Slot], NEW l, Opening(out, l)
  PROVE  OneInv'
<1>1. PICK sentNow : sentNow = Broadcast(out, l)
  OBVIOUS
<1>2. PICK r : r = current_round + 1
  OBVIOUS
<1>3. /\ \A p, q \in sentNow : p.area = q.area => p = q
      /\ \A p \in sentNow : p.vec.round \in {0, r}
  BY <1>1, <1>2, BroadcastOnce DEF Opening
<1>4. current_round \in Nat /\ r \in Nat /\ r > current_round
  BY <1>2, GridAssumption DEF TypeInv, TypeOK, ServerTypeOK, Round
<1>5. \A p \in up \cup down \cup solving : p.vec.round # r
  BY <1>2, <1>4, GridAssumption
     DEF NothingFromTheFuture, TypeInv, TypeOK, NetTypeOK, ClientTypeOK, Datagram, Vec
<1>6. ASSUME NEW p \in sentNow, NEW q \in up \cup down \cup solving
      PROVE  ~Same(p, q) /\ ~Same(q, p)
  BY <1>3, <1>5 DEF Same
<1>7. down' = down \cup sentNow /\ solving' = solving /\ up' \subseteq up
  BY <1>1 DEF Opening
<1>8. Single(down')
  BY <1>3, <1>6, <1>7 DEF Single, Same, OneInv
<1>9. Apart(down', solving') /\ Apart(down', up')
  BY <1>6, <1>7 DEF Apart, OneInv
<1>10. Single(solving') /\ Single(up') /\ Apart(solving', up')
  BY <1>7 DEF Single, Apart, OneInv
<1> QED
  BY <1>8, <1>9, <1>10 DEF OneInv, Single, Apart

LEMMA OneStep ==
  TypeInv /\ NothingFromTheFuture /\ OneInv /\ [Next]_vars => OneInv'
<1> SUFFICES ASSUME TypeInv, NothingFromTheFuture, OneInv, [Next]_vars PROVE OneInv'
  OBVIOUS
<1>1. CASE down' \subseteq down /\ up' \subseteq up /\ solving' \subseteq solving
  BY <1>1 DEF OneInv, Single, Apart
<1>2. CASE ServerStep
  BY <1>1, <1>2, ServerSends, OneOpens DEF Quiet
<1>3. ASSUME NEW a \in Area, ClientSend(a)
      PROVE  OneInv'
  <2>1. PICK s : s = Packet(a, StartVec(a))
    OBVIOUS
  <2>2. s.vec.round = 1
    BY <2>1 DEF Packet, StartVec
  <2>3. \A q : ~Same(s, q) /\ ~Same(q, s)
    BY <2>2 DEF Same
  <2>4. up' = up \cup {s} /\ down' = down /\ solving' = solving
    BY <1>3, <2>1 DEF ClientSend
  <2> QED
    BY <2>3, <2>4 DEF OneInv, Single, Apart
<1>4. CASE ClientHandleRead
  <2>1. CASE Die /\ UNCHANGED clientVars
    BY <1>1, <2>1 DEF Die, clientVars
  <2>2. ASSUME NEW p \in down, down' = down \ {p},
               solving' = solving \cup {Packet(p.area, Answer(p.vec))}, UNCHANGED up
        PROVE  OneInv'
    <3>1. PICK s : s = Packet(p.area, Answer(p.vec))
      OBVIOUS
    <3>2. s.area = p.area /\ s.vec.round = p.vec.round
      BY <3>1 DEF Packet, Answer
    <3>3. \A q : /\ Same(s, q) => Same(p, q)
                 /\ Same(q, s) => Same(p, q)
      BY <3>2 DEF Same
    <3>4. \A q \in solving \cup up : ~Same(s, q) /\ ~Same(q, s)
      BY <3>3 DEF OneInv, Apart
    <3>5. \A q \in down' : ~Same(q, s)
      BY <2>2, <3>3 DEF OneInv, Single
    <3>6. down' \subseteq down /\ solving' = solving \cup {s} /\ up' = up
      BY <2>2, <3>1
    <3> QED
      BY <3>4, <3>5, <3>6 DEF OneInv, Single, Apart
  <2> QED
    BY <1>4, <2>1, <2>2 DEF ClientHandleRead
<1>5. CASE SendPacket
  <2>1. PICK s \in solving : solving' = solving \ {s} /\ up' = up \cup {s} /\ down' = down
    BY <1>5 DEF SendPacket
  <2>2. \A q \in up : ~Same(s, q) /\ ~Same(q, s)
    BY <2>1 DEF OneInv, Apart, Same
  <2>3. \A q \in solving' : ~Same(q, s)
    BY <2>1 DEF OneInv, Single
  <2>4. \A q \in down : ~Same(q, s)
    BY <2>1 DEF OneInv, Apart
  <2> QED
    BY <2>1, <2>2, <2>3, <2>4 DEF OneInv, Single, Apart
<1>6. CASE Lose /\ UNCHANGED clientVars
  BY <1>1, <1>6 DEF Lose, LoseUp, LoseDown, clientVars
<1> QED
  BY <1>1, <1>2, <1>3, <1>4, <1>5, <1>6
     DEF Next, ClientStep, Lose, LoseUp, LoseDown, vars, netVars, clientVars

LEMMA AtMostOne ==
  ASSUME NEW S, \A p, q \in S : p = q
  PROVE  Cardinality(S) = IF S = {} THEN 0 ELSE 1
<1>1. CASE S = {}
  BY <1>1, FS_EmptySet
<1>2. CASE S # {}
  <2>1. PICK p \in S : S = {p}
    BY <1>2
  <2> QED
    BY <1>2, <2>1, FS_Singleton
<1> QED
  BY <1>1, <1>2

\* A client is asked once in a round and answers once: however rounds overlap,
\* one packet of the round is under way for it at most.
THEOREM OnePacketHolds == Spec => []OnePacketPerAreaAndRound
<1>1. Init => OneInv
  BY DEF Init, NetInit, ClientInit, OneInv, Single, Apart
<1>2. OneInv => OnePacketPerAreaAndRound
  <2> SUFFICES ASSUME OneInv, NEW a \in Area, NEW r \in 2 .. MaxRound
               PROVE  Cardinality({p \in down : p.area = a /\ p.vec.round = r})
                        + Cardinality({p \in solving : p.area = a /\ p.vec.round = r})
                        + Cardinality({p \in up : p.area = a /\ p.vec.round = r}) <= 1
    BY DEF OnePacketPerAreaAndRound
  <2> DEFINE of(S) == {p \in S : p.area = a /\ p.vec.round = r}
  <2>1. PICK D, V, U : D = of(down) /\ V = of(solving) /\ U = of(up)
    OBVIOUS
  <2>2. \A p, q : (p.area = a /\ q.area = a /\ p.vec.round = r /\ q.vec.round = r) => Same(p, q)
    BY DEF Same
  <2>3. \A p, q \in D : p = q
    BY <2>1, <2>2 DEF OneInv, Single
  <2>4. \A p, q \in V : p = q
    BY <2>1, <2>2 DEF OneInv, Single
  <2>5. \A p, q \in U : p = q
    BY <2>1, <2>2 DEF OneInv, Single
  <2>6. (D = {} \/ V = {}) /\ (D = {} \/ U = {}) /\ (V = {} \/ U = {})
    BY <2>1, <2>2 DEF OneInv, Apart
  <2>7. /\ Cardinality(D) = IF D = {} THEN 0 ELSE 1
        /\ Cardinality(V) = IF V = {} THEN 0 ELSE 1
        /\ Cardinality(U) = IF U = {} THEN 0 ELSE 1
    BY <2>3, <2>4, <2>5, AtMostOne
  <2>8. Cardinality(D) + Cardinality(V) + Cardinality(U) <= 1
    BY <2>6, <2>7
  <2> QED
    BY <2>1, <2>8
<1> QED
  BY <1>1, <1>2, OneStep, RoundsNotAhead, TypeInvariant, PTL DEF Spec

----------------------------------------------------------------------------
(* Slots of the open round                                                 *)

\* Every slot written names a client that was heard; once round 1 is over every
\* slot is written, so the next round number goes into all of them.
SlotInv ==
  /\ \A k \in Area : ClientData[k].client \in Heard(addressList) \cup {NoArea}
  /\ \A k \in Area : ClientData[k].vector # NoVec => ClientData[k].client # NoArea
  /\ current_round > 1 => \A k \in Area : ClientData[k].client \in Heard(addressList)
  /\ NoMixedIterations

LEMMA HeardAreas == TypeInv => Heard(addressList) \subseteq Area
BY DEF Heard, TypeInv, TypeOK, ServerTypeOK

LEMMA ListedHeard ==
  ASSUME addressList \in Seq(Area), NEW a \in Area
  PROVE  Heard(Listed(a)) = Heard(addressList) \cup {a}
<1>1. CASE a \in Heard(addressList)
  BY <1>1 DEF Listed
<1>2. CASE a \notin Heard(addressList)
  <2>1. PICK n : n = Len(addressList)
    OBVIOUS
  <2>2. PICK list : list = Append(addressList, a)
    OBVIOUS
  <2>3. /\ DOMAIN list = 1 .. n + 1 /\ DOMAIN addressList = 1 .. n /\ n \in Nat
        /\ \A i \in 1 .. n : list[i] = addressList[i]
        /\ list[n + 1] = a
    BY <2>1, <2>2
  <2>4. 1 .. n + 1 = (1 .. n) \cup {n + 1}
    BY <2>3
  <2>5. {list[i] : i \in DOMAIN list} = {addressList[i] : i \in DOMAIN addressList} \cup {a}
    BY <2>3, <2>4
  <2>6. Listed(a) = list
    BY <1>2, <2>2 DEF Listed
  <2> QED
    BY <2>5, <2>6 DEF Heard
<1> QED
  BY <1>1, <1>2

\* The slots after a packet of the open round was stored.
LEMMA StoredSlots ==
  ASSUME TypeInv, SlotInv, NEW p \in up, p.vec.round = current_round
  PROVE  LET data == Stored(p.vec, p.area)
             list == Listed(p.area)
         IN /\ data \in [Area -> Slot]
            /\ list \in Seq(Area) /\ Distinct(list)
            /\ \A k \in Area : data[k].client \in Heard(list) \cup {NoArea}
            /\ \A k \in Area : data[k].vector # NoVec => data[k].client # NoArea
            /\ current_round > 1 => \A k \in Area : data[k].client \in Heard(list)
            /\ current_round > 2 => \A k \in Area : data[k].vector.round = current_round
<1> DEFINE v == p.vec
           a == p.area
<1>1. /\ a \in Area /\ v \in Vec /\ v.num \in Area
      /\ ClientData \in [Area -> Slot] /\ addressList \in Seq(Area) /\ Distinct(addressList)
  BY DEF TypeInv, TypeOK, NetTypeOK, ServerTypeOK, Datagram, Vec, Distinct
<1>2. PICK data : data = Stored(v, a)
  OBVIOUS
<1>3. PICK list : list = Listed(a)
  OBVIOUS
<1>4. data \in [Area -> Slot] /\ list \in Seq(Area) /\ Distinct(list)
  BY <1>1, <1>2, <1>3, StoredType, ListedType
<1>5. Heard(list) = Heard(addressList) \cup {a}
  BY <1>1, <1>3, ListedHeard
<1>6. ASSUME NEW k \in Area, k # v.num
      PROVE  data[k] = ClientData[k]
  BY <1>1, <1>2, <1>6 DEF Stored
<1>7. data[v.num].client = a /\ data[v.num].vector = v
  <2>1. ClientData[v.num] \in Slot
    BY <1>1
  <2>2. PICK slot : slot = ClientData[v.num]
    OBVIOUS
  <2>3. data[v.num] = Filled(slot, v, a)
    BY <1>1, <1>2, <2>2 DEF Stored
  <2>4. Filled(slot, v, a).client = a /\ Filled(slot, v, a).vector = v
    BY <2>1, <2>2 DEF Filled, Slot
  <2> QED
    BY <2>3, <2>4
<1>8. NoArea # a
  BY <1>1, AreaFacts
<1>9. ASSUME NEW k \in Area
      PROVE  /\ data[k].client \in Heard(list) \cup {NoArea}
             /\ data[k].vector # NoVec => data[k].client # NoArea
             /\ current_round > 1 => data[k].client \in Heard(list)
             /\ current_round > 2 => data[k].vector.round = current_round
  <2>1. CASE k = v.num
    BY <1>5, <1>7, <1>8, <2>1
  <2>2. CASE k # v.num
    BY <1>5, <1>6, <2>2 DEF SlotInv, NoMixedIterations
  <2> QED
    BY <2>1, <2>2
<1> QED
  BY <1>2, <1>3, <1>4, <1>9

\* What the calculation leaves when no round-1 slot was empty.
LEMMA CalculateSlots ==
  ASSUME TypeInv, current_round < MaxRound,
         NEW data \in [Area -> Slot], NEW list \in Seq(Area), Distinct(list), NEW pending,
         \A k \in Area : data[k].client \in Heard(list) \cup {NoArea},
         \A k \in Area : data[k].vector # NoVec => data[k].client # NoArea,
         current_round > 1 => \A k \in Area : data[k].client \in Heard(list),
         ~CalculationDies(current_round, Remembered(data)),
         CalculateAndSendDataBackToAreas(current_round, data, list, pending)
  PROVE  SlotInv'
<1>1. PICK kept : kept = Remembered(data)
  OBVIOUS
<1>2. \A k \in Area : kept[k].vector = data[k].vector /\ kept[k].client = data[k].client
  BY <1>1 DEF Remembered, Slot
<1>3. kept \in [Area -> Slot]
  BY <1>1, RememberedType
<1>4. current_round' = current_round + 1 /\ addressList' = list /\ current_round \in Nat \ {0}
  BY GridAssumption
     DEF CalculateAndSendDataBackToAreas, TypeInv, TypeOK, ServerTypeOK, Round
<1>5. Heard(list) \subseteq Area
  BY DEF Heard
<1>6. CASE current_round = 1
  <2>1. \A k \in Area : kept[k].vector # NoVec
    BY <1>1, <1>6 DEF CalculationDies, SlicingFaults
  <2>2. \A k \in Area : data[k].client \in Heard(list)
    BY <1>2, <2>1
  <2>3. ClientData' = kept
    BY <1>1, <1>6 DEF CalculateAndSendDataBackToAreas, ResendFirst
  <2>4. \A k \in Area : ClientData'[k].client \in Heard(list)
    BY <1>2, <2>2, <2>3
  <2>5. \A k \in Area : ClientData'[k].client # NoArea
    BY <1>5, <2>4, AreaFacts
  <2>6. current_round' = 2
    BY <1>4, <1>6
  <2> QED
    BY <1>4, <2>4, <2>5, <2>6 DEF SlotInv, NoMixedIterations
<1>7. CASE current_round > 1
  <2>1. PICK out : out = Asked(kept, list)
    OBVIOUS
  <2>2. ClientData' = out
    BY <1>1, <1>7, <2>1 DEF CalculateAndSendDataBackToAreas, SolveAndSend
  <2>3. OfRound(out, list, current_round + 1) /\ \A k \in Area : out[k].client = kept[k].client
    BY <1>3, <2>1, AskedRound
  <2>4. \A k \in Area : out[k].client \in Heard(list)
    BY <1>2, <1>7, <2>3
  <2>5. \A k \in Area : out[k].vector.round = current_round + 1 /\ out[k].client # NoArea
    BY <1>5, <2>3, <2>4, AreaFacts DEF OfRound
  <2> QED
    BY <1>4, <2>2, <2>4, <2>5 DEF SlotInv, NoMixedIterations
<1> QED
  BY <1>4, <1>6, <1>7

LEMMA ResendSlots ==
  ASSUME TypeInv, current_round > 1, current_round < MaxRound,
         NEW data \in [Area -> Slot],
         \A k \in Area : data[k].client \in Heard(addressList),
         Resend(data)
  PROVE  SlotInv'
<1>1. current_round + 1 \in 0 .. MaxRound
  BY GridAssumption DEF TypeInv, TypeOK, ServerTypeOK, Round
<1>2. PICK out : out = Restamped(data, addressList, current_round + 1)
  OBVIOUS
<1>3. /\ OfRound(out, addressList, current_round + 1)
      /\ \A k \in Area : out[k].client = data[k].client
  BY <1>1, <1>2, RestampedRound
<1>4. ClientData' = out /\ current_round' = current_round + 1 /\ addressList' = addressList
  BY <1>2 DEF Resend, ResendAs
<1>5. \A k \in Area : out[k].client \in Heard(addressList)
  BY <1>3
<1>6. \A k \in Area : out[k].vector.round = current_round + 1 /\ out[k].client # NoArea
  BY <1>3, <1>5, HeardAreas, AreaFacts DEF OfRound
<1> QED
  BY <1>4, <1>5, <1>6 DEF SlotInv, NoMixedIterations

LEMMA SlotStep ==
  TypeInv /\ TimersBounded /\ SlotInv /\ [Next]_vars => SlotInv'
<1> SUFFICES ASSUME TypeInv, TimersBounded, SlotInv, [Next]_vars PROVE SlotInv'
  OBVIOUS
<1>1. CASE UNCHANGED <<ClientData, addressList, current_round>>
  BY <1>1 DEF SlotInv, NoMixedIterations
<1>2. CASE ServerHandleRead
  <2>1. PICK p \in up : Ignore(p) \/ Collect(p) \/ Complete(p)
    BY <1>2 DEF ServerHandleRead
  <2>2. CASE Ignore(p)
    BY <1>1, <2>2 DEF Ignore, serverVars
  <2>3. CASE Collect(p)
    <3>1. /\ p.vec.round = current_round /\ current_round' = current_round
          /\ ClientData' = Stored(p.vec, p.area) /\ addressList' = Listed(p.area)
      BY <2>3 DEF Collect, Keep
    <3> QED
      BY <3>1, StoredSlots DEF SlotInv, NoMixedIterations
  <2>4. CASE Complete(p)
    <3>1. CASE Die /\ UNCHANGED serverVars
      BY <1>1, <3>1 DEF serverVars
    <3>2. CASE /\ ~CalculationDies(current_round, Remembered(Stored(p.vec, p.area)))
               /\ CalculateAndSendDataBackToAreas(current_round,
                    Stored(p.vec, p.area), Listed(p.area), timers)
      <4>1. p.vec.round = current_round /\ current_round < MaxRound
        BY <2>4 DEF Complete, CloseRound
      <4> QED
        BY <3>2, <4>1, StoredSlots, CalculateSlots
    <3> QED
      BY <2>4, <3>1, <3>2 DEF Complete, CloseRound
  <2> QED
    BY <2>1, <2>2, <2>3, <2>4
<1>3. CASE TimerExpired
  <2>1. current_round < MaxRound /\ current_round > 1
    <3>1. timers # <<>> /\ timers \in Seq(Round) /\ current_round \in Nat
      BY <1>3, GridAssumption DEF TimerExpired, TypeInv, TypeOK, ServerTypeOK, Round
    <3>2. Len(timers) > 0
      BY <3>1
    <3> QED
      BY <1>3, <3>1, <3>2 DEF TimerExpired, TimersBounded
  <2>2. /\ ClientData \in [Area -> Slot] /\ addressList \in Seq(Area) /\ Distinct(addressList)
        /\ \A k \in Area : ClientData[k].client \in Heard(addressList)
    BY <2>1 DEF TypeInv, TypeOK, ServerTypeOK, Distinct, SlotInv
  <2>3. CASE CalculateWithoutRest
    <3>1. CASE Die /\ UNCHANGED serverVars
      BY <1>1, <3>1 DEF serverVars
    <3>2. CASE /\ ~CalculationDies(current_round, Remembered(ClientData))
               /\ CalculateAndSendDataBackToAreas(current_round, ClientData,
                    addressList, Armed(Tail(timers)))
      BY <2>1, <2>2, <3>2, CalculateSlots DEF SlotInv
    <3> QED
      BY <2>3, <3>1, <3>2 DEF CalculateWithoutRest, Calculate
  <2>4. CASE ResendInitial
    <3>1. PICK first : first = [k \in Area |->
            [ClientData[k] EXCEPT !.vector = ClientData[k].initialVector]]
      OBVIOUS
    <3>2. first \in [Area -> Slot] /\ Resend(first)
      BY <2>2, <2>4, <3>1 DEF ResendInitial, Slot
    <3>3. \A k \in Area : first[k].client = ClientData[k].client
      BY <2>2, <3>1 DEF Slot
    <3> QED
      BY <2>1, <2>2, <3>2, <3>3, ResendSlots
  <2>5. CASE ResendPrevious
    BY <2>1, <2>2, <2>5, ResendSlots DEF ResendPrevious
  <2> QED
    BY <1>3, <2>3, <2>4, <2>5 DEF TimerExpired
<1> QED
  BY <1>1, <1>2, <1>3
     DEF Next, ServerStep, ClientStep, Lose, serverVars, vars

\* From round 3 on no two slots are of different rounds, whatever was late, lost
\* or sent again: an update never mixes two iterations.
THEOREM NoMixHolds == Spec => []NoMixedIterations
<1>1. Init => SlotInv
  <2> SUFFICES ASSUME Init PROVE SlotInv
    OBVIOUS
  <2>1. current_round = 1 /\ \A k \in Area : ClientData[k] = EmptySlot
    BY DEF Init, ServerInit
  <2> QED
    BY <2>1 DEF SlotInv, NoMixedIterations, EmptySlot
<1>2. SlotInv => NoMixedIterations
  BY DEF SlotInv
<1> QED
  BY <1>1, <1>2, SlotStep, TimersLaw, TypeInvariant, PTL DEF Spec
=============================================================================
