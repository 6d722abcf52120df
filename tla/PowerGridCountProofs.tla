------------------------ MODULE PowerGridCountProofs ------------------------
(***************************************************************************)
(* Theorems about what the server counts, numbers and asks, for any number *)
(* of areas and rounds, lossy or not: the slots are described once, by     *)
(* CountInv, and the remaining properties of PowerGrid follow from it.     *)
(***************************************************************************)
EXTENDS PowerGridRoundProofs

----------------------------------------------------------------------------
(* The numbers the server hands out                                        *)

\* A number for every area, none twice: its own index until the first
\* calculation, its place in the client list afterwards.
Numbering == {f \in [Area -> Area] : \A a, b \in Area : f[a] = f[b] => a = b}

HeldIn(data) ==
  {k \in Area : /\ data[k].vector.round = current_round
                /\ current_round = 1 \/ data[k].vector.form = "answer"}

Missed(data) == \E k \in Area : data[k].nbr_response <= 1

\* Slot k of a later round: it was filled in round 1, its vector is numbered as
\* its client is, and when it holds an answer it is the slot of that number.
FiledSlot(data, f, k) ==
  /\ data[k].client \in Area
  /\ data[k].vector.num = f[data[k].client]
  /\ data[k].nbr_response >= 1
  /\ data[k].initialVector.form = "request"
  /\ data[k].initialVector.num = k
  /\ data[k].initialVector.size = "whole"
  /\ IF k \in HeldIn(data)
     THEN data[k].vector.num = k /\ data[k].nbr_response = 2
     ELSE data[k].vector.form = "request"

Filed(data, f) == \A k \in Area : FiledSlot(data, f, k)

\* A packet of the open round is numbered as its area is, and is the only
\* answer to come from it.
PacketsFiled(S, data, f) ==
  \A p \in S : p.vec.round = current_round =>
    /\ p.vec.num = f[p.area]
    /\ \A k \in HeldIn(data) : data[k].client # p.area

\* Every slot is that of its client, as long as numbers are indices.
InPlace(data, f) == \A k \in Area : f[k] = k /\ data[k].client = k

OwnRequest(p) == /\ p.vec.form = "request"
                 /\ p.vec.num = p.area
                 /\ p.vec.size = "whole"

Whole(data) ==
  /\ \A k \in Area : data[k].vector.size = "whole"
  /\ \A p \in down : OwnRequest(p)

\* Before the first calculation, and ever after if the clients were heard in
\* order, slots are in place; then all vectors are whole until the duals are lost.
Placed(data, f) ==
  /\ Missed(data) \/ HeardInOrder => InPlace(data, f)
  /\ Missed(data) => duals = "whole"
  /\ (Missed(data) \/ HeardInOrder) /\ duals # "short" => Whole(data)

LaterRound(data, f) ==
  Filed(data, f) /\ PacketsFiled(up \cup down \cup solving, data, f) /\ Placed(data, f)

\* In round 1 a slot is empty or holds the start vector of its area, and the
\* counter is ahead of the slots written if a slot was written twice.
FirstSlot(data, k) ==
  \/ data[k].vector = NoVec /\ data[k].nbr_response = 0
  \/ /\ data[k].vector = StartVec(k)
     /\ data[k].client = k
     /\ data[k].nbr_response >= 1

Tallied(data, n) ==
  /\ \A k \in Area : FirstSlot(data, k)
  /\ Cardinality(HeldIn(data)) <= n
  /\ (\E k \in Area : data[k].nbr_response = 2) => Cardinality(HeldIn(data)) < n
  /\ MaxSends <= 1 => Cardinality(HeldIn(data)) = n

FirstRound ==
  /\ down = {} /\ solving = {}
  /\ \A p \in up : p = Packet(p.area, StartVec(p.area))
  /\ Tallied(ClientData, counter)
  /\ MaxSends <= 1 =>
       /\ \A p \in up : sent[p.area] # 0 /\ ClientData[p.area].vector = NoVec
       /\ \A a \in Area : sent[a] = 0 => ClientData[a].vector = NoVec

IsAnswer(v) == v.form = "answer" /\ v.size = "whole"

CountInv ==
  /\ \A p \in solving : IsAnswer(p.vec)
  /\ \A p \in up : p.vec.round >= 2 => IsAnswer(p.vec)
  /\ current_round = 1 => FirstRound
  /\ current_round > 1 =>
       /\ Heard(addressList) = Area
       /\ counter = Cardinality(HeldSlots)
       /\ \E f \in Numbering : LaterRound(ClientData, f)

----------------------------------------------------------------------------
(* Helpers                                                                 *)

LEMMA HeldFinite ==
  ASSUME NEW data
  PROVE  /\ IsFiniteSet(HeldIn(data))
         /\ Cardinality(HeldIn(data)) \in Nat
         /\ Cardinality(HeldIn(data)) <= total_of_node
         /\ Cardinality(HeldIn(data)) = total_of_node => HeldIn(data) = Area
<1>1. IsFiniteSet(Area) /\ Cardinality(Area) = total_of_node
  BY FS_Interval, GridAssumption DEF Area
<1>2. HeldIn(data) \in SUBSET Area
  BY DEF HeldIn
<1> QED
  BY <1>1, <1>2, FS_Subset, FS_CardinalityType

\* What is sent to a client is the vector of a slot that names it, or nothing.
LEMMA BroadcastSlots ==
  ASSUME NEW out \in [Area -> Slot], NEW list
  PROVE  \A p \in Broadcast(out, list) :
           \/ p.vec = NoVec
           \/ \E k \in Area : p.area = out[k].client /\ p.vec = out[k].vector
<1>1. LastSlots(out) \subseteq Area
  BY DEF LastSlots
<1> QED
  BY <1>1 DEF Broadcast, Packet

\* With every slot in its place, each client gets the vector of its own slot.
LEMMA BroadcastInPlace ==
  ASSUME NEW out \in [Area -> Slot], NEW list, Heard(list) = Area,
         \A k \in Area : out[k].client = k
  PROVE  Broadcast(out, list) = {Packet(k, out[k].vector) : k \in Area}
<1>1. LastSlots(out) = Area
  <2>1. \A j, k \in Area : j > k => j # k
    BY AreaFacts
  <2> QED
    BY <2>1 DEF LastSlots
<1>2. {a \in Heard(list) : SlotsOf(out, a) = {}} = {}
  BY DEF SlotsOf
<1>3. {k \in LastSlots(out) : out[k].client \in Heard(list)} = Area
  BY <1>1
<1> QED
  BY <1>2, <1>3 DEF Broadcast

----------------------------------------------------------------------------
(* Opening a round                                                         *)

\* Slots as a round opens: all are requests.
Fresh(data, f) ==
  \A k \in Area :
    /\ data[k].client \in Area
    /\ data[k].vector.num = f[data[k].client]
    /\ data[k].vector.form = "request"
    /\ data[k].nbr_response >= 1
    /\ data[k].initialVector.form = "request"
    /\ data[k].initialVector.num = k
    /\ data[k].initialVector.size = "whole"

\* The vectors that are sent are those that are kept, but for the round.
Alike(out, data) ==
  \A k \in Area : /\ out[k].client = data[k].client
                  /\ out[k].vector.form = data[k].vector.form
                  /\ out[k].vector.num = data[k].vector.num
                  /\ out[k].vector.size = data[k].vector.size

Opened(data, out, list, f) ==
  /\ current_round' = current_round + 1
  /\ counter' = 0
  /\ addressList' = list
  /\ ClientData' = data
  /\ down' = down \cup Broadcast(out, list)
  /\ up' \subseteq up /\ solving' = solving
  /\ Heard(list) = Area
  /\ Fresh(data, f)
  /\ Alike(out, data)
  /\ OfRound(out, list, current_round + 1)
  /\ Missed(data) \/ HeardInOrder' => InPlace(data, f)
  /\ Missed(data) => duals' = "whole"
  /\ (Missed(data) \/ HeardInOrder') /\ duals' # "short" => Whole(data)

LEMMA CountOpens ==
  ASSUME TypeInv, NothingFromTheFuture, CountInv,
         NEW f \in Numbering, NEW data \in [Area -> Slot], NEW out \in [Area -> Slot],
         NEW list, Opened(data, out, list, f)
  PROVE  CountInv'
<1>1. current_round \in Nat \ {0} /\ current_round' \in Nat /\ current_round' > 1
  BY GridAssumption DEF TypeInv, TypeOK, ServerTypeOK, Round, Opened
<1>2. HeldIn(ClientData)' = {}
  BY <1>1 DEF HeldIn, Opened, Fresh
<1>3. Filed(ClientData, f)'
  BY <1>2 DEF Filed, FiledSlot, Opened, Fresh
<1>4. PacketsFiled(up \cup down \cup solving, ClientData, f)'
  <2>1. ASSUME NEW p \in up \cup down \cup solving
        PROVE  p.vec.round # current_round'
    <3>1. p.vec.round \in Nat /\ p.vec.round <= current_round
      BY GridAssumption
         DEF NothingFromTheFuture, TypeInv, TypeOK, NetTypeOK, ClientTypeOK, Datagram, Vec
    <3> QED
      BY <1>1, <3>1 DEF Opened
  <2>2. ASSUME NEW p \in Broadcast(out, list), p.vec.round = current_round'
        PROVE  p.vec.num = f[p.area]
    <3>1. p.vec # NoVec
      BY <1>1, <2>2 DEF NoVec
    <3>2. PICK k \in Area : p.area = out[k].client /\ p.vec = out[k].vector
      BY <3>1, BroadcastSlots
    <3> QED
      BY <3>2 DEF Opened, Fresh, Alike
  <2>3. (up \cup down \cup solving)' \subseteq
          (up \cup down \cup solving) \cup Broadcast(out, list)
    BY DEF Opened
  <2> QED
    BY <1>2, <2>1, <2>2, <2>3 DEF PacketsFiled
<1>5. Placed(ClientData, f)'
  <2>1. ASSUME (Missed(data) \/ HeardInOrder') /\ duals' # "short"
        PROVE  \A p \in down' : OwnRequest(p)
    <3>1. \A p \in down : OwnRequest(p)
      BY <2>1 DEF Opened, Whole
    <3>2. InPlace(data, f) /\ Heard(list) = Area
      BY <2>1 DEF Opened
    <3>3. Broadcast(out, list) = {Packet(k, out[k].vector) : k \in Area}
      BY <3>2, BroadcastInPlace DEF Opened, Alike, InPlace
    <3>4. ASSUME NEW k \in Area
          PROVE  OwnRequest(Packet(k, out[k].vector))
      BY <2>1, <3>2 DEF Opened, Alike, Fresh, InPlace, Whole, OwnRequest, Packet
    <3> QED
      BY <3>1, <3>3, <3>4 DEF Opened
  <2> QED
    BY <2>1 DEF Placed, Opened, Missed, InPlace, Whole
<1>6. counter' = Cardinality(HeldSlots)'
  <2>1. HeldSlots' = HeldIn(ClientData)'
    BY DEF HeldSlots, HeldIn
  <2> QED
    BY <1>2, <2>1, FS_EmptySet DEF Opened
<1>7. \A p \in up' : p.vec.round >= 2 => IsAnswer(p.vec)
  BY DEF CountInv, Opened
<1>8. \A p \in solving' : IsAnswer(p.vec)
  BY DEF CountInv, Opened
<1>9. Heard(addressList)' = Area
  BY DEF Opened
<1> QED
  BY <1>1, <1>3, <1>4, <1>5, <1>6, <1>7, <1>8, <1>9 DEF CountInv, LaterRound, Numbering

----------------------------------------------------------------------------
(* Storing a packet                                                        *)

LEMMA StoredSlot ==
  ASSUME TypeInv, NEW p \in up
  PROVE  LET data == Stored(p.vec, p.area)
             n == p.vec.num
         IN /\ p.area \in Area /\ p.vec \in Vec /\ n \in Area
            /\ data \in [Area -> Slot]
            /\ data[n].vector = p.vec
            /\ data[n].client = p.area
            /\ data[n].initialVector = ClientData[n].initialVector
            /\ data[n].nbr_response = OneMore(ClientData[n].nbr_response)
            /\ \A k \in Area \ {n} : data[k] = ClientData[k]
            /\ \A k \in Area : ClientData[k].nbr_response \in 0 .. 2
<1>1. /\ p.area \in Area /\ p.vec \in Vec /\ p.vec.num \in Area
      /\ ClientData \in [Area -> Slot]
  BY DEF TypeInv, TypeOK, NetTypeOK, ServerTypeOK, Datagram, Vec
<1>2. PICK data, n : data = Stored(p.vec, p.area) /\ n = p.vec.num
  OBVIOUS
<1>3. data \in [Area -> Slot]
  BY <1>1, <1>2, StoredType
<1>4. PICK slot \in Slot : slot = ClientData[n]
  BY <1>1, <1>2
<1>5. data[n] = Filled(slot, p.vec, p.area)
  BY <1>1, <1>2, <1>4 DEF Stored
<1>6. \A k \in Area \ {n} : data[k] = ClientData[k]
  BY <1>1, <1>2 DEF Stored
<1>7. /\ data[n].vector = p.vec /\ data[n].client = p.area
      /\ data[n].initialVector = slot.initialVector
      /\ data[n].nbr_response = OneMore(slot.nbr_response)
  BY <1>5 DEF Filled, Slot
<1>8. \A k \in Area : ClientData[k].nbr_response \in 0 .. 2
  BY <1>1 DEF Slot
<1> QED
  BY <1>1, <1>2, <1>3, <1>4, <1>6, <1>7, <1>8

\* An answer to the open round of a later round fills the slot of its number,
\* which held none, and nothing else changes.
LEMMA StoredLater ==
  ASSUME TypeInv, OneInv, CountInv, current_round > 1,
         NEW p \in up, p.vec.round = current_round,
         NEW f \in Numbering, LaterRound(ClientData, f)
  PROVE  LET data == Stored(p.vec, p.area) IN
         /\ Listed(p.area) = addressList
         /\ p.vec.num \notin HeldIn(ClientData)
         /\ HeldIn(data) = HeldIn(ClientData) \cup {p.vec.num}
         /\ Cardinality(HeldIn(data)) = counter + 1
         /\ Filed(data, f)
         /\ Placed(data, f)
         /\ PacketsFiled((up \ {p}) \cup down \cup solving, data, f)
<1>1. PICK data, n, a : data = Stored(p.vec, p.area) /\ n = p.vec.num /\ a = p.area
  OBVIOUS
<1>2. /\ a \in Area /\ n \in Area /\ data \in [Area -> Slot]
      /\ data[n].vector = p.vec
      /\ data[n].client = a
      /\ data[n].initialVector = ClientData[n].initialVector
      /\ data[n].nbr_response = OneMore(ClientData[n].nbr_response)
      /\ \A k \in Area \ {n} : data[k] = ClientData[k]
      /\ \A k \in Area : ClientData[k].nbr_response \in 0 .. 2
  BY <1>1, StoredSlot
<1>3. current_round \in Nat /\ current_round >= 2
  BY GridAssumption DEF TypeInv, TypeOK, ServerTypeOK, Round
<1>4. p.vec.form = "answer" /\ p.vec.size = "whole"
  BY <1>3 DEF CountInv, IsAnswer
<1>5. n = f[a] /\ \A k \in HeldIn(ClientData) : ClientData[k].client # a
  BY <1>1 DEF LaterRound, PacketsFiled
<1>6. \A k \in Area : FiledSlot(ClientData, f, k)
  BY DEF LaterRound, Filed
<1>7. n \notin HeldIn(ClientData)
  <2> SUFFICES ASSUME n \in HeldIn(ClientData) PROVE FALSE
    OBVIOUS
  <2>1. ClientData[n].vector.num = n /\ ClientData[n].vector.num = f[ClientData[n].client]
        /\ ClientData[n].client \in Area
    BY <1>2, <1>6 DEF FiledSlot
  <2>2. ClientData[n].client = a
    BY <1>2, <1>5, <2>1 DEF Numbering
  <2> QED
    BY <1>5, <2>2
<1>8. HeldIn(data) = HeldIn(ClientData) \cup {n}
  BY <1>2, <1>4, <1>1 DEF HeldIn
<1>9. Cardinality(HeldIn(data)) = counter + 1
  <2>1. counter = Cardinality(HeldIn(ClientData))
    BY DEF CountInv, HeldSlots, HeldIn
  <2>2. IsFiniteSet(HeldIn(ClientData))
    BY HeldFinite
  <2> QED
    BY <1>7, <1>8, <2>1, <2>2, FS_AddElement
<1>10. Filed(data, f)
  <2> SUFFICES ASSUME NEW k \in Area PROVE FiledSlot(data, f, k)
    BY DEF Filed
  <2>1. FiledSlot(ClientData, f, k)
    BY <1>6
  <2>2. CASE k = n
    <3>1. ClientData[n].nbr_response \in 1 .. 2
      BY <1>2, <2>1, <2>2 DEF FiledSlot
    <3>2. data[n].nbr_response = 2
      BY <1>2, <3>1 DEF OneMore
    <3>3. n \in HeldIn(data)
      BY <1>8
    <3>4. data[n].client = a /\ data[n].vector.num = n /\ data[n].vector.num = f[a]
      BY <1>1, <1>2, <1>5
    <3>5. /\ ClientData[n].initialVector.form = "request"
          /\ ClientData[n].initialVector.num = n
          /\ ClientData[n].initialVector.size = "whole"
      BY <2>1, <2>2 DEF FiledSlot
    <3> QED
      BY <1>2, <2>2, <3>2, <3>3, <3>4, <3>5 DEF FiledSlot
  <2>3. CASE k # n
    BY <1>2, <1>8, <2>1, <2>3 DEF FiledSlot
  <2> QED
    BY <2>2, <2>3
<1>11. Missed(data) => Missed(ClientData)
  <2> SUFFICES ASSUME NEW k \in Area, data[k].nbr_response <= 1
               PROVE  ClientData[k].nbr_response <= 1
    BY DEF Missed
  <2> QED
    BY <1>2 DEF OneMore
<1>12. Placed(data, f)
  <2>1. InPlace(ClientData, f) => InPlace(data, f)
    BY <1>2, <1>5 DEF InPlace
  <2>2. Whole(ClientData) => Whole(data)
    BY <1>2, <1>4, <1>1 DEF Whole
  <2> QED
    BY <1>11, <2>1, <2>2 DEF LaterRound, Placed
<1>13. PacketsFiled((up \ {p}) \cup down \cup solving, data, f)
  <2> SUFFICES ASSUME NEW q \in (up \ {p}) \cup down \cup solving, q.vec.round = current_round
               PROVE  q.vec.num = f[q.area] /\ \A k \in HeldIn(data) : data[k].client # q.area
    BY DEF PacketsFiled
  <2>1. q.vec.num = f[q.area] /\ \A k \in HeldIn(ClientData) : ClientData[k].client # q.area
    BY DEF LaterRound, PacketsFiled
  <2>2. q.area # a
    <3> SUFFICES ASSUME q.area = a PROVE FALSE
      OBVIOUS
    <3>1. Same(p, q) /\ Same(q, p)
      BY <1>1, <1>3 DEF Same
    <3> QED
      BY <3>1 DEF OneInv, Single, Apart
  <2> QED
    BY <1>2, <1>7, <1>8, <2>1, <2>2 DEF HeldIn
<1>14. Listed(a) = addressList
  BY <1>2 DEF Listed, CountInv
<1> QED
  BY <1>1, <1>7, <1>8, <1>9, <1>10, <1>12, <1>13, <1>14

\* In round 1 the start vector of an area fills that area's slot.
LEMMA StoredFirst ==
  ASSUME TypeInv, CountInv, current_round = 1, NEW p \in up
  PROVE  LET data == Stored(p.vec, p.area) IN
         /\ p = Packet(p.area, StartVec(p.area))
         /\ Tallied(data, counter + 1)
<1>1. PICK data, a : data = Stored(p.vec, p.area) /\ a = p.area
  OBVIOUS
<1>2. FirstRound
  BY DEF CountInv
<1>3. p = Packet(a, StartVec(a)) /\ p.vec = StartVec(a) /\ p.vec.num = a /\ p.vec.round = 1
  BY <1>1, <1>2 DEF FirstRound, Packet, StartVec
<1>4. /\ a \in Area /\ data \in [Area -> Slot]
      /\ data[a].vector = StartVec(a)
      /\ data[a].client = a
      /\ data[a].nbr_response = OneMore(ClientData[a].nbr_response)
      /\ \A k \in Area \ {a} : data[k] = ClientData[k]
      /\ \A k \in Area : ClientData[k].nbr_response \in 0 .. 2
  BY <1>1, <1>3, StoredSlot
<1>5. \A k \in Area : FirstSlot(ClientData, k)
  BY <1>2 DEF FirstRound, Tallied
<1>6. \A k \in Area : FirstSlot(data, k)
  <2>1. data[a].nbr_response >= 1
    BY <1>4 DEF OneMore
  <2> QED
    BY <1>4, <1>5, <2>1 DEF FirstSlot
<1>7. HeldIn(data) = HeldIn(ClientData) \cup {a}
  BY <1>3, <1>4 DEF HeldIn, StartVec
<1>8. IsFiniteSet(HeldIn(ClientData)) /\ Cardinality(HeldIn(ClientData)) \in Nat
  BY HeldFinite
<1>9. Cardinality(HeldIn(data)) = IF a \in HeldIn(ClientData)
                                  THEN Cardinality(HeldIn(ClientData))
                                  ELSE Cardinality(HeldIn(ClientData)) + 1
  BY <1>7, <1>8, FS_AddElement
<1>10. a \in HeldIn(ClientData) <=> ClientData[a].vector # NoVec
  BY <1>4, <1>5 DEF HeldIn, FirstSlot, NoVec, StartVec
<1>11. counter \in Nat
  BY GridAssumption DEF TypeInv, TypeOK, ServerTypeOK
<1>12. MaxSends <= 1 => Cardinality(HeldIn(data)) = counter + 1
  BY <1>1, <1>2, <1>9, <1>10 DEF FirstRound, Tallied
<1>13. Cardinality(HeldIn(data)) <= counter + 1
  BY <1>2, <1>8, <1>9, <1>11 DEF FirstRound, Tallied
<1>14. ASSUME NEW k \in Area, data[k].nbr_response = 2
       PROVE  Cardinality(HeldIn(data)) < counter + 1
  <2>1. CASE ClientData[k].nbr_response = 2
    BY <1>2, <1>8, <1>9, <1>11, <2>1 DEF FirstRound, Tallied
  <2>2. CASE ClientData[k].nbr_response # 2
    <3>1. k = a /\ ClientData[a].nbr_response = 1
      BY <1>4, <1>14, <2>2 DEF OneMore
    <3>2. a \in HeldIn(ClientData)
      BY <1>4, <1>5, <1>10, <3>1 DEF FirstSlot, StartVec, NoVec
    <3> QED
      BY <1>2, <1>8, <1>9, <1>11, <3>2 DEF FirstRound, Tallied
  <2> QED
    BY <2>1, <2>2
<1> QED
  BY <1>1, <1>3, <1>6, <1>12, <1>13, <1>14 DEF Tallied

----------------------------------------------------------------------------
(* The ways a round opens                                                  *)

Opens ==
  \E list : \E f \in Numbering : \E data, out \in [Area -> Slot] : Opened(data, out, list, f)

LEMMA RememberedSlot ==
  ASSUME NEW data \in [Area -> Slot], NEW k \in Area
  PROVE  /\ Remembered(data)[k].client = data[k].client
         /\ Remembered(data)[k].vector = data[k].vector
         /\ Remembered(data)[k].nbr_response = data[k].nbr_response
         /\ data[k].nbr_response \in 0 .. 2
         /\ data[k].nbr_response <= 1 => Remembered(data)[k].initialVector = data[k].vector
         /\ data[k].nbr_response = 2 => Remembered(data)[k] = data[k]
BY DEF Remembered, Slot

LEMMA RestampedAlike ==
  ASSUME NEW data \in [Area -> Slot], NEW list, NEW r \in 0 .. MaxRound
  PROVE  /\ Restamped(data, list, r) \in [Area -> Slot]
         /\ Alike(Restamped(data, list, r), data)
         /\ \A k \in Area :
              /\ Restamped(data, list, r)[k].nbr_response = data[k].nbr_response
              /\ Restamped(data, list, r)[k].initialVector = data[k].initialVector
<1> SUFFICES ASSUME NEW k \in Area, NEW s \in Slot, s = data[k]
             PROVE  LET t == Restamped(data, list, r)[k] IN
                    /\ t.client = s.client
                    /\ t.vector.form = s.vector.form
                    /\ t.vector.num = s.vector.num
                    /\ t.vector.size = s.vector.size
                    /\ t.nbr_response = s.nbr_response
                    /\ t.initialVector = s.initialVector
  BY RestampedType DEF Alike
<1> QED
  BY DEF Restamped, Slot, Vec

LEMMA StartFields ==
  ASSUME NEW k
  PROVE  /\ StartVec(k).form = "request" /\ StartVec(k).num = k
         /\ StartVec(k).size = "whole" /\ StartVec(k).round = 1
BY DEF StartVec

LEMMA RequestFields ==
  ASSUME NEW data, NEW list, NEW k
  PROVE  LET v == Request(data, list, k) IN
         /\ v.form = "request"
         /\ v.num = ArrivalIndex(list, data[k].client)
         /\ Solved(data) /\ (\A j \in Area : j < k => data[j].client # data[k].client)
              => v.size = "whole"
BY DEF Request

\* Round 1 ends alive with every slot filled once, by its own area.
LEMMA FirstOpens ==
  ASSUME TypeInv, SlotInv, CountInv, current_round = 1, current_round < MaxRound,
         NEW p \in up, p.vec.round = current_round, up' = up \ {p}, UNCHANGED solving,
         counter + 1 = total_of_node, counter' = 0,
         ~CalculationDies(current_round, Remembered(Stored(p.vec, p.area))),
         CalculateAndSendDataBackToAreas(current_round, Stored(p.vec, p.area),
                                         Listed(p.area), timers)
  PROVE  Opens
<1>1. PICK data, list : data = Stored(p.vec, p.area) /\ list = Listed(p.area)
  OBVIOUS
<1>2. /\ data \in [Area -> Slot]
      /\ \A k \in Area : data[k].client \in Heard(list) \cup {NoArea}
      /\ list \in Seq(Area)
  BY <1>1, StoredSlots
<1>3. Tallied(data, counter + 1)
  BY <1>1, StoredFirst
<1>4. PICK kept : kept = Remembered(data)
  OBVIOUS
<1>5. kept \in [Area -> Slot]
  BY <1>2, <1>4, RememberedType
<1>6. ASSUME NEW k \in Area
      PROVE  data[k].vector = StartVec(k) /\ data[k].client = k /\ data[k].nbr_response >= 1
  <2>1. kept[k].vector # NoVec
    BY <1>1, <1>4 DEF CalculationDies, SlicingFaults
  <2>2. data[k].vector # NoVec
    BY <1>2, <1>4, <2>1, RememberedSlot
  <2> QED
    BY <1>3, <2>2 DEF Tallied, FirstSlot
<1>7. HeldIn(data) = Area
  <2>1. \A k \in Area : data[k].vector.round = 1
    BY <1>6, StartFields
  <2> QED
    BY <2>1 DEF HeldIn
<1>8. Cardinality(Area) = total_of_node /\ total_of_node \in Nat
  BY FS_Interval, GridAssumption DEF Area
<1>9. \A k \in Area : data[k].nbr_response = 1
  <2> SUFFICES ASSUME NEW k \in Area PROVE data[k].nbr_response = 1
    OBVIOUS
  <2>1. data[k].nbr_response # 2
    BY <1>3, <1>7, <1>8 DEF Tallied
  <2> QED
    BY <1>2, <1>6, <2>1, RememberedSlot
<1>10. \A k \in Area : /\ kept[k].vector = StartVec(k) /\ kept[k].client = k
                       /\ kept[k].nbr_response = 1 /\ kept[k].initialVector = StartVec(k)
  BY <1>2, <1>4, <1>6, <1>9, RememberedSlot
<1>11. Heard(list) = Area
  <2>1. Heard(list) \subseteq Area
    BY <1>2 DEF Heard
  <2>2. \A k \in Area : k \in Heard(list)
    BY <1>2, <1>6, AreaFacts
  <2> QED
    BY <2>1, <2>2
<1>12. PICK out : out = Restamped(kept, list, current_round + 1)
  OBVIOUS
<1>13. current_round + 1 \in 0 .. MaxRound
  BY GridAssumption
<1>14. /\ out \in [Area -> Slot] /\ Alike(out, kept)
       /\ OfRound(out, list, current_round + 1)
  BY <1>5, <1>12, <1>13, RestampedAlike, RestampedRound
<1>15. PICK f : f = [k \in Area |-> k]
  OBVIOUS
<1>16. f \in Numbering
  BY <1>15 DEF Numbering
<1>17. Fresh(kept, f) /\ InPlace(kept, f)
  BY <1>10, <1>15, StartFields DEF Fresh, InPlace
<1>18. Whole(kept)
  BY <1>10, StartFields DEF Whole, CountInv, FirstRound
<1>19. /\ current_round' = current_round + 1 /\ addressList' = list
       /\ ClientData' = kept /\ duals' = "whole"
       /\ down' = down \cup Broadcast(out, list)
  BY <1>1, <1>4, <1>12 DEF CalculateAndSendDataBackToAreas, ResendFirst
<1>20. Opened(kept, out, list, f)
  BY <1>11, <1>14, <1>17, <1>18, <1>19 DEF Opened
<1> QED
  BY <1>5, <1>14, <1>16, <1>20 DEF Opens

\* A calculation numbers the clients by their places in the list.
LEMMA SolveOpens ==
  ASSUME TypeInv, current_round > 1, current_round < MaxRound, Heard(addressList) = Area,
         NEW f \in Numbering, NEW data \in [Area -> Slot],
         Filed(data, f), Placed(data, f), ~Missed(data),
         up' \subseteq up, UNCHANGED solving, counter' = 0, NEW pending,
         CalculateAndSendDataBackToAreas(current_round, data, addressList, pending)
  PROVE  Opens
<1>1. PICK list \in Seq(Area) : list = addressList /\ Distinct(list)
  BY DEF TypeInv, TypeOK, ServerTypeOK, Distinct
<1>2. Heard(list) = Area
  BY <1>1
<1>3. Remembered(data) = data
  <2>1. \A k \in Area : data[k].nbr_response = 2
    BY RememberedSlot DEF Missed
  <2>2. Remembered(data) = [k \in Area |-> data[k]]
    BY <2>1 DEF Remembered
  <2> QED
    BY <2>2
<1>4. PICK g : g = [a \in Area |-> ArrivalIndex(list, a)]
  OBVIOUS
<1>5. g \in Numbering
  <2>1. \A a \in Area : ArrivalIndex(list, a) \in Area
    BY <1>1, <1>2, ArrivalIndexType
  <2>2. ASSUME NEW a \in Area PROVE \E i \in DOMAIN list : list[i] = a /\ i = g[a] + 1
    <3>1. \E i \in DOMAIN list : list[i] = a
      BY <1>2 DEF Heard
    <3>2. PICK i : i = CHOOSE j \in DOMAIN list : list[j] = a
      OBVIOUS
    <3>3. i \in DOMAIN list /\ list[i] = a
      BY <3>1, <3>2
    <3>4. g[a] = i - 1 /\ i \in Nat
      BY <1>1, <1>4, <3>2, <3>3 DEF ArrivalIndex
    <3> QED
      BY <3>3, <3>4
  <2>3. \A a, b \in Area : g[a] = g[b] => a = b
    BY <2>2
  <2> QED
    BY <1>4, <2>1, <2>3 DEF Numbering
<1>6. PICK out : out = Asked(data, list)
  OBVIOUS
<1>7. current_round \in Round
  BY DEF TypeInv, TypeOK, ServerTypeOK
<1>8. out \in [Area -> Slot] /\ OfRound(out, list, current_round + 1)
  BY <1>1, <1>6, <1>7, AskedType, AskedRound
<1>9. ASSUME NEW k \in Area
      PROVE  /\ out[k].client = data[k].client
             /\ out[k].vector = Request(data, list, k)
             /\ out[k].initialVector = data[k].initialVector
             /\ out[k].nbr_response = data[k].nbr_response
             /\ data[k].client \in Area
  <2>1. data[k].client \in Heard(list)
    BY <1>2 DEF Filed, FiledSlot
  <2>2. PICK v : v = Request(data, list, k)
    OBVIOUS
  <2>3. out[k] = [data[k] EXCEPT !.vector = v]
    BY <1>6, <2>1, <2>2 DEF Asked
  <2> QED
    BY <1>2, <2>1, <2>2, <2>3 DEF Slot
<1>10. Fresh(out, g)
  <2> SUFFICES ASSUME NEW k \in Area
               PROVE  /\ out[k].client \in Area
                      /\ out[k].vector.num = g[out[k].client]
                      /\ out[k].vector.form = "request"
                      /\ out[k].nbr_response >= 1
                      /\ out[k].initialVector.form = "request"
                      /\ out[k].initialVector.num = k
                      /\ out[k].initialVector.size = "whole"
    BY DEF Fresh
  <2>1. /\ out[k].vector.form = "request"
        /\ out[k].vector.num = ArrivalIndex(list, data[k].client)
    BY <1>9, RequestFields
  <2>2. FiledSlot(data, f, k)
    BY DEF Filed
  <2> QED
    BY <1>4, <1>9, <2>1, <2>2 DEF FiledSlot
<1>11. ~Missed(out)
  BY <1>9 DEF Missed
<1>12. /\ current_round' = current_round + 1 /\ addressList' = list
       /\ ClientData' = out /\ down' = down \cup Broadcast(out, list)
       /\ duals' = IF Solved(data) THEN "whole" ELSE "short"
  BY <1>1, <1>3, <1>6 DEF CalculateAndSendDataBackToAreas, SolveAndSend
<1>13. HeardInOrder' => HeardInOrder
  BY <1>1, <1>12 DEF HeardInOrder
<1>14. HeardInOrder' => InPlace(out, g)
  <2> SUFFICES ASSUME HeardInOrder', NEW k \in Area
               PROVE  g[k] = k /\ out[k].client = k
    BY DEF InPlace
  <2>1. out[k].client = k
    BY <1>9, <1>13 DEF Placed, InPlace
  <2>2. \A i \in DOMAIN list : list[i] = i - 1 /\ i \in Nat
    BY <1>1, <1>12 DEF HeardInOrder
  <2>3. PICK i : i = CHOOSE j \in DOMAIN list : list[j] = k
    OBVIOUS
  <2>4. i \in DOMAIN list /\ list[i] = k
    BY <1>2, <2>3 DEF Heard
  <2>5. g[k] = i - 1
    BY <1>4, <2>3 DEF ArrivalIndex
  <2> QED
    BY <2>1, <2>2, <2>4, <2>5
<1>15. HeardInOrder' /\ duals' # "short" => Whole(out)
  <2> SUFFICES ASSUME HeardInOrder', duals' # "short" PROVE Whole(out)
    OBVIOUS
  <2>1. Solved(data) /\ duals = "whole"
    BY <1>12 DEF Solved
  <2>2. Whole(data) /\ InPlace(data, f)
    BY <1>13, <2>1 DEF Placed
  <2>3. \A j, k \in Area : j < k => data[j].client # data[k].client
    BY <2>2, AreaFacts DEF InPlace
  <2>4. \A k \in Area : out[k].vector.size = "whole"
    BY <1>9, <2>1, <2>3, RequestFields
  <2> QED
    BY <2>2, <2>4 DEF Whole
<1>16. Opened(out, out, list, g)
  BY <1>2, <1>8, <1>10, <1>11, <1>12, <1>14, <1>15 DEF Opened, Alike
<1> QED
  BY <1>5, <1>8, <1>16 DEF Opens

LEMMA ResendCounts ==
  ASSUME TypeInv, current_round < MaxRound, Heard(addressList) = Area,
         UNCHANGED solving,
         NEW f \in Numbering, NEW data \in [Area -> Slot], Fresh(data, f),
         Missed(data) \/ HeardInOrder => InPlace(data, f),
         Missed(data) => duals = "whole",
         (Missed(data) \/ HeardInOrder) /\ duals # "short" => Whole(data),
         Resend(data)
  PROVE  Opens
<1>1. PICK list : list = addressList
  OBVIOUS
<1>2. PICK out : out = Restamped(data, list, current_round + 1)
  OBVIOUS
<1>3. current_round + 1 \in 0 .. MaxRound
  BY GridAssumption DEF TypeInv, TypeOK, ServerTypeOK, Round
<1>4. /\ out \in [Area -> Slot] /\ OfRound(out, list, current_round + 1)
      /\ \A k \in Area : /\ out[k].client = data[k].client
                         /\ out[k].vector.form = data[k].vector.form
                         /\ out[k].vector.num = data[k].vector.num
                         /\ out[k].vector.size = data[k].vector.size
                         /\ out[k].nbr_response = data[k].nbr_response
                         /\ out[k].initialVector = data[k].initialVector
  BY <1>2, <1>3, RestampedAlike, RestampedRound DEF Alike
<1>5. Fresh(out, f)
  BY <1>4 DEF Fresh
<1>6. /\ Missed(out) => Missed(data)
      /\ InPlace(data, f) => InPlace(out, f)
      /\ Whole(data) => Whole(out)
  BY <1>4 DEF Missed, InPlace, Whole
<1>7. /\ current_round' = current_round + 1 /\ counter' = 0 /\ addressList' = list
      /\ ClientData' = out /\ down' = down \cup Broadcast(out, list)
      /\ up' = up /\ duals' = duals
  BY <1>1, <1>2 DEF Resend, ResendAs
<1>8. HeardInOrder' => HeardInOrder
  BY <1>1, <1>7 DEF HeardInOrder
<1>9. Opened(out, out, list, f)
  BY <1>1, <1>4, <1>5, <1>6, <1>7, <1>8 DEF Opened, Alike
<1> QED
  BY <1>4, <1>9 DEF Opens

----------------------------------------------------------------------------
(* The invariant                                                           *)

AllInv == TypeInv /\ TimersBounded /\ NothingFromTheFuture /\ OneInv /\ SlotInv /\ CountInv

LEMMA CompleteOpens ==
  ASSUME AllInv, UNCHANGED clientVars, NEW p \in up, Complete(p),
         ~CalculationDies(current_round, Remembered(Stored(p.vec, p.area)))
  PROVE  /\ Opens
         /\ up' = up \ {p} /\ UNCHANGED aborted
         /\ CalculateAndSendDataBackToAreas(current_round, Stored(p.vec, p.area),
                                            Listed(p.area), timers)
<1>1. /\ p.vec.round = current_round /\ counter + 1 = total_of_node
      /\ current_round < MaxRound
      /\ up' = up \ {p} /\ counter' = 0 /\ UNCHANGED aborted
      /\ CalculateAndSendDataBackToAreas(current_round, Stored(p.vec, p.area),
                                         Listed(p.area), timers)
  BY DEF Complete, CloseRound
<1>2. UNCHANGED solving /\ current_round \in Nat \ {0}
  BY GridAssumption DEF clientVars, AllInv, TypeInv, TypeOK, ServerTypeOK, Round
<1>3. CASE current_round = 1
  BY <1>1, <1>2, <1>3, FirstOpens DEF AllInv
<1>4. CASE current_round > 1
  <2>1. PICK f \in Numbering : LaterRound(ClientData, f)
    BY <1>4 DEF AllInv, CountInv
  <2>2. PICK data : data = Stored(p.vec, p.area)
    OBVIOUS
  <2>3. /\ Listed(p.area) = addressList
        /\ Cardinality(HeldIn(data)) = total_of_node
        /\ Filed(data, f) /\ Placed(data, f)
    BY <1>1, <1>4, <2>1, <2>2, StoredLater DEF AllInv
  <2>4. data \in [Area -> Slot]
    BY <2>2, StoredSlot DEF AllInv
  <2>5. \A k \in Area : data[k].nbr_response = 2
    BY <2>3, HeldFinite DEF Filed, FiledSlot
  <2>6. ~Missed(data)
    BY <2>5 DEF Missed
  <2>7. Heard(addressList) = Area
    BY <1>4 DEF AllInv, CountInv
  <2> QED
    BY <1>1, <1>2, <1>4, <2>2, <2>3, <2>4, <2>6, <2>7, SolveOpens DEF AllInv
<1> QED
  BY <1>1, <1>2, <1>3, <1>4

LEMMA TimerOpens ==
  ASSUME AllInv, UNCHANGED clientVars, TimerExpired
  PROVE  /\ current_round > 1
         /\ \/ Opens
            \/ /\ CalculateWithoutRest
               /\ CalculationDies(current_round, Remembered(ClientData))
               /\ Die /\ UNCHANGED serverVars
<1>1. current_round > 1 /\ current_round < MaxRound
  <2>1. timers # <<>> /\ timers \in Seq(Round) /\ current_round \in Nat
    BY GridAssumption DEF TimerExpired, AllInv, TypeInv, TypeOK, ServerTypeOK, Round
  <2>2. Len(timers) > 0
    BY <2>1
  <2> QED
    BY <2>1, <2>2 DEF TimerExpired, AllInv, TimersBounded
<1>2. /\ UNCHANGED solving /\ Heard(addressList) = Area /\ ClientData \in [Area -> Slot]
      /\ counter = Cardinality(HeldIn(ClientData))
  BY <1>1 DEF clientVars, AllInv, CountInv, TypeInv, TypeOK, ServerTypeOK, HeldSlots, HeldIn
<1>3. PICK f \in Numbering : LaterRound(ClientData, f)
  BY <1>1 DEF AllInv, CountInv
<1>4. Filed(ClientData, f) /\ Placed(ClientData, f)
  BY <1>3 DEF LaterRound
<1>5. CASE CalculateWithoutRest
  <2>1. ~Missed(ClientData)
    BY <1>5 DEF CalculateWithoutRest, SomeoneMissedFirstRound, Missed
  <2>2. CASE ~CalculationDies(current_round, Remembered(ClientData))
    <3>1. /\ counter' = 0 /\ up' = up
          /\ CalculateAndSendDataBackToAreas(current_round, ClientData, addressList,
                                             Armed(Tail(timers)))
      BY <1>5, <2>2 DEF CalculateWithoutRest, Calculate
    <3> QED
      BY <1>1, <1>2, <1>4, <2>1, <3>1, SolveOpens DEF AllInv
  <2>3. CASE CalculationDies(current_round, Remembered(ClientData))
    BY <1>1, <1>5, <2>3 DEF CalculateWithoutRest, Calculate
  <2> QED
    BY <1>1, <2>2, <2>3
<1>6. CASE ResendInitial
  <2>1. PICK first : first = [k \in Area |->
          [ClientData[k] EXCEPT !.vector = ClientData[k].initialVector]]
    OBVIOUS
  <2>2. \A k \in Area : /\ first[k] \in Slot
                        /\ first[k].vector = ClientData[k].initialVector
                        /\ first[k].initialVector = ClientData[k].initialVector
                        /\ first[k].client = ClientData[k].client
                        /\ first[k].nbr_response = ClientData[k].nbr_response
    BY <1>2, <2>1 DEF Slot
  <2>3. first \in [Area -> Slot]
    BY <2>1, <2>2
  <2>4. Missed(ClientData)
    BY <1>6 DEF ResendInitial, SomeoneMissedFirstRound, Missed
  <2>5. InPlace(ClientData, f) /\ duals = "whole" /\ Whole(ClientData)
    BY <1>4, <2>4 DEF Placed
  <2>6. Fresh(first, f) /\ InPlace(first, f) /\ Whole(first)
    BY <1>4, <2>2, <2>5 DEF Filed, FiledSlot, Fresh, InPlace, Whole
  <2>7. Resend(first)
    BY <1>6, <2>1 DEF ResendInitial
  <2> QED
    BY <1>1, <1>2, <2>3, <2>5, <2>6, <2>7, ResendCounts DEF AllInv
<1>7. CASE ResendPrevious
  <2>1. HeldIn(ClientData) = {}
    BY <1>2, <1>7, HeldFinite, FS_EmptySet DEF ResendPrevious
  <2>2. Fresh(ClientData, f)
    BY <1>4, <2>1 DEF Filed, FiledSlot, Fresh
  <2> QED
    BY <1>1, <1>2, <1>4, <1>7, <2>2, ResendCounts DEF AllInv, ResendPrevious, Placed
<1> QED
  BY <1>1, <1>5, <1>6, <1>7 DEF TimerExpired

\* Within a round: packets may go and the client's own may come, while the
\* server changes nothing.
LEMMA CountPackets ==
  ASSUME CountInv, UNCHANGED serverVars, current_round \in Nat \ {0},
         down' \subseteq down,
         \A p \in solving' : IsAnswer(p.vec),
         \A p \in up' : p.vec.round >= 2 => IsAnswer(p.vec),
         \A q \in up' \cup down' \cup solving' : q.vec.round > 1 =>
           \E p \in up \cup down \cup solving :
             p.area = q.area /\ p.vec.round = q.vec.round /\ p.vec.num = q.vec.num,
         current_round = 1 => FirstRound'
  PROVE  CountInv'
<1>1. UNCHANGED <<counter, current_round, addressList, ClientData, duals>>
  BY DEF serverVars
<1>2. ASSUME current_round > 1, NEW f \in Numbering, LaterRound(ClientData, f)
      PROVE  LaterRound(ClientData, f)'
  <2>1. Filed(ClientData, f)'
    BY <1>1, <1>2 DEF LaterRound, Filed, FiledSlot, HeldIn
  <2>2. PacketsFiled(up \cup down \cup solving, ClientData, f)'
    BY <1>1, <1>2 DEF LaterRound, PacketsFiled, HeldIn
  <2>3. Placed(ClientData, f)'
    BY <1>1, <1>2 DEF LaterRound, Placed, Missed, HeardInOrder, InPlace, Whole
  <2> QED
    BY <2>1, <2>2, <2>3 DEF LaterRound
<1>3. current_round' > 1 => counter' = Cardinality(HeldSlots)'
  BY <1>1 DEF CountInv, HeldSlots
<1>4. current_round' > 1 => Heard(addressList)' = Area
  BY <1>1 DEF CountInv
<1> QED
  BY <1>1, <1>2, <1>3, <1>4 DEF CountInv, Numbering

LEMMA HandleReadCounts ==
  ASSUME AllInv, ServerHandleRead, UNCHANGED clientVars
  PROVE  CountInv'
<1>1. /\ current_round \in Nat \ {0} /\ counter \in Nat
      /\ UNCHANGED <<sent, solving>> /\ CountInv
  BY GridAssumption DEF AllInv, TypeInv, TypeOK, ServerTypeOK, Round, clientVars
<1>2. PICK p \in up : Ignore(p) \/ Collect(p) \/ Complete(p)
  BY DEF ServerHandleRead
<1>3. ASSUME UNCHANGED serverVars, UNCHANGED down, up' \subseteq up PROVE CountInv'
  <2>1. current_round = 1 => FirstRound'
    BY <1>1, <1>3 DEF CountInv, FirstRound, Tallied, FirstSlot, HeldIn, serverVars
  <2> QED
    BY <1>1, <1>3, <2>1, CountPackets DEF CountInv
<1>4. CASE Ignore(p)
  BY <1>3, <1>4 DEF Ignore
<1>5. CASE Collect(p)
  <2>1. PICK data : data = Stored(p.vec, p.area)
    OBVIOUS
  <2>2. /\ p.vec.round = current_round /\ up' = up \ {p} /\ counter' = counter + 1
        /\ ClientData' = data /\ addressList' = Listed(p.area)
        /\ UNCHANGED <<down, current_round, duals>>
    BY <1>5, <2>1 DEF Collect, Keep
  <2>3. \A q \in up' : q.vec.round >= 2 => IsAnswer(q.vec)
    BY <1>1, <2>2 DEF CountInv
  <2>4. CASE current_round = 1
    <3>1. p = Packet(p.area, StartVec(p.area)) /\ Tallied(data, counter + 1)
      BY <1>1, <2>1, <2>4, StoredFirst DEF AllInv
    <3>2. FirstRound
      BY <1>1, <2>4 DEF CountInv
    <3>3. p.vec.num = p.area
      BY <3>1, StartFields DEF Packet
    <3>4. \A k \in Area \ {p.area} : data[k] = ClientData[k]
      BY <2>1, <3>3, StoredSlot DEF AllInv
    <3>5. \A q \in up' : q = Packet(q.area, StartVec(q.area)) /\ q.area # p.area /\ q.area \in Area
      <4> SUFFICES ASSUME NEW q \in up'
                   PROVE  q = Packet(q.area, StartVec(q.area)) /\ q.area # p.area /\ q.area \in Area
        OBVIOUS
      <4>1. q \in up /\ q # p
        BY <2>2
      <4> QED
        BY <3>1, <3>2, <4>1 DEF FirstRound, AllInv, TypeInv, TypeOK, NetTypeOK, Datagram
    <3>6. ASSUME MaxSends <= 1
          PROVE  /\ \A q \in up' : sent[q.area] # 0 /\ data[q.area].vector = NoVec
                 /\ \A a \in Area : sent[a] = 0 => data[a].vector = NoVec
      <4>1. \A q \in up' : sent[q.area] # 0 /\ data[q.area].vector = NoVec
        BY <2>2, <3>2, <3>4, <3>5, <3>6 DEF FirstRound
      <4>2. p.area \in Area /\ sent[p.area] # 0
        BY <3>2, <3>6 DEF FirstRound, AllInv, TypeInv, TypeOK, NetTypeOK, Datagram
      <4> QED
        BY <3>2, <3>4, <3>6, <4>1, <4>2 DEF FirstRound
    <3>7. Tallied(ClientData, counter)'
      BY <2>2, <3>1 DEF Tallied, FirstSlot, HeldIn
    <3>8. FirstRound'
      BY <1>1, <2>2, <3>2, <3>5, <3>6, <3>7 DEF FirstRound
    <3> QED
      BY <1>1, <2>2, <2>3, <2>4, <3>8 DEF CountInv
  <2>5. CASE current_round > 1
    <3>1. PICK f \in Numbering : LaterRound(ClientData, f)
      BY <1>1, <2>5 DEF CountInv
    <3>2. /\ Listed(p.area) = addressList
          /\ Cardinality(HeldIn(data)) = counter + 1
          /\ Filed(data, f) /\ Placed(data, f)
          /\ PacketsFiled((up \ {p}) \cup down \cup solving, data, f)
      BY <2>1, <2>2, <2>5, <3>1, StoredLater DEF AllInv
    <3>3. Filed(ClientData, f)' /\ counter' = Cardinality(HeldSlots)'
      BY <2>2, <3>2 DEF Filed, FiledSlot, HeldIn, HeldSlots
    <3>4. Placed(ClientData, f)'
      BY <2>2, <3>2 DEF Placed, Missed, HeardInOrder, InPlace, Whole
    <3>5. PacketsFiled(up \cup down \cup solving, ClientData, f)'
      BY <1>1, <2>2, <3>2 DEF PacketsFiled, HeldIn
    <3>6. Heard(addressList)' = Area
      BY <1>1, <2>2, <2>5, <3>2 DEF CountInv
    <3> QED
      BY <1>1, <2>2, <2>3, <2>5, <3>3, <3>4, <3>5, <3>6 DEF CountInv, LaterRound, Numbering
  <2> QED
    BY <1>1, <2>4, <2>5
<1>6. CASE Complete(p)
  <2>1. CASE CalculationDies(current_round, Remembered(Stored(p.vec, p.area)))
    <3>1. Die /\ UNCHANGED serverVars
      BY <1>6, <2>1 DEF Complete, CloseRound
    <3> QED
      BY <1>3, <3>1 DEF Die
  <2>2. CASE ~CalculationDies(current_round, Remembered(Stored(p.vec, p.area)))
    BY <1>6, <2>2, CompleteOpens, CountOpens DEF Opens, AllInv
  <2> QED
    BY <2>1, <2>2
<1> QED
  BY <1>2, <1>4, <1>5, <1>6

LEMMA ClientCounts ==
  ASSUME AllInv, ClientStep
  PROVE  CountInv'
<1>1. /\ current_round \in Nat \ {0} /\ CountInv /\ UNCHANGED serverVars
      /\ sent \in [Area -> 0 .. MaxSends] /\ MaxSends \in Nat
  BY GridAssumption
     DEF AllInv, TypeInv, TypeOK, ServerTypeOK, ClientTypeOK, Round, ClientStep
<1>2. UNCHANGED <<ClientData, counter, current_round>>
  BY <1>1 DEF serverVars
<1>3. current_round = 1 => FirstRound /\ Tallied(ClientData, counter)'
  BY <1>1, <1>2 DEF CountInv, FirstRound, Tallied, FirstSlot, HeldIn
<1>4. ASSUME NEW a \in Area, ClientSend(a) PROVE CountInv'
  <2>1. PICK s : s = Packet(a, StartVec(a))
    OBVIOUS
  <2>2. s.area = a /\ s.vec.round = 1 /\ s = Packet(s.area, StartVec(s.area))
    BY <2>1, StartFields DEF Packet
  <2>3. /\ up' = up \cup {s} /\ UNCHANGED <<down, solving>> /\ sent[a] < MaxSends
        /\ sent' = [sent EXCEPT ![a] = @ + 1]
    BY <1>4, <2>1 DEF ClientSend
  <2>4. current_round = 1 => FirstRound'
    <3> SUFFICES ASSUME current_round = 1 PROVE FirstRound'
      OBVIOUS
    <3>1. FirstRound
      BY <1>3
    <3>2. ASSUME MaxSends <= 1
          PROVE  /\ ClientData[a].vector = NoVec
                 /\ sent'[a] # 0
                 /\ \A b \in Area : sent'[b] = 0 => sent[b] = 0
                 /\ \A b \in Area : sent[b] # 0 => sent'[b] # 0
      <4>1. sent[a] = 0
        BY <1>1, <2>3, <3>2
      <4> QED
        BY <1>1, <2>3, <3>1, <3>2, <4>1 DEF FirstRound
    <3>3. up \subseteq Datagram
      BY DEF AllInv, TypeInv, TypeOK, NetTypeOK
    <3> QED
      BY <1>2, <1>3, <2>2, <2>3, <3>1, <3>2, <3>3 DEF FirstRound, Datagram
  <2> QED
    BY <1>1, <2>2, <2>3, <2>4, CountPackets DEF CountInv
<1>5. CASE ClientHandleRead
  <2>1. CASE Die /\ UNCHANGED clientVars
    <3>1. UNCHANGED <<up, down, solving, sent>>
      BY <2>1 DEF Die, clientVars
    <3>2. current_round = 1 => FirstRound'
      BY <1>2, <1>3, <3>1 DEF FirstRound
    <3> QED
      BY <1>1, <3>1, <3>2, CountPackets DEF CountInv
  <2>2. ASSUME NEW p \in down, down' = down \ {p},
               solving' = solving \cup {Packet(p.area, Answer(p.vec))},
               UNCHANGED <<up, sent>>
        PROVE  CountInv'
    <3>1. PICK s : s = Packet(p.area, Answer(p.vec))
      OBVIOUS
    <3>2. s.area = p.area /\ s.vec.round = p.vec.round /\ s.vec.num = p.vec.num /\ IsAnswer(s.vec)
      BY <3>1 DEF Packet, Answer, IsAnswer
    <3>3. current_round # 1
      BY <1>3, <2>2 DEF FirstRound
    <3> QED
      BY <1>1, <2>2, <3>1, <3>2, <3>3, CountPackets DEF CountInv
  <2> QED
    BY <1>5, <2>1, <2>2 DEF ClientHandleRead
<1>6. CASE SendPacket
  <2>1. PICK s \in solving : solving' = solving \ {s} /\ up' = up \cup {s}
                             /\ UNCHANGED <<down, sent>>
    BY <1>6 DEF SendPacket
  <2>2. current_round # 1
    BY <1>3, <2>1 DEF FirstRound
  <2> QED
    BY <1>1, <2>1, <2>2, CountPackets DEF CountInv
<1> QED
  BY <1>4, <1>5, <1>6 DEF ClientStep

LEMMA CountStep == AllInv /\ [Next]_vars => CountInv'
<1> SUFFICES ASSUME AllInv, [Next]_vars PROVE CountInv'
  OBVIOUS
<1>1. CountInv /\ current_round \in Nat \ {0}
  BY GridAssumption DEF AllInv, TypeInv, TypeOK, ServerTypeOK, Round
<1>2. ASSUME UNCHANGED <<serverVars, clientVars>>, up' \subseteq up, down' \subseteq down
      PROVE  CountInv'
  <2>1. current_round = 1 => FirstRound'
    BY <1>1, <1>2
       DEF CountInv, FirstRound, Tallied, FirstSlot, HeldIn, serverVars, clientVars
  <2> QED
    BY <1>1, <1>2, <2>1, CountPackets DEF CountInv, clientVars
<1>3. CASE ServerHandleRead /\ UNCHANGED clientVars
  BY <1>3, HandleReadCounts
<1>4. CASE TimerExpired /\ UNCHANGED clientVars
  <2>1. CASE Opens
    BY <2>1, CountOpens DEF Opens, AllInv
  <2>2. CASE Die /\ UNCHANGED serverVars
    BY <1>2, <1>4, <2>2 DEF Die
  <2> QED
    BY <1>4, <2>1, <2>2, TimerOpens
<1>5. CASE ClientStep
  BY <1>5, ClientCounts
<1>6. CASE Lose /\ UNCHANGED <<serverVars, clientVars>>
  BY <1>2, <1>6 DEF Lose, LoseUp, LoseDown
<1> QED
  BY <1>2, <1>3, <1>4, <1>5, <1>6 DEF Next, ServerStep, vars, netVars

LEMMA InitAll == Init => AllInv
<1> SUFFICES ASSUME Init PROVE AllInv
  OBVIOUS
<1>1. TypeInv
  BY InitType
<1>2. /\ current_round = 1 /\ counter = 0 /\ timers = <<>> /\ ClientData = [k \in Area |-> EmptySlot]
      /\ up = {} /\ down = {} /\ solving = {}
  BY DEF Init, NetInit, ServerInit, ClientInit
<1>3. \A k \in Area : /\ ClientData[k].vector = NoVec /\ ClientData[k].initialVector = NoVec
                      /\ ClientData[k].client = NoArea /\ ClientData[k].nbr_response = 0
  BY <1>2 DEF EmptySlot
<1>4. TimersBounded
  BY <1>2 DEF TimersBounded
<1>5. NothingFromTheFuture
  BY <1>2, <1>3 DEF NothingFromTheFuture, NoVec
<1>6. OneInv
  BY <1>2 DEF OneInv, Single, Apart
<1>7. SlotInv
  BY <1>2, <1>3 DEF SlotInv, NoMixedIterations
<1>8. HeldIn(ClientData) = {}
  BY <1>2, <1>3 DEF HeldIn, NoVec
<1>9. Tallied(ClientData, counter)
  <2>1. Cardinality(HeldIn(ClientData)) = 0
    BY <1>8, FS_EmptySet
  <2>2. \A k \in Area : FirstSlot(ClientData, k) /\ ClientData[k].nbr_response # 2
    BY <1>3 DEF FirstSlot
  <2> QED
    BY <1>2, <2>1, <2>2 DEF Tallied
<1>10. CountInv
  BY <1>2, <1>3, <1>9 DEF CountInv, FirstRound
<1> QED
  BY <1>1, <1>4, <1>5, <1>6, <1>7, <1>10 DEF AllInv

LEMMA NextAll == AllInv /\ [Next]_vars => AllInv'
BY NextType, TimersStep, FutureStep, OneStep, SlotStep, CountStep DEF AllInv

LEMMA AllInvariant == Spec => []AllInv
BY InitAll, NextAll, PTL DEF Spec

----------------------------------------------------------------------------
(* What is counted                                                         *)

LEMMA AnsweredCount ==
  ASSUME AllInv
  PROVE  /\ IsFiniteSet(AnsweredAreas) /\ AnsweredAreas \subseteq Area
         /\ Cardinality(AnsweredAreas) = Cardinality(HeldIn(ClientData))
<1>1. current_round \in Nat \ {0} /\ CountInv
  BY GridAssumption DEF AllInv, TypeInv, TypeOK, ServerTypeOK, Round
<1>2. PICK held : held = HeldIn(ClientData)
  OBVIOUS
<1>3. AnsweredAreas = {ClientData[k].client : k \in held} /\ held \subseteq Area
  BY <1>2 DEF AnsweredAreas, HeldSlots, HeldIn
<1>4. /\ \A k \in held : ClientData[k].client \in Area
      /\ \A j, k \in held : ClientData[j].client = ClientData[k].client => j = k
  <2>1. CASE current_round = 1
    <3>1. \A k \in held : ClientData[k].client = k
      BY <1>1, <1>2, <2>1
         DEF CountInv, FirstRound, Tallied, FirstSlot, HeldIn, NoVec
    <3> QED
      BY <1>3, <3>1
  <2>2. CASE current_round > 1
    <3>1. PICK f \in Numbering : Filed(ClientData, f)
      BY <1>1, <2>2 DEF CountInv, LaterRound
    <3>2. \A k \in held : /\ ClientData[k].client \in Area
                          /\ f[ClientData[k].client] = k
      BY <1>2, <1>3, <3>1 DEF Filed, FiledSlot
    <3> QED
      BY <3>2
  <2> QED
    BY <1>1, <2>1, <2>2
<1>5. PICK c : c = [k \in held |-> ClientData[k].client]
  OBVIOUS
<1>6. c \in Bijection(held, AnsweredAreas)
  <2>1. c \in [held -> AnsweredAreas]
    BY <1>3, <1>5
  <2>2. \A j, k \in held : c[j] = c[k] => j = k
    BY <1>4, <1>5
  <2>3. \A a \in AnsweredAreas : \E k \in held : c[k] = a
    BY <1>3, <1>5
  <2> QED
    BY <2>1, <2>2, <2>3 DEF Bijection, Injection, IsInjective, Surjection
<1>7. IsFiniteSet(held)
  BY <1>2, HeldFinite
<1>8. ExistsBijection(held, AnsweredAreas)
  BY <1>6 DEF ExistsBijection
<1> QED
  BY <1>2, <1>3, <1>4, <1>7, <1>8, FS_Bijection

LEMMA CounterIsHeld ==
  ASSUME AllInv, current_round > 1 \/ MaxSends <= 1
  PROVE  counter = Cardinality(HeldIn(ClientData))
<1>1. current_round \in Nat \ {0}
  BY GridAssumption DEF AllInv, TypeInv, TypeOK, ServerTypeOK, Round
<1>2. CASE current_round = 1
  BY <1>2 DEF AllInv, CountInv, FirstRound, Tallied
<1>3. CASE current_round > 1
  BY <1>3 DEF AllInv, CountInv, HeldSlots, HeldIn
<1> QED
  BY <1>1, <1>2, <1>3

\* While clients send their start vector once, the counter is the number of areas
\* whose answer to the open round is held, whatever is late, lost or resent and
\* under whichever numbers the areas answer.
THEOREM CounterHolds == MaxSends <= 1 /\ Spec => []CounterCountsAreas
<1>1. AllInv /\ MaxSends <= 1 => CounterCountsAreas
  BY AnsweredCount, CounterIsHeld DEF CounterCountsAreas
<1>2. CASE MaxSends <= 1
  <2>1. AllInv => CounterCountsAreas
    BY <1>1, <1>2
  <2> QED
    BY <2>1, AllInvariant, PTL
<1>3. CASE ~(MaxSends <= 1)
  BY <1>3
<1> QED
  BY <1>2, <1>3

\* However often clients send their start vector, the counter is wrong in round 1
\* only.
THEOREM MiscountHolds == Spec => []MiscountStaysInFirstRound
<1>1. AllInv => MiscountStaysInFirstRound
  <2> SUFFICES ASSUME AllInv, current_round # 1
               PROVE  counter = Cardinality(AnsweredAreas)
    BY DEF MiscountStaysInFirstRound
  <2>1. current_round > 1
    BY GridAssumption DEF AllInv, TypeInv, TypeOK, ServerTypeOK, Round
  <2> QED
    BY <2>1, AnsweredCount, CounterIsHeld
<1> QED
  BY <1>1, AllInvariant, PTL

\* However often clients send their start vector, round 1 is only left alive with
\* the vector of every area.
THEOREM FirstRoundHolds == Spec => []FirstRoundHasEveryArea
<1>1. AllInv => FirstRoundHasEveryArea
  <2> SUFFICES ASSUME AllInv, current_round > 1
               PROVE  /\ Heard(addressList) = Area
                      /\ \A k \in Area : ClientData[k].initialVector.form = "request"
    BY DEF FirstRoundHasEveryArea
  <2> QED
    BY DEF AllInv, CountInv, LaterRound, Filed, FiledSlot
<1> QED
  BY <1>1, AllInvariant, PTL

\* Until every client has answered twice, a client only gets whole vectors that
\* carry its own number.
THEOREM EarlyHolds == Spec => []EarlyRequestsAreOwn
<1>1. AllInv => EarlyRequestsAreOwn
  <2> SUFFICES ASSUME AllInv, Missed(ClientData), NEW p \in down PROVE OwnRequest(p)
    BY DEF EarlyRequestsAreOwn, SomeoneMissedFirstRound, Missed, OwnRequest
  <2>1. current_round > 1
    <3>1. current_round \in Nat \ {0}
      BY GridAssumption DEF AllInv, TypeInv, TypeOK, ServerTypeOK, Round
    <3> QED
      BY <3>1 DEF AllInv, CountInv, FirstRound
  <2> QED
    BY <2>1 DEF AllInv, CountInv, LaterRound, Placed, Whole
<1> QED
  BY <1>1, AllInvariant, PTL

----------------------------------------------------------------------------
(* What is asked, and what is left in args.json                            *)

LEMMA RoundOpens ==
  ASSUME AllInv, [Next]_vars, current_round' # current_round
  PROVE  Opens
<1>1. ~ (UNCHANGED serverVars)
  BY DEF serverVars
<1>2. ServerStep
  BY <1>1 DEF Next, ClientStep, vars
<1>3. UNCHANGED clientVars
  BY <1>2 DEF ServerStep
<1>4. CASE TimerExpired
  BY <1>1, <1>3, <1>4, TimerOpens
<1>5. CASE ServerHandleRead
  <2>1. PICK p \in up : Ignore(p) \/ Collect(p) \/ Complete(p)
    BY <1>5 DEF ServerHandleRead
  <2>2. Complete(p)
    BY <1>1, <2>1 DEF Ignore, Collect, Keep
  <2>3. ~CalculationDies(current_round, Remembered(Stored(p.vec, p.area)))
    BY <1>1, <2>2 DEF Complete, CloseRound
  <2> QED
    BY <1>3, <2>2, <2>3, CompleteOpens
<1> QED
  BY <1>2, <1>4, <1>5 DEF ServerStep

\* If the clients were first heard in order, every opening, by all answers or by a
\* timer of any kind, sends every area a request of the new round.
THEOREM AskHolds == Spec => AsksEveryArea
<1>1. AllInv /\ [Next]_vars =>
        [ (current_round' # current_round /\ HeardInOrder') =>
            \A a \in Area : \E p \in down' :
              /\ p.area = a
              /\ p.vec.form = "request"
              /\ p.vec.round = current_round' ]_vars
  <2> SUFFICES ASSUME AllInv, [Next]_vars, current_round' # current_round, HeardInOrder',
                      NEW a \in Area
               PROVE  \E p \in down' : /\ p.area = a
                                       /\ p.vec.form = "request"
                                       /\ p.vec.round = current_round'
    OBVIOUS
  <2>1. PICK list : \E f \in Numbering : \E data, out \in [Area -> Slot] :
                      Opened(data, out, list, f)
    BY RoundOpens DEF Opens
  <2>2. PICK f \in Numbering, data \in [Area -> Slot], out \in [Area -> Slot] :
          Opened(data, out, list, f)
    BY <2>1
  <2>3. InPlace(data, f) /\ Fresh(data, f) /\ Alike(out, data) /\ Heard(list) = Area
        /\ OfRound(out, list, current_round + 1)
    BY <2>2 DEF Opened
  <2>4. Broadcast(out, list) = {Packet(k, out[k].vector) : k \in Area}
    BY <2>3, BroadcastInPlace DEF InPlace, Alike
  <2>5. Packet(a, out[a].vector) \in down'
    BY <2>2, <2>4 DEF Opened
  <2>6. out[a].vector.form = "request" /\ out[a].vector.round = current_round'
    BY <2>2, <2>3 DEF Opened, Fresh, Alike, InPlace, OfRound
  <2>7. PICK p : p = Packet(a, out[a].vector)
    OBVIOUS
  <2>8. p.area = a /\ p.vec = out[a].vector
    BY <2>7 DEF Packet
  <2> QED
    BY <2>5, <2>6, <2>7, <2>8
<1> QED
  BY <1>1, AllInvariant, PTL DEF Spec, AsksEveryArea

\* The list only grows, and not once round 1 is over.
LEMMA OrderStays ==
  ASSUME TypeInv, NEW a \in Area
  PROVE  (\A i \in DOMAIN Listed(a) : Listed(a)[i] = i - 1) => HeardInOrder
<1>1. addressList \in Seq(Area)
  BY DEF TypeInv, TypeOK, ServerTypeOK
<1>2. \A i \in DOMAIN addressList : i \in DOMAIN Listed(a) /\ Listed(a)[i] = addressList[i]
  BY <1>1 DEF Listed
<1> QED
  BY <1>2 DEF HeardInOrder

\* With every slot in place the calculation stores an entry for every area.
LEMMA SavedInPlace ==
  ASSUME NEW data, \A k \in Area : data[k].client = k
  PROVE  \A a \in Area : Saved(data)[a] \in {"fits", "misfit"}
<1>1. \A a \in Area : SlotsOf(data, a) # {}
  BY DEF SlotsOf
<1> QED
  BY <1>1 DEF Saved

\* A calculation after round 1, by the last answer or by a timer, is done on
\* slots that are in place if the clients were heard in order.
LEMMA CalculatesInPlace ==
  ASSUME AllInv, current_round > 1, HeardInOrder
  PROVE  /\ \A k \in Area : Remembered(ClientData)[k].client = k
         /\ \A p \in up : p.vec.round = current_round =>
              \A k \in Area : Remembered(Stored(p.vec, p.area))[k].client = k
<1>1. PICK f \in Numbering : LaterRound(ClientData, f)
  BY DEF AllInv, CountInv
<1>2. ClientData \in [Area -> Slot]
  BY DEF AllInv, TypeInv, TypeOK, ServerTypeOK
<1>3. \A k \in Area : ClientData[k].client = k
  BY <1>1 DEF LaterRound, Placed, InPlace
<1>4. ASSUME NEW p \in up, p.vec.round = current_round, NEW k \in Area
      PROVE  Remembered(Stored(p.vec, p.area))[k].client = k
  <2>1. PICK data : data = Stored(p.vec, p.area)
    OBVIOUS
  <2>2. data \in [Area -> Slot] /\ Placed(data, f)
    BY <1>1, <1>4, <2>1, StoredSlot, StoredLater DEF AllInv
  <2> QED
    BY <2>1, <2>2, RememberedSlot DEF Placed, InPlace
<1> QED
  BY <1>2, <1>3, <1>4, RememberedSlot

LEMMA OldStep == AllInv /\ NoOldResults /\ [Next]_vars => NoOldResults'
<1> SUFFICES ASSUME AllInv, NoOldResults, [Next]_vars, HeardInOrder'
             PROVE  (\A a \in Area : json'[a] # "old") \/ (\A a \in Area : json'[a] = "old")
  BY DEF NoOldResults
<1>1. CASE UNCHANGED json /\ (HeardInOrder' => HeardInOrder)
  BY <1>1 DEF NoOldResults
<1>2. UNCHANGED addressList => (HeardInOrder' => HeardInOrder)
  BY DEF HeardInOrder
<1>3. ASSUME NEW a \in Area, addressList' = Listed(a) PROVE HeardInOrder' => HeardInOrder
  BY <1>3, OrderStays DEF HeardInOrder, AllInv
<1>4. current_round \in Nat \ {0}
  BY GridAssumption DEF AllInv, TypeInv, TypeOK, ServerTypeOK, Round
<1>5. ASSUME NEW data, NEW list, NEW pending, HeardInOrder,
             current_round > 1 => \A k \in Area : Remembered(data)[k].client = k,
             CalculateAndSendDataBackToAreas(current_round, data, list, pending)
      PROVE  UNCHANGED json \/ \A a \in Area : json'[a] # "old"
  <2>1. CASE current_round = 1
    BY <1>5, <2>1 DEF CalculateAndSendDataBackToAreas, ResendFirst
  <2>2. CASE current_round > 1
    <3>1. json' = Saved(Remembered(data))
      BY <1>5, <2>2 DEF CalculateAndSendDataBackToAreas, SolveAndSend
    <3> QED
      BY <1>5, <2>2, <3>1, SavedInPlace
  <2> QED
    BY <1>4, <2>1, <2>2
<1>6. CASE ServerHandleRead
  <2>1. PICK p \in up : Ignore(p) \/ Collect(p) \/ Complete(p)
    BY <1>6 DEF ServerHandleRead
  <2>2. p.area \in Area
    BY DEF AllInv, TypeInv, TypeOK, NetTypeOK, Datagram
  <2>3. CASE Ignore(p) \/ Collect(p)
    BY <1>1, <1>2, <1>3, <2>2, <2>3 DEF Ignore, Collect, Keep, serverVars
  <2>4. CASE Complete(p)
    <3>1. CASE Die /\ UNCHANGED serverVars
      BY <1>1, <1>2, <3>1 DEF serverVars
    <3>2. CASE CalculateAndSendDataBackToAreas(current_round,
                 Stored(p.vec, p.area), Listed(p.area), timers)
      <4>1. PICK data, list : data = Stored(p.vec, p.area) /\ list = Listed(p.area)
        OBVIOUS
      <4>2. addressList' = list
        BY <3>2, <4>1 DEF CalculateAndSendDataBackToAreas
      <4>3. HeardInOrder
        BY <1>3, <2>2, <4>1, <4>2
      <4>4. current_round > 1 => \A k \in Area : Remembered(data)[k].client = k
        BY <2>4, <4>1, <4>3, CalculatesInPlace DEF Complete
      <4>5. UNCHANGED json \/ \A a \in Area : json'[a] # "old"
        BY <1>5, <3>2, <4>1, <4>3, <4>4
      <4> QED
        BY <1>1, <4>3, <4>5
    <3> QED
      BY <2>4, <3>1, <3>2 DEF Complete, CloseRound
  <2> QED
    BY <2>1, <2>3, <2>4
<1>7. CASE TimerExpired /\ UNCHANGED clientVars
  <2>1. current_round > 1
    BY <1>7, TimerOpens
  <2>2. CASE CalculateWithoutRest
    <3>1. CASE Die /\ UNCHANGED serverVars
      BY <1>1, <1>2, <3>1 DEF serverVars
    <3>2. CASE CalculateAndSendDataBackToAreas(current_round, ClientData, addressList,
                                               Armed(Tail(timers)))
      <4>1. PICK data, list : data = ClientData /\ list = addressList
        OBVIOUS
      <4>2. addressList' = list /\ HeardInOrder
        BY <1>2, <3>2, <4>1 DEF CalculateAndSendDataBackToAreas
      <4>3. \A k \in Area : Remembered(data)[k].client = k
        BY <2>1, <4>1, <4>2, CalculatesInPlace
      <4>4. UNCHANGED json \/ \A a \in Area : json'[a] # "old"
        BY <1>5, <3>2, <4>1, <4>2, <4>3
      <4> QED
        BY <1>1, <4>2, <4>4
    <3> QED
      BY <2>2, <3>1, <3>2 DEF CalculateWithoutRest, Calculate
  <2>3. CASE ResendInitial \/ ResendPrevious
    BY <1>1, <1>2, <2>3 DEF ResendInitial, ResendPrevious, Resend, ResendAs
  <2> QED
    BY <1>7, <2>2, <2>3 DEF TimerExpired
<1> QED
  BY <1>1, <1>2, <1>6, <1>7 DEF Next, ServerStep, ClientStep, serverVars, vars

\* If the clients were first heard in order, the entries of args.json are all of
\* an earlier simulation, or none is.
THEOREM NoOldHolds == Spec => []NoOldResults
<1>1. Init => NoOldResults
  BY DEF Init, ServerInit, NoOldResults
<1> QED
  BY <1>1, OldStep, AllInvariant, PTL DEF Spec

----------------------------------------------------------------------------
(* Why the process dies                                                    *)

LEMMA AbortStep ==
  AllInv /\ MaxSends <= 1 /\ AbortHasCause /\ [Next]_vars => AbortHasCause'
<1> SUFFICES ASSUME AllInv, MaxSends <= 1, AbortHasCause, [Next]_vars,
                    aborted', HeardInOrder', duals' # "short"
             PROVE  current_round' >= MAX_ITER
  BY DEF AbortHasCause
<1>1. current_round \in Nat \ {0} /\ MAX_ITER \in Nat /\ CountInv
  BY GridAssumption, MaxIterAssumption DEF AllInv, TypeInv, TypeOK, ServerTypeOK, Round
<1>2. CASE UNCHANGED vars
  BY <1>2 DEF AbortHasCause, HeardInOrder, vars, netVars, serverVars
<1>3. CASE aborted
  BY <1>2, <1>3
     DEF Next, ServerStep, ClientStep, ServerHandleRead, TimerExpired, ClientSend,
         ClientHandleRead, SendPacket, Lose
<1>4. ASSUME Die, UNCHANGED serverVars, NEW data,
             CalculationDies(current_round, data),
             current_round > 1 => \A k \in Area : data[k].client = k,
             current_round = 1 => \A k \in Area : data[k].vector # NoVec
      PROVE  current_round' >= MAX_ITER
  <2>1. current_round # 1
    BY <1>4 DEF CalculationDies, SlicingFaults
  <2>2. \A a \in Area : Saved(data)[a] # "none"
    BY <1>1, <1>4, <2>1, SavedInPlace
  <2>3. current_round + 1 > MAX_ITER
    BY <1>4, <2>1, <2>2 DEF CalculationDies, OutputIsBlank
  <2> QED
    BY <1>1, <1>4, <2>3 DEF serverVars
<1>5. CASE ~aborted /\ ServerHandleRead
  <2>1. PICK p \in up : Ignore(p) \/ Collect(p) \/ Complete(p)
    BY <1>5 DEF ServerHandleRead
  <2>2. PICK data : data = Stored(p.vec, p.area)
    OBVIOUS
  <2>3. PICK kept : kept = Remembered(data)
    OBVIOUS
  <2>4. Complete(p) /\ CalculationDies(current_round, kept) /\ Die /\ UNCHANGED serverVars
    BY <1>5, <2>1, <2>2, <2>3 DEF Ignore, Collect, Keep, Complete, CloseRound
  <2>5. HeardInOrder
    BY <2>4 DEF HeardInOrder, serverVars
  <2>6. p.vec.round = current_round /\ counter + 1 = total_of_node
    BY <2>4 DEF Complete
  <2>7. current_round > 1 => \A k \in Area : kept[k].client = k
    BY <2>2, <2>3, <2>5, <2>6, CalculatesInPlace
  <2>8. ASSUME current_round = 1, NEW k \in Area PROVE kept[k].vector # NoVec
    <3>1. Cardinality(HeldIn(data)) = total_of_node
      BY <1>1, <2>2, <2>6, <2>8, StoredFirst DEF AllInv, Tallied
    <3>2. k \in HeldIn(data)
      BY <3>1, HeldFinite
    <3>3. data[k].vector.round = 1 /\ data \in [Area -> Slot]
      BY <2>2, <2>8, <3>2, StoredSlot DEF HeldIn, AllInv
    <3> QED
      BY <2>3, <3>3, RememberedSlot DEF NoVec
  <2> QED
    BY <1>4, <2>4, <2>7, <2>8
<1>6. CASE ~aborted /\ TimerExpired /\ UNCHANGED clientVars
  <2>1. current_round > 1
    BY <1>6, TimerOpens
  <2>2. PICK kept : kept = Remembered(ClientData)
    OBVIOUS
  <2>3. CalculationDies(current_round, kept) /\ Die /\ UNCHANGED serverVars
    BY <1>6, <2>2
       DEF TimerExpired, CalculateWithoutRest, Calculate, ResendInitial, ResendPrevious,
           Resend, ResendAs
  <2>4. HeardInOrder
    BY <2>3 DEF HeardInOrder, serverVars
  <2>5. \A k \in Area : kept[k].client = k
    BY <2>1, <2>2, <2>4, CalculatesInPlace
  <2> QED
    BY <1>4, <2>1, <2>3, <2>5
<1>7. CASE ~aborted /\ ClientStep
  <2>1. PICK p \in down : MayFail(p)
    BY <1>7 DEF ClientStep, ClientSend, ClientHandleRead, SendPacket
  <2>2. UNCHANGED serverVars
    BY <1>7 DEF ClientStep
  <2>3. HeardInOrder /\ duals # "short"
    BY <2>2 DEF HeardInOrder, serverVars
  <2>4. current_round > 1
    BY <1>1, <2>1 DEF CountInv, FirstRound
  <2>5. OwnRequest(p)
    BY <1>1, <2>1, <2>3, <2>4 DEF CountInv, LaterRound, Placed, Whole
  <2> QED
    BY <2>1, <2>5 DEF MayFail, Unusable, OwnRequest, NoVec
<1>8. CASE ~aborted /\ Lose
  BY <1>8 DEF Lose, LoseUp, LoseDown
<1> QED
  BY <1>2, <1>3, <1>5, <1>6, <1>7, <1>8 DEF Next, ServerStep

\* With one start vector of each client, heard in order, only lost duals or the
\* last round of the script can end the process: no timing of packets and timers does.
THEOREM AbortHolds == MaxSends <= 1 /\ Spec => []AbortHasCause
<1>1. CASE MaxSends <= 1
  <2>1. Init => AbortHasCause
    BY DEF Init, NetInit, AbortHasCause
  <2>2. AllInv /\ AbortHasCause /\ [Next]_vars => AbortHasCause'
    BY <1>1, AbortStep
  <2> QED
    BY <2>1, <2>2, AllInvariant, PTL DEF Spec
<1>2. CASE ~(MaxSends <= 1)
  BY <1>2
<1> QED
  BY <1>1, <1>2

----------------------------------------------------------------------------
(* The rounds are those of the abstract specification                      *)

LEMMA OpensEmpty ==
  ASSUME AllInv, Opens
  PROVE  current_round' = current_round + 1 /\ AnsweredAreas' = {}
<1>1. PICK list : \E f \in Numbering : \E data, out \in [Area -> Slot] :
                    Opened(data, out, list, f)
  BY DEF Opens
<1>2. PICK f \in Numbering, data \in [Area -> Slot], out \in [Area -> Slot] :
        Opened(data, out, list, f)
  BY <1>1
<1>3. current_round \in Nat \ {0} /\ current_round' = current_round + 1
  BY <1>2, GridAssumption DEF AllInv, TypeInv, TypeOK, ServerTypeOK, Round, Opened
<1>4. HeldSlots' = {}
  <2>1. current_round' # 1
    BY <1>3
  <2>2. \A k \in Area : ClientData'[k].vector.form = "request"
    BY <1>2 DEF Opened, Fresh
  <2> QED
    BY <2>1, <2>2 DEF HeldSlots
<1> QED
  BY <1>3, <1>4 DEF AnsweredAreas

\* Storing a packet of the open round adds its area to those that answered.
LEMMA StoredAnswers ==
  ASSUME AllInv, MaxSends <= 1, NEW p \in up, p.vec.round = current_round
  PROVE  LET data == Stored(p.vec, p.area) IN
         /\ {data[k].client : k \in HeldIn(data)} = AnsweredAreas \cup {p.area}
         /\ p.area \notin AnsweredAreas
<1>1. PICK data, n, a : data = Stored(p.vec, p.area) /\ n = p.vec.num /\ a = p.area
  OBVIOUS
<1>2. /\ a \in Area /\ n \in Area
      /\ data[n].vector = p.vec
      /\ data[n].client = a
      /\ \A k \in Area \ {n} : data[k] = ClientData[k]
  BY <1>1, StoredSlot DEF AllInv
<1>3. current_round \in Nat \ {0} /\ CountInv
  BY GridAssumption DEF AllInv, TypeInv, TypeOK, ServerTypeOK, Round
<1>4. AnsweredAreas = {ClientData[k].client : k \in HeldIn(ClientData)}
  BY DEF AnsweredAreas, HeldSlots, HeldIn
<1>5. /\ n \in HeldIn(data) /\ n \notin HeldIn(ClientData)
      /\ a \notin AnsweredAreas
  <2>1. CASE current_round = 1
    <3>1. FirstRound /\ p = Packet(a, StartVec(a))
      BY <1>1, <1>3, <2>1, StoredFirst DEF AllInv, CountInv
    <3>2. n = a /\ p.vec.round = 1
      BY <1>1, <3>1, StartFields DEF Packet
    <3>3. ClientData[a].vector = NoVec
      BY <1>1, <3>1 DEF FirstRound
    <3>4. n \in HeldIn(data) /\ n \notin HeldIn(ClientData)
      BY <1>1, <1>2, <2>1, <3>2, <3>3 DEF HeldIn, NoVec
    <3>5. \A k \in HeldIn(ClientData) : ClientData[k].client = k
      BY <2>1, <3>1 DEF FirstRound, Tallied, FirstSlot, HeldIn, NoVec
    <3> QED
      BY <1>4, <3>2, <3>4, <3>5
  <2>2. CASE current_round > 1
    <3>1. PICK f \in Numbering : LaterRound(ClientData, f)
      BY <1>3, <2>2 DEF CountInv
    <3>2. \A k \in HeldIn(ClientData) : ClientData[k].client # a
      BY <1>1, <3>1 DEF LaterRound, PacketsFiled
    <3>3. n \notin HeldIn(ClientData) /\ HeldIn(data) = HeldIn(ClientData) \cup {n}
      BY <1>1, <2>2, <3>1, StoredLater DEF AllInv
    <3> QED
      BY <1>4, <3>2, <3>3
  <2> QED
    BY <1>3, <2>1, <2>2
<1>6. HeldIn(data) = HeldIn(ClientData) \cup {n}
  BY <1>2, <1>5 DEF HeldIn
<1>7. \A k \in HeldIn(ClientData) : data[k] = ClientData[k]
  BY <1>2, <1>5 DEF HeldIn
<1>8. {data[k].client : k \in HeldIn(data)} = AnsweredAreas \cup {a}
  BY <1>2, <1>4, <1>6, <1>7
<1> QED
  BY <1>1, <1>5, <1>8

LEMMA BarrierStep ==
  ASSUME AllInv, MaxSends <= 1, [Next]_vars
  PROVE  [Barrier!Next]_(Barrier!barrierVars)
<1>1. /\ IsFiniteSet(AnsweredAreas) /\ AnsweredAreas \subseteq Area
      /\ counter = Cardinality(AnsweredAreas)
  BY AnsweredCount, CounterIsHeld
<1>2. /\ Cardinality(Area) = total_of_node /\ IsFiniteSet(Area) /\ total_of_node \in Nat
      /\ counter \in Nat /\ counter < total_of_node
  BY FS_Interval, GridAssumption DEF Area, AllInv, TypeInv, TypeOK, ServerTypeOK
<1>3. CASE UNCHANGED serverVars
  BY <1>3 DEF Barrier!barrierVars, AnsweredAreas, HeldSlots, serverVars
<1>4. CASE ServerHandleRead /\ UNCHANGED clientVars
  <2>1. PICK p \in up : Ignore(p) \/ Collect(p) \/ Complete(p)
    BY <1>4 DEF ServerHandleRead
  <2>2. PICK a : a = p.area
    OBVIOUS
  <2>3. a \in Area
    BY <2>2 DEF AllInv, TypeInv, TypeOK, NetTypeOK, Datagram
  <2>4. CASE Ignore(p)
    BY <1>3, <2>4 DEF Ignore
  <2>5. ASSUME p.vec.round = current_round
        PROVE  /\ a \notin AnsweredAreas
               /\ Cardinality(AnsweredAreas \cup {a}) = counter + 1
               /\ AnsweredAreas \cup {a} = Area <=> counter + 1 = total_of_node
    <3>1. a \notin AnsweredAreas
      BY <2>2, <2>5, StoredAnswers
    <3>2. Cardinality(AnsweredAreas \cup {a}) = counter + 1
      BY <1>1, <3>1, FS_AddElement
    <3>3. AnsweredAreas \cup {a} \in SUBSET Area
      BY <1>1, <2>3
    <3> QED
      BY <1>2, <3>1, <3>2, <3>3, FS_Subset
  <2>6. CASE Collect(p)
    <3>1. PICK data : data = Stored(p.vec, p.area)
      OBVIOUS
    <3>2. /\ p.vec.round = current_round /\ counter + 1 # total_of_node
          /\ ClientData' = data /\ UNCHANGED <<current_round, timers>>
      BY <2>6, <3>1 DEF Collect, Keep
    <3>3. AnsweredAreas' = {data[k].client : k \in HeldIn(data)}
      BY <3>2 DEF AnsweredAreas, HeldSlots, HeldIn
    <3>4. AnsweredAreas' = AnsweredAreas \cup {a}
      BY <2>2, <3>1, <3>2, <3>3, StoredAnswers
    <3>5. Barrier!Answer(a)
      BY <2>5, <3>2, <3>4 DEF Barrier!Answer
    <3> QED
      BY <2>3, <3>5 DEF Barrier!Next
  <2>7. CASE Complete(p)
    <3>1. CASE CalculationDies(current_round, Remembered(Stored(p.vec, p.area)))
      BY <1>3, <2>7, <3>1 DEF Complete, CloseRound
    <3>2. CASE ~CalculationDies(current_round, Remembered(Stored(p.vec, p.area)))
      <4>1. Opens /\ timers' = Append(timers, current_round + 1)
        BY <1>4, <2>7, <3>2, CompleteOpens DEF CalculateAndSendDataBackToAreas, Armed
      <4>2. Barrier!Open
        BY <4>1, OpensEmpty DEF Barrier!Open
      <4>3. p.vec.round = current_round /\ counter + 1 = total_of_node
        BY <2>7 DEF Complete
      <4>4. Barrier!Close(a)
        BY <2>5, <4>1, <4>2, <4>3 DEF Barrier!Close
      <4> QED
        BY <2>3, <4>4 DEF Barrier!Next
    <3> QED
      BY <3>1, <3>2
  <2> QED
    BY <2>1, <2>4, <2>6, <2>7
<1>5. CASE TimerExpired /\ UNCHANGED clientVars
  <2>1. Opens \/ UNCHANGED serverVars
    BY <1>5, TimerOpens
  <2>2. CASE Opens
    <3>1. Barrier!Open
      BY <2>2, OpensEmpty DEF Barrier!Open
    <3>2. timers \in Seq(Round) /\ timers # <<>> /\ current_round' # current_round
      BY <1>5, <2>2, OpensEmpty, GridAssumption
         DEF TimerExpired, AllInv, TypeInv, TypeOK, ServerTypeOK, Round
    <3>3. \/ timers' = Armed(Tail(timers))
          \/ timers' = Armed(Armed(Tail(timers)))
      BY <1>5, <3>2
         DEF TimerExpired, CalculateWithoutRest, Calculate, ResendInitial, ResendPrevious,
             Resend, ResendAs, CalculateAndSendDataBackToAreas, serverVars
    <3>4. \/ timers' = Append(Tail(timers), current_round + 1)
          \/ timers' = Tail(timers) \o <<current_round + 1, current_round + 1>>
      <4>1. PICK rest, r : rest = Tail(timers) /\ r = current_round + 1
        OBVIOUS
      <4>2. rest \in Seq(Int) /\ r \in Int
        BY <3>2, <4>1, GridAssumption DEF AllInv, TypeInv, TypeOK, ServerTypeOK, Round
      <4>3. Append(Append(rest, r), r) = rest \o <<r, r>>
        BY <4>2
      <4> QED
        BY <3>3, <4>1, <4>3 DEF Armed
    <3>5. AnsweredAreas # Area
      BY <1>1, <1>2
    <3>6. Barrier!GiveUp
      BY <3>1, <3>2, <3>4, <3>5 DEF Barrier!GiveUp
    <3> QED
      BY <3>6 DEF Barrier!Next
  <2> QED
    BY <1>3, <2>1, <2>2
<1> QED
  BY <1>3, <1>4, <1>5 DEF Next, ServerStep, ClientStep, vars

\* The server's rounds are those of RoundBarrier: an answer is held once, a round
\* ends with the answer of the last area or with a timer.
THEOREM ImplementsBarrier == MaxSends <= 1 /\ Spec => BarrierSpec
<1>1. CASE MaxSends <= 1
  <2>1. Init => Barrier!Init
    <3> SUFFICES ASSUME Init PROVE Barrier!Init
      OBVIOUS
    <3>1. current_round = 1 /\ timers = <<>> /\ \A k \in Area : ClientData[k].vector.round = 0
      BY DEF Init, ServerInit, EmptySlot, NoVec
    <3> QED
      BY <3>1 DEF Barrier!Init, AnsweredAreas, HeldSlots
  <2>2. AllInv /\ [Next]_vars => [Barrier!Next]_(Barrier!barrierVars)
    BY <1>1, BarrierStep
  <2> QED
    BY <2>1, <2>2, AllInvariant, PTL DEF Spec, BarrierSpec, Barrier!Spec
<1>2. CASE ~(MaxSends <= 1)
  BY <1>2
<1> QED
  BY <1>1, <1>2
=============================================================================
