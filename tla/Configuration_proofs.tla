------------------------- MODULE Configuration_proofs -------------------------
(***************************************************************************)
(* Proofs about Configuration, for every document.                          *)
(*                                                                          *)
(* The argument.  An identifier is its module number in five bits, its      *)
(* channel number in five more and the analog bit above, so it can be taken *)
(* apart again (IdTakenApart), and it is never 0 (IdIsPositive).  While the *)
(* channels are parsed the maps hold exactly the channels so far, the last  *)
(* one of a name or identifier in place of those before it (Maps), and with *)
(* what was found for its element (Kept).                                   *)
(***************************************************************************)
EXTENDS Configuration, TLAPS, WellFoundedInduction, FiniteSetTheorems

LEMMA ElementsAreElements ==
  ASSUME NEW d \in Documents, NEW k \in 1 .. Len(d.channels)
  PROVE  d.channels[k] \in Element /\ d.channels \in Seq(Element)
         /\ d.channels[k].group <= d.amount /\ d.amount \in Nat
BY DocumentsAssumption

LEMMA IdIsPositive ==
  ASSUME NEW e \in Element PROVE Id(e) \in Nat /\ Id(e) > 0
<1>1. e.mvv \in Nat /\ e.numb \in Nat BY DEF Element
<1>2. \A n \in Nat : n % 32 \in 0 .. 31 OBVIOUS
<1>3. e.mvv % 32 \in 0 .. 31 /\ e.numb % 32 \in 0 .. 31 BY <1>1, <1>2
<1>. QED BY <1>3 DEF Id, getDICanFrameId, getAVCanFrameId

(* The numbers of a channel of the bus can be read off its identifier. *)
LEMMA IdTakenApart ==
  ASSUME NEW e \in Element, InBus(e)
  PROVE  /\ getMVVCanID(Id(e)) = e.mvv
         /\ e.type = "DI" => Id(e) = 32 * 14 + e.mvv
         /\ e.type # "DI" => /\ Id(e) = 1024 + 32 * e.numb + e.mvv
                             /\ getMVVChannelID(Id(e)) = e.numb
<1>1. e.mvv \in 0 .. 31 /\ e.numb \in 0 .. 31 BY DEF InBus, Element
<1>2. \A n \in 0 .. 31 : n % 32 = n OBVIOUS
<1>3. e.mvv % 32 = e.mvv /\ e.numb % 32 = e.numb BY <1>1, <1>2
<1>4. \A q \in Nat, r \in 0 .. 31 : (32 * q + r) % 32 = r /\ (32 * q + r) \div 32 = q
  OBVIOUS
<1>5. CASE e.type = "DI"
  <2>1. Id(e) = 32 * 14 + e.mvv BY <1>3, <1>5 DEF Id, getDICanFrameId
  <2>2. getMVVCanID(Id(e)) = e.mvv BY <1>1, <1>4, <2>1 DEF getMVVCanID
  <2>. QED BY <1>5, <2>1, <2>2
<1>6. CASE e.type # "DI"
  <2>1. Id(e) = 1024 + 32 * e.numb + e.mvv BY <1>3, <1>6 DEF Id, getAVCanFrameId
  <2>2. Id(e) = 32 * (32 + e.numb) + e.mvv /\ 32 + e.numb \in Nat BY <1>1, <2>1
  <2>3. getMVVCanID(Id(e)) = e.mvv BY <1>1, <1>4, <2>2 DEF getMVVCanID
  <2>4. Id(e) \div 32 = 32 + e.numb BY <1>1, <1>4, <2>2
  <2>5. (32 + e.numb) % 32 = e.numb
    <3>1. 32 + e.numb = 32 * 1 + e.numb BY <1>1
    <3>. QED BY <1>1, <1>4, <3>1
  <2>6. getMVVChannelID(Id(e)) = e.numb BY <2>4, <2>5 DEF getMVVChannelID
  <2>. QED BY <1>6, <2>1, <2>3, <2>6
<1>. QED BY <1>5, <1>6

LEMMA DigitalBelowAnalog ==
  ASSUME NEW e \in Element, NEW f \in Element, e.type = "DI", f.type # "DI"
  PROVE  Id(e) < Id(f)
<1>1. e.mvv \in Nat /\ f.mvv \in Nat /\ f.numb \in Nat BY DEF Element
<1>2. \A n \in Nat : n % 32 \in 0 .. 31 OBVIOUS
<1>. DEFINE a == e.mvv % 32
            b == f.mvv % 32
            c == f.numb % 32
<1>3. a \in 0 .. 31 /\ b \in 0 .. 31 /\ c \in 0 .. 31 BY <1>1, <1>2
<1>4. Id(e) = 32 * 14 + a /\ Id(f) = 1024 + 32 * c + b
  BY DEF Id, getDICanFrameId, getAVCanFrameId
<1>. HIDE DEF a, b, c
<1>. QED BY <1>3, <1>4

LEMMA PositionsAreNumbers ==
  ASSUME NEW T, NEW q \in Seq(T) PROVE DOMAIN q \subseteq Nat
OBVIOUS

(* A set of positions has a first one. *)
LEMMA FirstPosition ==
  ASSUME NEW S, S \subseteq Nat, S # {}
  PROVE  First(S) \in S /\ \A l \in S : First(S) <= l
<1>. DEFINE Less == OpToRel(<, Nat)
<1>1. PICK k \in S : \A l \in S : ~(<<l, k>> \in Less)
  BY NatLessThanWellFounded, WFMin
<1>2. \A l \in S : ~(l < k)
  BY <1>1 DEF OpToRel
<1>3. \A l \in S : k <= l BY <1>2
<1>. QED BY <1>3, Zenon DEF First

LEMMA EntryType ==
  ASSUME NEW T, NEW q \in Seq(T), NEW i \in DOMAIN q PROVE q[i] \in T
OBVIOUS

(* A later position added to a set of them has the highest rank and leaves  *)
(* the ranks of the others alone.                                           *)
LEMMA OneMore ==
  ASSUME NEW S, S \subseteq Nat, IsFiniteSet(S), NEW n \in Nat, \A k \in S : k < n
  PROVE  /\ Cardinality(S) \in Nat /\ Cardinality(S \cup {n}) = Cardinality(S) + 1
         /\ {l \in S \cup {n} : l <= n} = S \cup {n}
         /\ \A k \in S : /\ {l \in S \cup {n} : l <= k} = {l \in S : l <= k}
                        /\ Cardinality({l \in S : l <= k}) \in 1 .. Cardinality(S)
<1>1. Cardinality(S) \in Nat BY FS_CardinalityType
<1>2. n \notin S OBVIOUS
<1>3. Cardinality(S \cup {n}) = Cardinality(S) + 1 BY <1>2, FS_AddElement
<1>4. {l \in S \cup {n} : l <= n} = S \cup {n}
  <2>1. \A l \in S \cup {n} : l <= n OBVIOUS
  <2>. QED BY <2>1
<1>5. ASSUME NEW k \in S
      PROVE  /\ {l \in S \cup {n} : l <= k} = {l \in S : l <= k}
             /\ Cardinality({l \in S : l <= k}) \in 1 .. Cardinality(S)
  <2>. DEFINE upTo == {l \in S : l <= k}
  <2>1. {l \in S \cup {n} : l <= k} = upTo OBVIOUS
  <2>2. upTo \subseteq S /\ k \in upTo OBVIOUS
  <2>3. Cardinality(upTo) \in 1 .. Cardinality(S)
    <3>. HIDE DEF upTo
    <3>1. IsFiniteSet(upTo) /\ Cardinality(upTo) <= Cardinality(S) BY <2>2, FS_Subset
    <3>2. Cardinality(upTo) \in Nat /\ Cardinality(upTo) # 0
      BY <2>2, <3>1, FS_CardinalityType, FS_EmptySet
    <3>. QED BY <1>1, <3>1, <3>2
  <2>. QED BY <2>1, <2>3
<1>. QED BY <1>1, <1>3, <1>4, <1>5

----------------------------------------------------------------------------
Place ==
  /\ document \in Documents
  /\ at \in 1 .. Len(document.channels) + 1
  /\ pc \in {"modbus", "sensors"} => at = 1

Name(k) == document.channels[k].name

(* What the maps hold of the channels parsed so far. *)
Maps ==
  /\ \A id \in DOMAIN mData : \E k \in Parsed : id = IdAt(k)
  /\ \A n \in DOMAIN sensorNameMap : \E k \in Parsed : n = Name(k)
  /\ \A k \in Parsed :
       /\ IdAt(k) \in DOMAIN mData
       /\ (\A l \in Parsed : l > k => Name(l) # Name(k)) =>
            Name(k) \in DOMAIN sensorNameMap /\ sensorNameMap[Name(k)] = IdAt(k)
       /\ Unshared(k) => mData[IdAt(k)].sensor_name = Name(k)

(* What the groups hold while there is something to be parsed. *)
Groups ==
  /\ pc = "channels" => groupMap \in [1 .. document.amount -> Seq(Nat)]
  /\ GroupsAgree

Inv == Place /\ Maps /\ Groups

LEMMA InvInit == Init => Inv
<1>. SUFFICES ASSUME Init PROVE Inv
  OBVIOUS
<1>1. document \in Documents /\ at = 1 BY DEF Init
<1>2. Len(document.channels) \in Nat BY <1>1, DocumentsAssumption
<1>3. Place BY <1>1, <1>2 DEF Place
<1>4. Maps BY DEF Init, Maps, Parsed, NoMap
<1>5. Groups BY <1>1 DEF Init, Groups, GroupsAgree, Parsed
<1>. QED BY <1>3, <1>4, <1>5 DEF Inv

LEMMA PlaceStep ==
  ASSUME Place, [Next]_vars PROVE Place'
<1>1. Len(document.channels) \in Nat BY DocumentsAssumption DEF Place
<1>2. CASE ParseModbus \/ ParseSensor \/ MakeGroups
  BY <1>2 DEF ParseModbus, ParseSensor, MakeGroups, Place
<1>3. CASE ParseChannel BY <1>1, <1>3 DEF ParseChannel, Place
<1>4. CASE Start BY <1>4 DEF Start, Place
<1>5. CASE UNCHANGED vars BY <1>5 DEF vars, Place
<1>. QED BY <1>2, <1>3, <1>4, <1>5 DEF Next

(* The maps after one more channel. *)
LEMMA MapsStep ==
  ASSUME Place, Maps, ParseChannel PROVE Maps'
<1>. DEFINE e == document.channels[at]
<1>0. /\ at \in Nat \ {0} /\ at <= Len(document.channels) /\ at' = at + 1
      /\ document' = document /\ Len(document.channels) \in Nat
  BY DocumentsAssumption DEF ParseChannel, Place
<1>1. Parsed' = Parsed \cup {at} /\ Parsed = 1 .. at - 1 /\ at \notin Parsed
  BY <1>0 DEF Parsed
<1>2. \A k : IdAt(k)' = IdAt(k) /\ Name(k)' = Name(k)
  BY <1>0 DEF IdAt, Name
<1>3. e.name = Name(at) /\ Id(e) = IdAt(at) BY DEF Name, IdAt
<1>4. mData' = With(mData, IdAt(at), Configured(e))
  BY <1>3 DEF ParseChannel
<1>5. sensorNameMap' = With(sensorNameMap, Name(at), IdAt(at))
  BY <1>3 DEF ParseChannel, Named
<1>6. Configured(e).sensor_name = Name(at) BY <1>3 DEF Configured
<1>7. ASSUME NEW id \in DOMAIN mData' PROVE \E k \in Parsed' : id = IdAt(k)'
  <2>1. id \in DOMAIN mData \/ id = IdAt(at) BY <1>4 DEF With
  <2>. QED BY <2>1, <1>1, <1>2 DEF Maps
<1>8. ASSUME NEW n \in DOMAIN sensorNameMap' PROVE \E k \in Parsed' : n = Name(k)'
  <2>1. n \in DOMAIN sensorNameMap \/ n = Name(at) BY <1>5 DEF With
  <2>. QED BY <2>1, <1>1, <1>2 DEF Maps
<1>9. ASSUME NEW k \in Parsed', \A l \in Parsed' : l > k => Name(l) # Name(k)
      PROVE  Name(k) \in DOMAIN sensorNameMap' /\ sensorNameMap'[Name(k)] = IdAt(k)
  <2>1. CASE k = at BY <1>5, <2>1 DEF With
  <2>2. CASE k \in Parsed
    <3>1. at > k BY <1>0, <1>1, <2>2
    <3>2. Name(k) # Name(at) BY <1>1, <1>9, <3>1
    <3>3. \A l \in Parsed : l > k => Name(l) # Name(k) BY <1>1, <1>9
    <3>4. Name(k) \in DOMAIN sensorNameMap /\ sensorNameMap[Name(k)] = IdAt(k)
      BY <2>2, <3>3 DEF Maps
    <3>. QED BY <1>5, <3>2, <3>4 DEF With
  <2>. QED BY <1>1, <2>1, <2>2
<1>11. ASSUME NEW k \in Parsed' PROVE IdAt(k) \in DOMAIN mData'
  BY <1>1, <1>4 DEF With, Maps
<1>10. ASSUME NEW k \in Parsed', \A l \in Parsed' : l > k => IdAt(l) # IdAt(k)
       PROVE  mData'[IdAt(k)].sensor_name = Name(k)
  <2>1. CASE k = at BY <1>4, <1>6, <2>1 DEF With
  <2>2. CASE k \in Parsed
    <3>1. at > k BY <1>0, <1>1, <2>2
    <3>2. IdAt(k) # IdAt(at) BY <1>1, <1>10, <3>1
    <3>3. Unshared(k) BY <1>1, <1>10 DEF Unshared
    <3>4. mData[IdAt(k)].sensor_name = Name(k) BY <2>2, <3>3 DEF Maps
    <3>5. IdAt(k) \in DOMAIN mData BY <2>2 DEF Maps
    <3>6. mData'[IdAt(k)] = mData[IdAt(k)] BY <1>4, <3>2, <3>5 DEF With
    <3>. QED BY <3>4, <3>6
  <2>. QED BY <1>1, <2>1, <2>2
<1>. QED BY <1>2, <1>7, <1>8, <1>9, <1>10, <1>11 DEF Maps, Unshared

LEMMA GroupsStep ==
  ASSUME Place, Maps, Groups, ParseChannel PROVE Groups'
<1>. DEFINE e == document.channels[at]
<1>0. /\ at \in Nat \ {0} /\ at <= Len(document.channels) /\ at' = at + 1
      /\ document' = document /\ Len(document.channels) \in Nat
      /\ pc = "channels" /\ pc' = pc /\ document \in Documents
  BY DocumentsAssumption DEF ParseChannel, Place
<1>1. Parsed' = Parsed \cup {at} /\ Parsed = 1 .. at - 1 /\ at \notin Parsed
  BY <1>0 DEF Parsed
<1>2. /\ \A k : IdAt(k)' = IdAt(k) /\ document.channels[k]' = document.channels[k]
      /\ Id(e) = IdAt(at)
  BY <1>0 DEF IdAt
<1>3. /\ e \in Element /\ e.group \in Int /\ e.group <= document.amount
      /\ document.amount \in Nat /\ Id(e) \in Nat
  BY <1>0, ElementsAreElements, IdIsPositive DEF Element
<1>4. groupMap \in [1 .. document.amount -> Seq(Nat)] BY <1>0 DEF Groups
<1>5. groupMap' = IF e.group > 0 THEN [groupMap EXCEPT ![e.group] = Append(groupMap[e.group], Id(e))]
                                 ELSE groupMap
  BY DEF ParseChannel, Grouped
<1>6. groupMap' \in [1 .. document.amount -> Seq(Nat)]
  <2>1. CASE e.group > 0
    <3>1. e.group \in 1 .. document.amount BY <1>3, <2>1
    <3>2. Append(groupMap[e.group], Id(e)) \in Seq(Nat) BY <1>3, <1>4, <3>1
    <3>. QED BY <1>4, <1>5, <2>1, <3>2
  <2>2. CASE ~(e.group > 0) BY <1>4, <1>5, <2>2
  <2>. QED BY <2>1, <2>2
<1>7. mData' = With(mData, IdAt(at), Configured(e)) BY <1>2 DEF ParseChannel
<1>8. ASSUME NEW g \in DOMAIN groupMap'
      PROVE  /\ Len(groupMap'[g]) = Cardinality(Naming(g)')
             /\ \A k \in Naming(g)' :
                  groupMap'[g][Cardinality({l \in Naming(g)' : l <= k})] = IdAt(k)
  <2>. DEFINE N == Naming(g)
  <2>0. g \in 1 .. document.amount /\ g \in Int /\ g > 0 BY <1>3, <1>6
  <2>1. groupMap[g] \in Seq(Nat) BY <1>4, <2>0
  <2>2. /\ Len(groupMap[g]) = Cardinality(N)
        /\ \A k \in N : groupMap[g][Cardinality({l \in N : l <= k})] = IdAt(k)
    BY <1>4, <2>0 DEF Groups, GroupsAgree
  <2>3. CASE e.group = g
    <3>1. Naming(g)' = N \cup {at} BY <1>1, <1>2, <2>3 DEF Naming
    <3>2. groupMap'[g] = Append(groupMap[g], IdAt(at)) BY <1>2, <1>4, <1>5, <2>0, <2>3
    <3>3. N \subseteq Nat /\ IsFiniteSet(N) /\ \A k \in N : k < at
      <4>1. N \subseteq 1 .. at - 1 BY <1>1 DEF Naming
      <4>2. IsFiniteSet(1 .. at - 1) BY <1>0, FS_Interval
      <4>. QED BY <1>0, <4>1, <4>2, FS_Subset
    <3>. HIDE DEF N
    <3>4. /\ Cardinality(N) \in Nat /\ Cardinality(N \cup {at}) = Cardinality(N) + 1
          /\ {l \in N \cup {at} : l <= at} = N \cup {at}
          /\ \A k \in N : /\ {l \in N \cup {at} : l <= k} = {l \in N : l <= k}
                         /\ Cardinality({l \in N : l <= k}) \in 1 .. Cardinality(N)
      BY <1>0, <3>3, OneMore
    <3>5. /\ Len(groupMap'[g]) = Cardinality(N) + 1
          /\ groupMap'[g][Cardinality(N) + 1] = IdAt(at)
          /\ \A i \in 1 .. Cardinality(N) : groupMap'[g][i] = groupMap[g][i]
      BY <1>2, <1>3, <2>1, <2>2, <3>2, <3>4
    <3>6. ASSUME NEW k \in N \cup {at}
          PROVE  groupMap'[g][Cardinality({l \in N \cup {at} : l <= k})] = IdAt(k)
      <4>1. CASE k = at BY <3>4, <3>5, <4>1
      <4>2. CASE k \in N BY <2>2, <3>4, <3>5, <4>2
      <4>. QED BY <4>1, <4>2
    <3>. QED BY <3>1, <3>4, <3>5, <3>6
  <2>4. CASE e.group # g
    <3>1. Naming(g)' = N BY <1>1, <1>2, <2>4 DEF Naming
    <3>2. groupMap'[g] = groupMap[g] BY <1>3, <1>4, <1>5, <2>0, <2>4
    <3>. QED BY <2>2, <3>1, <3>2
  <2>. QED BY <2>3, <2>4
<1>9. ASSUME NEW k \in Parsed', document.channels[k].group > 0
      PROVE  document.channels[k].group \in DOMAIN groupMap'
  <2>1. k \in 1 .. Len(document.channels) BY <1>0, <1>1
  <2>2. document.channels[k].group \in Int /\ document.channels[k].group <= document.amount
    BY <1>0, <2>1, ElementsAreElements DEF Element
  <2>. QED BY <1>3, <1>6, <1>9, <2>2
<1>10. ASSUME NEW k \in Parsed', document.channels[k].group > 0,
              \A l \in Parsed' : l > k => IdAt(l) # IdAt(k)
       PROVE  mData'[IdAt(k)].group = document.channels[k].group
  <2>1. CASE k = at BY <1>7, <1>10, <2>1 DEF With, Configured
  <2>2. CASE k \in Parsed
    <3>1. at > k BY <1>0, <1>1, <2>2
    <3>2. IdAt(k) # IdAt(at) BY <1>1, <1>10, <3>1
    <3>3. Unshared(k) BY <1>1, <1>10 DEF Unshared
    <3>4. mData[IdAt(k)].group = document.channels[k].group
      BY <1>10, <2>2, <3>3 DEF Groups, GroupsAgree
    <3>5. IdAt(k) \in DOMAIN mData BY <2>2 DEF Maps
    <3>. QED BY <1>7, <3>2, <3>4, <3>5 DEF With
  <2>. QED BY <1>1, <2>1, <2>2
<1>. QED BY <1>0, <1>2, <1>6, <1>8, <1>9, <1>10 DEF Groups, GroupsAgree, Unshared

LEMMA InvStep == Inv /\ [Next]_vars => Inv'
<1>. SUFFICES ASSUME Inv, [Next]_vars PROVE Inv'
  OBVIOUS
<1>1. Place' BY PlaceStep DEF Inv
<1>2. CASE ParseChannel BY <1>1, <1>2, MapsStep, GroupsStep DEF Inv
<1>3. CASE ParseModbus \/ ParseSensor \/ MakeGroups
  <2>1. at = 1 /\ Parsed = {} /\ Parsed' = {}
    BY <1>3 DEF ParseModbus, ParseSensor, MakeGroups, Inv, Place, Parsed
  <2>2. mData' = mData /\ sensorNameMap' = sensorNameMap /\ document' = document
    BY <1>3 DEF ParseModbus, ParseSensor, MakeGroups, maps
  <2>3. Maps' BY <2>1, <2>2 DEF Inv, Maps
  <2>4. GroupsAgree'
    <3>1. \A g : Naming(g) = {} /\ Naming(g)' = {} BY <2>1 DEF Naming
    <3>2. \A g \in DOMAIN groupMap' : Len(groupMap'[g]) = Cardinality({})
      <4>1. CASE MakeGroups BY <4>1, FS_EmptySet DEF MakeGroups
      <4>2. CASE groupMap' = groupMap BY <3>1, <4>2 DEF Inv, Groups, GroupsAgree
      <4>. QED BY <1>3, <4>1, <4>2 DEF ParseModbus, ParseSensor, maps
    <3>. QED BY <2>1, <3>1, <3>2 DEF GroupsAgree
  <2>5. pc' = "channels" => groupMap' \in [1 .. document.amount -> Seq(Nat)]
    <3>1. ASSUME pc' = "channels"
          PROVE  groupMap' = [g \in 1 .. document.amount |-> <<>>]
      BY <1>3, <3>1 DEF ParseModbus, ParseSensor, MakeGroups
    <3>2. <<>> \in Seq(Nat) OBVIOUS
    <3>. QED BY <3>1, <3>2
  <2>6. Groups' BY <2>2, <2>4, <2>5 DEF Groups
  <2>. QED BY <1>1, <2>3, <2>6 DEF Inv
<1>4. CASE Start \/ UNCHANGED vars
  <2>1. UNCHANGED <<document, at, mData, sensorNameMap, groupMap>>
    BY <1>4 DEF Start, vars, maps
  <2>2. pc' = "channels" => pc = "channels" BY <1>4 DEF Start, vars
  <2>3. Parsed' = Parsed BY <2>1 DEF Parsed
  <2>4. \A k : IdAt(k)' = IdAt(k) /\ Name(k)' = Name(k) BY <2>1 DEF IdAt, Name
  <2>5. \A k : Unshared(k)' = Unshared(k) BY <2>3, <2>4 DEF Unshared
  <2>6. Maps' BY <2>1, <2>3, <2>4, <2>5 DEF Inv, Maps
  <2>7. GroupsAgree'
    <3>1. \A g : Naming(g)' = Naming(g) BY <2>1, <2>3 DEF Naming
    <3>. QED BY <2>1, <2>3, <2>4, <2>5, <3>1 DEF Inv, Groups, GroupsAgree
  <2>8. Groups' BY <2>1, <2>2, <2>7 DEF Inv, Groups
  <2>. QED BY <1>1, <2>6, <2>8 DEF Inv
<1>. QED BY <1>2, <1>3, <1>4 DEF Next

LEMMA Invariant == Spec => []Inv
BY InvInit, InvStep, PTL DEF Spec

LEMMA ParsedAreElements ==
  ASSUME Inv, NEW k \in Parsed PROVE document.channels[k] \in Element
<1>1. k \in 1 .. Len(document.channels) /\ document \in Documents
  BY DocumentsAssumption DEF Inv, Place, Parsed
<1>. QED BY <1>1, ElementsAreElements

----------------------------------------------------------------------------
(* For every document: two channels of the bus share an identifier only if  *)
(* they are the same channel or DI channels of one module, and getMVVUnit   *)
(* reads off an identifier the numbers it was made of.                      *)
THEOREM IdentifiersAreFaithful == Spec => []IdsFaithful
<1>1. ASSUME Inv PROVE IdsFaithful
  <2>. SUFFICES ASSUME NEW k \in Parsed, NEW l \in Parsed,
                       InBus(document.channels[k]), InBus(document.channels[l])
                PROVE  LET e == document.channels[k]
                           f == document.channels[l]
                       IN /\ Id(e) = Id(f) => /\ e.mvv = f.mvv
                                              /\ (e.type = "DI") <=> (f.type = "DI")
                                              /\ e.type # "DI" => e.numb = f.numb
                          /\ getMVVCanID(Id(e)) = e.mvv
                          /\ e.type # "DI" => getMVVChannelID(Id(e)) = e.numb
    BY DEF IdsFaithful
  <2>. DEFINE e == document.channels[k]
              f == document.channels[l]
  <2>1. e \in Element /\ f \in Element BY <1>1, ParsedAreElements
  <2>2. e.mvv \in 0 .. 31 /\ e.numb \in 0 .. 31 /\ f.mvv \in 0 .. 31 /\ f.numb \in 0 .. 31
    BY <2>1 DEF InBus, Element
  <2>3. /\ getMVVCanID(Id(e)) = e.mvv /\ getMVVCanID(Id(f)) = f.mvv
        /\ e.type # "DI" => getMVVChannelID(Id(e)) = e.numb
        /\ f.type # "DI" => getMVVChannelID(Id(f)) = f.numb
        /\ e.type = "DI" => Id(e) = 32 * 14 + e.mvv
        /\ e.type # "DI" => Id(e) = 1024 + 32 * e.numb + e.mvv
        /\ f.type = "DI" => Id(f) = 32 * 14 + f.mvv
        /\ f.type # "DI" => Id(f) = 1024 + 32 * f.numb + f.mvv
    BY <2>1, IdTakenApart
  <2>4. Id(e) = Id(f) => ((e.type = "DI") <=> (f.type = "DI"))
    <3>1. e.type = "DI" /\ f.type # "DI" => Id(e) < Id(f)
      BY <2>1, DigitalBelowAnalog
    <3>2. f.type = "DI" /\ e.type # "DI" => Id(f) < Id(e)
      BY <2>1, DigitalBelowAnalog
    <3>3. Id(e) \in Nat /\ Id(f) \in Nat BY <2>1, IdIsPositive
    <3>. QED BY <3>1, <3>2, <3>3
  <2>. QED BY <2>3, <2>4
<1>. QED BY <1>1, Invariant, PTL

(* For every document: a sensor name of modbus.xml or comp_sensor leads to  *)
(* the last channel of that name, if no later channel has its identifier,   *)
(* and to no channel if there is none of that name.                         *)
THEOREM NamesLeadToChannels == Spec => []NamesResolve
<1>1. ASSUME Inv PROVE NamesResolve
  <2>1. ASSUME NEW k \in Parsed, \A l \in Parsed : l > k => Name(l) # Name(k)
        PROVE  /\ Resolved(Name(k)) = IdAt(k)
               /\ Unshared(k) => mData[Resolved(Name(k))].sensor_name = Name(k)
    BY <1>1, <2>1 DEF Inv, Maps, Resolved
  <2>2. ASSUME NEW n, n \notin {Name(k) : k \in Parsed}
        PROVE  Resolved(n) \notin DOMAIN mData
    <3>1. n \notin DOMAIN sensorNameMap BY <1>1, <2>2 DEF Inv, Maps
    <3>2. Resolved(n) = 0 BY <3>1 DEF Resolved
    <3>3. \A k \in Parsed : IdAt(k) # 0
      BY <1>1, ParsedAreElements, IdIsPositive DEF IdAt
    <3>. QED BY <1>1, <3>2, <3>3 DEF Inv, Maps
  <2>. QED BY <2>1, <2>2 DEF NamesResolve, Name
<1>. QED BY <1>1, Invariant, PTL

(* For every document: a group has one entry for each channel that names    *)
(* it, in their order, and no other; and these channels say so, if no later *)
(* channel has their identifier.                                            *)
THEOREM GroupsHaveTheirMembers == Spec => []GroupsAgree
<1>1. Inv => GroupsAgree BY DEF Inv, Groups
<1>. QED BY <1>1, Invariant, PTL

----------------------------------------------------------------------------
(* The coefficients.  A channel keeps what the parser found for its element *)
(* until another one takes its identifier.                                  *)
Kept ==
  \A k \in Parsed :
    Unshared(k) => mData[IdAt(k)].coefficient = Coefficient(document.channels[k])

LEMMA KeptStep ==
  ASSUME Inv, Kept, ParseChannel PROVE Kept'
<1>0. /\ at \in Nat \ {0} /\ at' = at + 1 /\ document' = document
      /\ Parsed' = Parsed \cup {at} /\ Parsed = 1 .. at - 1
  BY DocumentsAssumption DEF ParseChannel, Inv, Place, Parsed
<1>1. \A k : IdAt(k)' = IdAt(k)
  BY <1>0 DEF IdAt
<1>2. mData' = With(mData, IdAt(at), Configured(document.channels[at]))
  BY DEF ParseChannel, IdAt
<1>3. \A e : Coefficient(e)' = Coefficient(e)
  BY <1>0 DEF Coefficient, CoefficientsOf
<1>4. ASSUME NEW k \in Parsed', \A l \in Parsed' : l > k => IdAt(l) # IdAt(k)
      PROVE  mData'[IdAt(k)].coefficient = Coefficient(document.channels[k])
  <2>1. CASE k = at
    BY <1>2, <2>1 DEF With, Configured
  <2>2. CASE k \in Parsed
    <3>1. IdAt(k) # IdAt(at)
      BY <1>0, <1>4, <2>2
    <3>2. Unshared(k)
      BY <1>0, <1>4 DEF Unshared
    <3>3. IdAt(k) \in DOMAIN mData
      BY <2>2 DEF Inv, Maps
    <3>4. mData'[IdAt(k)] = mData[IdAt(k)]
      BY <1>2, <3>1, <3>3 DEF With
    <3>. QED BY <2>2, <3>2, <3>4 DEF Kept
  <2>. QED BY <1>0, <2>1, <2>2
<1>. QED BY <1>0, <1>1, <1>3, <1>4 DEF Kept, Unshared

LEMMA KeptInvariant == Spec => []Kept
<1>1. Init => Kept
  BY DEF Init, Kept, Parsed
<1>2. Inv /\ Kept /\ [Next]_vars => Kept'
  <2>. SUFFICES ASSUME Inv, Kept, [Next]_vars PROVE Kept'
    OBVIOUS
  <2>1. CASE ParseChannel BY <2>1, KeptStep
  <2>2. CASE ParseModbus \/ ParseSensor \/ MakeGroups
    BY <2>2 DEF ParseModbus, ParseSensor, MakeGroups, Inv, Place, Parsed, Kept
  <2>3. CASE Start \/ UNCHANGED vars
    <3>1. UNCHANGED <<document, at, mData>>
      BY <2>3 DEF Start, vars, maps
    <3>2. Parsed' = Parsed BY <3>1 DEF Parsed
    <3>3. \A k : IdAt(k)' = IdAt(k) BY <3>1 DEF IdAt
    <3>4. \A k : Unshared(k)' = Unshared(k) BY <3>2, <3>3 DEF Unshared
    <3>5. \A e : Coefficient(e)' = Coefficient(e)
      BY <3>1 DEF Coefficient, CoefficientsOf
    <3>. QED BY <3>1, <3>2, <3>3, <3>4, <3>5 DEF Kept
  <2>. QED BY <2>1, <2>2, <2>3 DEF Next
<1>. QED BY <1>1, <1>2, Invariant, PTL DEF Spec

(* For every document: a calibrated channel with a name of its own starts   *)
(* with the coefficients under that name, and with 0 if there are none.     *)
THEOREM CoefficientsStayOwn == Spec => []CoefficientsAreOwn
<1>1. ASSUME Inv, Kept PROVE CoefficientsAreOwn
  <2>. SUFFICES ASSUME NEW k \in Parsed, Unshared(k),
                       document.channels[k].type \in LineSignals,
                       document.channels[k].name # ""
                PROVE  LET e == document.channels[k]
                           c == document.coefficients
                       IN \/ /\ mData[IdAt(k)].coefficient = 0
                             /\ \A j \in DOMAIN c : c[j].name # e.name
                          \/ \E j \in DOMAIN c : /\ c[j].name = e.name
                                                 /\ c[j].value = mData[IdAt(k)].coefficient
    BY DEF CoefficientsAreOwn
  <2>. DEFINE e == document.channels[k]
              c == document.coefficients
              S == CoefficientsOf(e)
              first == First(S)
  <2>1. mData[IdAt(k)].coefficient = Coefficient(e) BY <1>1 DEF Kept
  <2>2. S = {j \in DOMAIN c : c[j].name = e.name} BY DEF CoefficientsOf
  <2>3. CASE S = {}
    <3>1. Coefficient(e) = 0 BY <2>3 DEF Coefficient
    <3>. QED BY <2>1, <2>2, <2>3, <3>1
  <2>4. CASE S # {}
    <3>1. Coefficient(e) = c[first].value BY <2>4 DEF Coefficient
    <3>2. S \subseteq Nat
      <4>1. c \in Seq([name : STRING, value : Int])
        BY <1>1, DocumentsAssumption DEF Inv, Place
      <4>2. DOMAIN c \subseteq Nat BY <4>1, PositionsAreNumbers
      <4>3. S \subseteq DOMAIN c BY DEF CoefficientsOf
      <4>. QED BY <4>2, <4>3
    <3>3. first \in S
      <4>. HIDE DEF S
      <4>. QED BY <2>4, <3>2, FirstPosition
    <3>. QED BY <2>1, <2>2, <3>1, <3>3
  <2>. QED BY <2>3, <2>4
<1>. QED BY <1>1, Invariant, KeptInvariant, PTL

----------------------------------------------------------------------------
(* The types. *)
LEMMA AttributeIsNumber ==
  ASSUME document \in Documents, NEW tag, NEW attribute
  PROVE  Attribute(tag, attribute) \in Int
BY DocumentsAssumption DEF Attribute

LEMMA CoefficientType ==
  ASSUME document \in Documents, NEW e
  PROVE  /\ Coefficient(e) \in Int \cup {Unset}
         /\ e.type \in LineSignals => Coefficient(e) \in Int
<1>. DEFINE S == CoefficientsOf(e)
<1>1. document.coefficients \in Seq([name : STRING, value : Int])
  BY DocumentsAssumption
<1>2. S \subseteq DOMAIN document.coefficients BY DEF CoefficientsOf
<1>3. S \subseteq Nat BY <1>1, <1>2, PositionsAreNumbers
<1>4. S # {} => First(S) \in DOMAIN document.coefficients
  <2>. HIDE DEF S
  <2>. QED BY <1>2, <1>3, FirstPosition
<1>5. S # {} => document.coefficients[First(S)].value \in Int
  <2>. SUFFICES ASSUME S # {} PROVE document.coefficients[First(S)].value \in Int
    OBVIOUS
  <2>. HIDE DEF S
  <2>1. document.coefficients[First(S)] \in [name : STRING, value : Int]
    BY <1>1, <1>4, EntryType
  <2>. QED BY <2>1
<1>. QED BY <1>5 DEF Coefficient

(* A configured channel has the limits, steps and coefficients of its type. *)
LEMMA ConfiguredType ==
  ASSUME document \in Documents, NEW e \in Element
  PROVE  /\ Configured(e) \in Channel
         /\ Configured(e).type \in {"K", "B"} \cup LineSignals =>
              Configured(e).over \in Int /\ Configured(e).step_delta \in Int
         /\ Configured(e).type \in LineSignals => Configured(e).coefficient \in Int
<1>1. /\ e.type \in STRING /\ e.name \in STRING /\ e.comp_sensor \in STRING
      /\ e.group \in Int /\ e.mvv \in Nat
  BY DEF Element
<1>2. e.type \in {"K", "B"} \cup LineSignals => Over(e) \in Int /\ StepDelta(e) \in Int
  BY AttributeIsNumber DEF Over, StepDelta, LineSignals
<1>3. e.type \notin {"K", "B"} \cup LineSignals => Over(e) = Unset /\ StepDelta(e) = Unset
  BY DEF Over, StepDelta, LineSignals
<1>4. /\ Coefficient(e) \in Int \cup {Unset}
      /\ e.type \in LineSignals => Coefficient(e) \in Int
  BY CoefficientType
<1>5. Configured(e).type \in {"K", "B"} \cup LineSignals => Configured(e).type = e.type
  <2>1. {"K", "B"} \cup LineSignals \subseteq Types BY DEF Types
  <2>2. Configured(e).type = IF e.type \in Types THEN e.type ELSE Unset BY DEF Configured
  <2>. QED BY <2>1, <2>2, UnsetAssumption
<1>6. e.group > 0 => e.group \in Nat BY <1>1
<1>7. Configured(e) \in Channel 
  <2>1. /\ Over(e) \in Int \cup {Unset} /\ StepDelta(e) \in Int \cup {Unset}
        /\ (IF e.type \in Types THEN e.type ELSE Unset) \in Types \cup {Unset}
        /\ (IF e.type = "B" THEN e.comp_sensor ELSE NoName) \in STRING \cup {NoName}
        /\ (IF e.group > 0 THEN e.group ELSE Unset) \in Nat \cup {Unset}
    BY <1>1, <1>2, <1>3, <1>6
  <2>. QED BY <1>1, <1>4, <2>1 DEF Configured, Channel
<1>. QED BY <1>2, <1>4, <1>5, <1>7 DEF Configured

(* The cursor stops at the first element with the tag, if there is one.     *)
LEMMA ElementAfterIsFirst ==
  ASSUME document \in Documents, NEW k \in Nat, NEW tag
  PROVE  LET n == ElementAfter(k, tag)
         IN /\ n \in DOMAIN document.modbus \cup {Null}
            /\ n # Null => n > k /\ Tag(n) = tag
            /\ \A l \in DOMAIN document.modbus :
                 l > k /\ Tag(l) = tag => n # Null /\ n <= l
<1>. DEFINE found == {l \in DOMAIN document.modbus : l > k /\ Tag(l) = tag}
<1>1. DOMAIN document.modbus \subseteq Nat
  BY DocumentsAssumption, PositionsAreNumbers
<1>2. found \subseteq Nat /\ found \subseteq DOMAIN document.modbus BY <1>1
<1>3. ElementAfter(k, tag) = IF found = {} THEN Null ELSE First(found)
  BY DEF ElementAfter, Tag
<1>4. CASE found = {} BY <1>3, <1>4
<1>5. CASE found # {}
  <2>1. First(found) \in found /\ \A l \in found : First(found) <= l
    <3>. HIDE DEF found
    <3>. QED BY <1>2, <1>5, FirstPosition
  <2>2. First(found) \in Nat /\ First(found) > k BY <1>2, <2>1
  <2>. QED BY <1>3, <1>5, <2>1, <2>2 DEF Null
<1>. QED BY <1>4, <1>5

LEMMA TypeInit == Init => TypeOK
<1>. SUFFICES ASSUME Init PROVE TypeOK
  OBVIOUS
<1>1. Len(document.channels) \in Nat BY DocumentsAssumption DEF Init
<1>2. DOMAIN mData = {} /\ DOMAIN sensorNameMap = {} BY DEF Init, NoMap
<1>3. mData \in [DOMAIN mData -> Channel] /\ sensorNameMap \in [DOMAIN sensorNameMap -> Nat]
  BY DEF Init, NoMap
<1>. QED BY <1>1, <1>2, <1>3 DEF Init, TypeOK

(* The types after one more channel. *)
LEMMA ChannelTypes ==
  ASSUME Inv, TypeOK, ParseChannel PROVE TypeOK'
<1>. DEFINE e == document.channels[at]
<1>1. /\ document \in Documents /\ document' = document /\ at' = at + 1
      /\ at \in 1 .. Len(document.channels) /\ Len(document.channels) \in Nat
      /\ pc = "channels" /\ pc' = pc /\ sensor' = sensor /\ modbusMap' = modbusMap
  BY DocumentsAssumption DEF ParseChannel, Inv, Place
<1>2. /\ e \in Element /\ e.name \in STRING /\ e.group \in Int /\ e.group <= document.amount
      /\ Id(e) \in Nat /\ document.amount \in Nat
  BY <1>1, ElementsAreElements, IdIsPositive DEF Element
<1>3. at' \in 1 .. Len(document.channels) + 1 BY <1>1
<1>4. frameMap' \in Seq(Nat) BY <1>2 DEF ParseChannel, TypeOK
<1>5. mData' = With(mData, Id(e), Configured(e)) BY DEF ParseChannel
<1>6. /\ mData' \in [DOMAIN mData' -> Channel]
      /\ \A id \in DOMAIN mData' :
           /\ mData'[id].type \in {"K", "B"} \cup LineSignals =>
                mData'[id].over \in Int /\ mData'[id].step_delta \in Int
           /\ mData'[id].type \in LineSignals => mData'[id].coefficient \in Int
  <2>. SUFFICES ASSUME NEW id \in DOMAIN mData \cup {Id(e)}
                PROVE  /\ mData'[id] \in Channel
                       /\ mData'[id].type \in {"K", "B"} \cup LineSignals =>
                            mData'[id].over \in Int /\ mData'[id].step_delta \in Int
                       /\ mData'[id].type \in LineSignals => mData'[id].coefficient \in Int
    BY <1>5 DEF With
  <2>1. CASE id = Id(e)
    <3>1. mData'[id] = Configured(e) BY <1>5, <2>1 DEF With
    <3>. QED BY <1>1, <1>2, <3>1, ConfiguredType
  <2>2. CASE id # Id(e)
    <3>1. mData'[id] = mData[id] /\ id \in DOMAIN mData BY <1>5, <2>2 DEF With
    <3>. QED BY <3>1 DEF TypeOK
  <2>. QED BY <2>1, <2>2
<1>7. sensorNameMap' \in [DOMAIN sensorNameMap' -> Nat]
  BY <1>2 DEF ParseChannel, Named, With, TypeOK
<1>8. groupMap' \in Seq(Seq(Nat))
  <2>1. Groups' BY GroupsStep DEF Inv
  <2>2. groupMap' \in [1 .. document.amount -> Seq(Nat)] BY <1>1, <2>1 DEF Groups
  <2>. QED BY <1>2, <2>2
<1>. QED BY <1>1, <1>3, <1>4, <1>6, <1>7, <1>8 DEF TypeOK

LEMMA TypeStep ==
  ASSUME Inv, TypeOK, [Next]_vars PROVE TypeOK'
<1>. USE DEF maps
<1>1. CASE ParseModbus
  <2>1. ElementAfter(0, "sensor") \in DOMAIN document.modbus \cup {Null}
    BY ElementAfterIsFirst DEF TypeOK
  <2>2. sensor' \in DOMAIN document.modbus \cup {Null} /\ pc' \in {"running", "sensors"}
    BY <1>1, <2>1 DEF ParseModbus, TypeOK
  <2>. QED BY <1>1, <2>2 DEF ParseModbus, TypeOK
<1>2. CASE ParseSensor
  <2>1. document.modbus \in Seq([tag : STRING, name : STRING])
    BY DocumentsAssumption DEF TypeOK
  <2>2. sensor \in DOMAIN document.modbus /\ sensor \in Nat
    BY <1>2, <2>1, PositionsAreNumbers DEF ParseSensor, TypeOK
  <2>3. document.modbus[sensor].name \in STRING
    <3>1. document.modbus[sensor] \in [tag : STRING, name : STRING] BY <2>1, <2>2, EntryType
    <3>. QED BY <3>1
  <2>4. modbusMap' \in Seq(STRING) BY <1>2, <2>3 DEF ParseSensor, TypeOK
  <2>5. sensor' \in DOMAIN document.modbus \cup {Null}
    BY <1>2, <2>2, ElementAfterIsFirst DEF ParseSensor, TypeOK
  <2>. QED BY <1>2, <2>4, <2>5 DEF ParseSensor, TypeOK
<1>3. CASE MakeGroups
  <2>1. document.amount \in Nat BY DocumentsAssumption DEF TypeOK
  <2>2. <<>> \in Seq(Nat) OBVIOUS
  <2>3. groupMap' \in [1 .. document.amount -> Seq(Nat)] BY <1>3, <2>2 DEF MakeGroups
  <2>4. groupMap' \in Seq(Seq(Nat)) BY <2>1, <2>3
  <2>. QED BY <1>3, <2>4 DEF MakeGroups, TypeOK
<1>4. CASE ParseChannel BY <1>4, ChannelTypes
<1>5. CASE Start BY <1>5 DEF Start, TypeOK
<1>6. CASE UNCHANGED vars BY <1>6 DEF vars, TypeOK
<1>. QED BY <1>1, <1>2, <1>3, <1>4, <1>5, <1>6 DEF Next

(* For every document the maps are typed, and a channel whose type has      *)
(* limits, a step or coefficients has them: what conf.xml lacks is 0, and   *)
(* not what the allocation of the channel happened to find.                 *)
THEOREM TypeCorrect == Spec => []TypeOK
BY TypeInit, TypeStep, Invariant, PTL DEF Spec

----------------------------------------------------------------------------
(* The published sensors.  The cursor of the loop is always at one of the   *)
(* elements that are sensors to it, and no other lies between two stops.    *)
Cursor ==
  /\ pc = "modbus" => sensor = Null /\ modbusMap = <<>>
  /\ pc = "sensors" /\ sensor # Null => sensor \in SensorElements
  /\ SensorsInOrder

LEMMA ElementPositions ==
  ASSUME document \in Documents
  PROVE  /\ DOMAIN document.modbus = 1 .. Len(document.modbus)
         /\ Len(document.modbus) \in Nat
         /\ SensorElements \subseteq 1 .. Len(document.modbus)
         /\ IsFiniteSet(SensorElements)
<1>1. /\ DOMAIN document.modbus = 1 .. Len(document.modbus)
      /\ Len(document.modbus) \in Nat
  BY DocumentsAssumption
<1>2. SensorElements \subseteq 1 .. Len(document.modbus) BY <1>1 DEF SensorElements
<1>3. IsFiniteSet(1 .. Len(document.modbus)) BY <1>1, FS_Interval
<1>4. IsFiniteSet(SensorElements) BY <1>2, <1>3, FS_Subset
<1>. QED BY <1>1, <1>2, <1>4

(* Before the loop nothing has been visited. *)
LEMMA FirstSensor ==
  ASSUME document \in Documents, NEW n, n = ElementAfter(0, "sensor")
  PROVE  /\ n # Null => n \in SensorElements
         /\ \A k \in SensorElements : n # Null /\ n <= k
<1>1. /\ n \in DOMAIN document.modbus \cup {Null}
      /\ n # Null => n > 0 /\ Tag(n) = "sensor"
      /\ \A l \in DOMAIN document.modbus : l > 0 /\ Tag(l) = "sensor" => n # Null /\ n <= l
  BY ElementAfterIsFirst
<1>2. DOMAIN document.modbus = 1 .. Len(document.modbus) /\ Len(document.modbus) \in Nat
  BY ElementPositions
<1>3. ASSUME n # Null PROVE n \in SensorElements
  <2>1. n \in 1 .. Len(document.modbus) BY <1>1, <1>2, <1>3
  <2>2. \A l \in 1 .. n - 1 : Tag(l) # "sensor" BY <1>1, <1>2, <2>1
  <2>. QED BY <1>1, <1>2, <1>3, <2>1, <2>2 DEF SensorElements
<1>4. ASSUME NEW k \in SensorElements PROVE n # Null /\ n <= k
  <2>1. PICK f \in 1 .. k : Tag(f) = "sensor" BY DEF SensorElements
  <2>2. k \in 1 .. Len(document.modbus) BY ElementPositions
  <2>3. f \in DOMAIN document.modbus /\ f > 0 /\ f <= k BY <1>2, <2>2
  <2>4. n # Null /\ n <= f BY <1>1, <2>1, <2>3
  <2>5. n \in Nat BY <1>1, <1>2, <2>4
  <2>. QED BY <2>2, <2>3, <2>4, <2>5
<1>. QED BY <1>3, <1>4

(* From one sensor element the loop goes on to the next. *)
LEMMA NextSensor ==
  ASSUME document \in Documents, NEW m \in SensorElements,
         NEW n, n = ElementAfter(m, "name")
  PROVE  /\ n # Null => n \in SensorElements /\ n > m
         /\ \A k \in SensorElements : k > m => n # Null /\ n <= k
<1>1. DOMAIN document.modbus = 1 .. Len(document.modbus) /\ Len(document.modbus) \in Nat
      /\ m \in 1 .. Len(document.modbus)
  BY ElementPositions
<1>2. /\ n \in DOMAIN document.modbus \cup {Null}
      /\ n # Null => n > m /\ Tag(n) = "name"
      /\ \A l \in DOMAIN document.modbus : l > m /\ Tag(l) = "name" => n # Null /\ n <= l
  BY <1>1, ElementAfterIsFirst
<1>3. PICK f \in 1 .. m : Tag(f) = "sensor" /\ \A l \in 1 .. f - 1 : Tag(l) # "sensor"
  BY DEF SensorElements
<1>4. ASSUME n # Null PROVE n \in SensorElements
  <2>1. n \in DOMAIN document.modbus /\ f \in 1 .. n BY <1>1, <1>2, <1>4
  <2>. QED BY <1>2, <1>3, <1>4, <2>1 DEF SensorElements
<1>5. ASSUME NEW k \in SensorElements, k > m PROVE n # Null /\ n <= k
  <2>1. PICK g \in 1 .. k : /\ Tag(g) = "sensor" /\ \A l \in 1 .. g - 1 : Tag(l) # "sensor"
                           /\ (k = g \/ Tag(k) = "name")
    BY DEF SensorElements
  <2>2. k \in 1 .. Len(document.modbus) BY ElementPositions
  <2>3. g <= f
    <3>1. f \notin 1 .. g - 1 BY <1>3, <2>1
    <3>. QED BY <1>1, <2>2, <3>1
  <2>4. Tag(k) = "name" BY <1>1, <1>5, <2>1, <2>2, <2>3
  <2>. QED BY <1>1, <1>2, <1>5, <2>2, <2>4
<1>. QED BY <1>2, <1>4, <1>5

LEMMA CursorStep ==
  ASSUME TypeOK, Cursor, [Next]_vars PROVE Cursor'
<1>. USE DEF maps
<1>0. document \in Documents BY DEF TypeOK
<1>1. document' = document
  BY DEF Next, ParseModbus, ParseSensor, MakeGroups, ParseChannel, Start, vars
<1>2. SensorElements' = SensorElements BY <1>1 DEF SensorElements, Tag
<1>3. CASE ParseModbus
  <2>1. /\ pc = "modbus" /\ pc' # "modbus" /\ modbusMap' = <<>> /\ sensor = Null
        /\ \/ /\ document.modbus = Unreadable /\ sensor' = Null /\ pc' = "running"
           \/ sensor' = ElementAfter(0, "sensor")
    BY <1>3 DEF ParseModbus, Cursor
  <2>2. Visited' = {}
    <3>1. CASE document.modbus = Unreadable
      <4>1. Len(document.modbus) = 1 /\ Tag(1) # "sensor"
        <5>1. Len(Unreadable) = 1 /\ Unreadable[1].tag # "sensor" BY DEF Unreadable
        <5>. QED BY <3>1, <5>1 DEF Tag
      <4>2. SensorElements = {}
        <5>. SUFFICES ASSUME NEW k \in SensorElements PROVE FALSE
          OBVIOUS
        <5>1. k = 1 BY <1>0, <4>1, ElementPositions
        <5>2. PICK f \in 1 .. k : Tag(f) = "sensor" BY DEF SensorElements
        <5>. QED BY <4>1, <5>1, <5>2
      <4>. QED BY <1>2, <4>2 DEF Visited
    <3>2. CASE sensor' = ElementAfter(0, "sensor")
      <4>1. PICK n : n = ElementAfter(0, "sensor") OBVIOUS
      <4>2. \A k \in SensorElements : n # Null /\ n <= k BY <1>0, <4>1, FirstSensor
      <4>3. n \in DOMAIN document.modbus \cup {Null} BY <1>0, <4>1, ElementAfterIsFirst
      <4>4. \A k \in SensorElements : k \in Nat BY <1>0, ElementPositions
      <4>5. n \in Nat BY <1>0, <4>3, ElementPositions DEF Null
      <4>6. \A k \in SensorElements : ~(k < n) BY <4>2, <4>4, <4>5
      <4>. QED BY <1>2, <3>2, <4>1, <4>2, <4>6 DEF Visited
    <3>. QED BY <2>1, <3>1, <3>2
  <2>3. SensorsInOrder'
    <3>1. Cardinality(Visited') = 0 BY <2>2, FS_EmptySet
    <3>2. Len(modbusMap') = 0 BY <2>1
    <3>. QED BY <2>2, <3>1, <3>2 DEF SensorsInOrder
  <2>4. pc' = "sensors" /\ sensor' # Null => sensor' \in SensorElements
    BY <1>0, <2>1, FirstSensor
  <2>. QED BY <1>2, <2>1, <2>3, <2>4 DEF Cursor
<1>4. CASE ParseSensor
  <2>1. /\ pc = "sensors" /\ pc' = "sensors" /\ sensor # Null
        /\ modbusMap' = Append(modbusMap, document.modbus[sensor].name)
        /\ sensor' = ElementAfter(sensor, "name")
    BY <1>4 DEF ParseSensor
  <2>2. sensor \in SensorElements BY <2>1 DEF Cursor
  <2>3. PICK m : m = sensor OBVIOUS
  <2>4. PICK n : n = ElementAfter(m, "name") OBVIOUS
  <2>5. sensor' = n BY <2>1, <2>3, <2>4
  <2>6. /\ n # Null => n \in SensorElements /\ n > m
        /\ \A k \in SensorElements : k > m => n # Null /\ n <= k
    BY <1>0, <2>2, <2>3, <2>4, NextSensor
  <2>7. SensorElements \subseteq Nat /\ IsFiniteSet(SensorElements)
    BY <1>0, ElementPositions
  <2>8. Visited = {k \in SensorElements : k < m} BY <2>1, <2>3 DEF Visited
  <2>9. Visited' = Visited \cup {m}
    <3>1. Visited' = {k \in SensorElements : n # Null => k < n}
      BY <1>2, <2>5 DEF Visited
    <3>2. ASSUME NEW k \in SensorElements PROVE (n # Null => k < n) <=> (k < m \/ k = m)
      <4>1. k \in Nat /\ m \in Nat /\ (n # Null => n \in Nat)
        BY <2>2, <2>3, <2>6, <2>7
      <4>2. k > m => n # Null /\ n <= k BY <2>6
      <4>. QED BY <2>6, <4>1, <4>2
    <3>. QED BY <2>2, <2>3, <2>8, <3>1, <3>2
  <2>10. /\ Visited \subseteq Nat /\ IsFiniteSet(Visited) /\ m \in Nat
         /\ \A k \in Visited : k < m
    BY <2>2, <2>3, <2>7, <2>8, FS_Subset DEF Visited
  <2>11. PICK V : V = Visited OBVIOUS
  <2>12. /\ Cardinality(V) \in Nat /\ Cardinality(V \cup {m}) = Cardinality(V) + 1
         /\ {l \in V \cup {m} : l <= m} = V \cup {m}
         /\ \A k \in V : /\ {l \in V \cup {m} : l <= k} = {l \in V : l <= k}
                        /\ Cardinality({l \in V : l <= k}) \in 1 .. Cardinality(V)
    BY <2>10, <2>11, OneMore
  <2>13. /\ modbusMap \in Seq(STRING) /\ Len(modbusMap) = Cardinality(Visited)
         /\ \A k \in Visited :
              modbusMap[Cardinality({l \in Visited : l <= k})] = document.modbus[k].name
    BY <2>1 DEF Cursor, SensorsInOrder, TypeOK
  <2>14. document.modbus[m].name \in STRING
    <3>1. m \in DOMAIN document.modbus BY <1>0, <2>2, <2>3, ElementPositions
    <3>2. document.modbus \in Seq([tag : STRING, name : STRING])
      BY <1>0, DocumentsAssumption
    <3>3. document.modbus[m] \in [tag : STRING, name : STRING] BY <3>1, <3>2, EntryType
    <3>. QED BY <3>3
  <2>15. /\ Len(modbusMap') = Cardinality(V) + 1
         /\ modbusMap'[Cardinality(V) + 1] = document.modbus[m].name
         /\ \A i \in 1 .. Cardinality(V) : modbusMap'[i] = modbusMap[i]
    BY <2>1, <2>3, <2>11, <2>12, <2>13, <2>14
  <2>16. ASSUME NEW k \in V \cup {m}
         PROVE  modbusMap'[Cardinality({l \in V \cup {m} : l <= k})] = document.modbus[k].name
    <3>1. CASE k = m BY <2>12, <2>15, <3>1
    <3>2. CASE k \in V BY <2>11, <2>12, <2>13, <2>15, <3>2
    <3>. QED BY <3>1, <3>2
  <2>17. SensorsInOrder' BY <1>1, <2>9, <2>11, <2>12, <2>15, <2>16 DEF SensorsInOrder
  <2>. QED BY <1>2, <2>1, <2>5, <2>6, <2>17 DEF Cursor
<1>5. CASE /\ UNCHANGED <<sensor, modbusMap>>
           /\ (pc' = "modbus" => pc = "modbus") /\ (pc' = "sensors" => pc = "sensors")
           /\ (pc' # "modbus" => pc # "modbus")
  <2>1. Visited' = Visited BY <1>2, <1>5 DEF Visited
  <2>2. SensorsInOrder' BY <1>1, <1>5, <2>1 DEF Cursor, SensorsInOrder
  <2>. QED BY <1>2, <1>5, <2>2 DEF Cursor
<1>6. MakeGroups \/ ParseChannel \/ Start \/ UNCHANGED vars =>
        /\ UNCHANGED <<sensor, modbusMap>>
        /\ (pc' = "modbus" => pc = "modbus") /\ (pc' = "sensors" => pc = "sensors")
        /\ (pc' # "modbus" => pc # "modbus")
  BY DEF MakeGroups, ParseChannel, Start, vars
<1>. QED BY <1>3, <1>4, <1>5, <1>6 DEF Next

(* For every document: modbusMap holds the names of the first <sensor> and  *)
(* of the <name> elements after it, in their order, each once.              *)
THEOREM SensorsStayInOrder == Spec => []SensorsInOrder
<1>1. Init => Cursor
  BY DEF Init, Cursor, SensorsInOrder
<1>2. Cursor => SensorsInOrder
  BY DEF Cursor
<1>. QED BY <1>1, <1>2, TypeCorrect, CursorStep, PTL DEF Spec
=============================================================================
