----------------------------- MODULE Configuration -----------------------------
(***************************************************************************)
(* How XmlConf::parseConfig (xmlconf.cpp) makes the channels and the maps   *)
(* between names, CAN identifiers and groups out of conf.xml,               *)
(* calibrations.xml and modbus.xml, and how the first ticks follow the maps *)
(* (proceedData, calcTempB, mainwindow.cpp).                                *)
(*                                                                          *)
(* Abstractions.  A document is what the parser looks up in it.  over_min   *)
(* and over_max, and a and b, come from the same element and are one value; *)
(* the ranges of a channel and the width of a DI channel are left out.      *)
(* mData, dataToSend and buff get the same channels and are one map.        *)
(***************************************************************************)
EXTENDS Integers, Sequences, FiniteSets

CONSTANTS
  Documents,   \* the files the program may be started with
  Unset        \* a field the parser leaves as it is: indeterminate

LineSignals == {"P", "dP", "TR"}                   \* isLineSignal
Types == {"K", "B", "DI", "PURE"} \cup LineSignals

\* a <channel> and the id of the <mvv> it is in
Element == [mvv : Nat, numb : Nat, type : STRING, sub_type : STRING, name : STRING,
            comp_sensor : STRING, group : Int]

\* modbus.xml: its elements, or what cannot be opened or parsed
Unreadable == <<[tag |-> "", name |-> ""]>>

(* A document: modbus, the elements of modbus.xml; settings, the attributes *)
(* of the elements of conf.xml other than <mvv>, by element and attribute;  *)
(* first, the first of these elements; amount, of groups; channels, the     *)
(* <channel> elements; coefficients, the elements of calibrations.xml.      *)
(*                                                                          *)
(* The index of groupMap is not checked: a group above the amount would be  *)
(* written outside the vector.                                              *)
ASSUME DocumentsAssumption ==
  \A d \in Documents :
    /\ d.channels \in Seq(Element)
    /\ d.amount \in Nat
    /\ \A k \in DOMAIN d.channels : d.channels[k].group <= d.amount
    /\ \A p \in DOMAIN d.settings : d.settings[p] \in Int
    /\ d.coefficients \in Seq([name : STRING, value : Int])
    /\ d.modbus \in Seq([tag : STRING, name : STRING])
ASSUME UnsetAssumption == Unset \notin Int \cup Types

VARIABLES
  document,
  pc,             \* "modbus", "sensors", "channels", "running"
  sensor,         \* sensor_nameElem: an element of modbus.xml, or Null
  at,             \* the channel element parsed next
  modbusMap,      \* the sensors published, in order
  frameMap,       \* the identifiers of the channels, in order
  mData,          \* identifier to channel
  sensorNameMap,  \* sensor name to identifier
  groupMap        \* the identifiers of the members of each group

maps == <<modbusMap, frameMap, mData, sensorNameMap, groupMap>>
vars == <<document, pc, sensor, at, maps>>

NoMap == [x \in {} |-> 0]
NoName == ""
Null == 0

Init ==
  /\ document \in Documents
  /\ pc = "modbus"
  /\ sensor = Null
  /\ at = 1
  /\ modbusMap = <<>>
  /\ frameMap = <<>>
  /\ mData = NoMap
  /\ sensorNameMap = NoMap
  /\ groupMap = <<>>

----------------------------------------------------------------------------
(* Identifiers: one bit for analog values, five bits of channel number and  *)
(* five of module number.                                                   *)

\* mutant: the bit that marks analog values is not set
AVWithoutMark(mvv, numb) == 32 * (numb % 32) + (mvv % 32)
getAVCanFrameId(mvv, numb) == 1024 + 32 * (numb % 32) + (mvv % 32)

getDICanFrameId(mvv) == 32 * 14 + (mvv % 32)

getMVVChannelID(id) == (id \div 32) % 32
getMVVCanID(id) == id % 32

Id(e) == IF e.type = "DI" THEN getDICanFrameId(e.mvv) ELSE getAVCanFrameId(e.mvv, e.numb)

----------------------------------------------------------------------------
(* What the parser looks up.  toLong and toFloat of a missing attribute are *)
(* 0; the first child with an empty tag is the first child.                 *)

\* mutant: what is missing stays indeterminate
AttributeOrUnset(tag, attribute) ==
  IF <<tag, attribute>> \in DOMAIN document.settings
  THEN document.settings[<<tag, attribute>>] ELSE Unset
Attribute(tag, attribute) ==
  IF <<tag, attribute>> \in DOMAIN document.settings
  THEN document.settings[<<tag, attribute>>] ELSE 0

(* The first of the positions in S. *)
First(S) == CHOOSE k \in S : \A l \in S : k <= l

FirstChild(tag) == IF tag = "" THEN document.first ELSE tag

Over(e) ==
  CASE e.type = "K" -> Attribute("K_type", "over")
    [] e.type = "B" -> Attribute("B_type", "over")
    [] e.type \in {"P", "dP"} -> Attribute(FirstChild(e.sub_type), "over")
    [] e.type = "TR" -> Attribute("TR", "over")
    [] OTHER -> Unset

StepDelta(e) ==
  CASE e.type = "K" -> Attribute("DELT", "t_K")
    [] e.type = "B" -> Attribute("LVS", "t_K")
    [] e.type \in {"P", "dP"} -> Attribute("DELT", e.sub_type)
    [] e.type = "TR" -> Attribute("DELT", "TR")
    [] OTHER -> Unset

\* mutant: the coefficients are taken in order
CoefficientsInOrder(e) ==
  IF at \in DOMAIN document.coefficients THEN {at} ELSE {}
(* The elements of calibrations.xml that would do for e. *)
CoefficientsOf(e) == {k \in DOMAIN document.coefficients :
                        e.name = "" \/ document.coefficients[k].name = e.name}

Coefficient(e) ==
  IF e.type \notin LineSignals THEN Unset
  ELSE IF CoefficientsOf(e) = {} THEN 0
  ELSE document.coefficients[First(CoefficientsOf(e))].value

Configured(e) ==
  [type        |-> IF e.type \in Types THEN e.type ELSE Unset,
   sensor_name |-> e.name,
   comp_name   |-> IF e.type = "B" THEN e.comp_sensor ELSE NoName,
   over        |-> Over(e),
   step_delta  |-> StepDelta(e),
   coefficient |-> Coefficient(e),
   group       |-> IF e.group > 0 THEN e.group ELSE Unset,
   mmv_num     |-> e.mvv]

(* The function f with x mapped to y. *)
With(f, x, y) == [z \in DOMAIN f \cup {x} |-> IF z = x THEN y ELSE f[z]]

----------------------------------------------------------------------------
\* mutant: the next sibling of any name is taken
AnyElementAfter(k, tag) == IF k + 1 \in DOMAIN document.modbus THEN k + 1 ELSE Null
(* The first element of modbus.xml after position k with this tag. *)
ElementAfter(k, tag) ==
  LET found == {l \in DOMAIN document.modbus : l > k /\ document.modbus[l].tag = tag}
  IN IF found = {} THEN Null ELSE First(found)

(* Without modbus.xml parseConfig returns before it has parsed any channel, *)
(* and the program runs without channels.                                   *)
ParseModbus ==
  /\ pc = "modbus"
  /\ IF document.modbus = Unreadable
       THEN pc' = "running" /\ UNCHANGED sensor
       ELSE pc' = "sensors" /\ sensor' = ElementAfter(0, "sensor")
  /\ UNCHANGED <<document, at, maps>>

(* One sensor is published, and the loop goes on with the next sibling      *)
(* named <name>: not with the next <sensor>.                                *)
ParseSensor ==
  /\ pc = "sensors"
  /\ sensor # Null
  /\ modbusMap' = Append(modbusMap, document.modbus[sensor].name)
  /\ sensor' = ElementAfter(sensor, "name")
  /\ UNCHANGED <<document, pc, at, frameMap, mData, sensorNameMap, groupMap>>

MakeGroups ==
  /\ pc = "sensors"
  /\ sensor = Null
  /\ groupMap' = [g \in 1 .. document.amount |-> <<>>]
  /\ pc' = "channels"
  /\ UNCHANGED <<document, sensor, at, modbusMap, frameMap, mData, sensorNameMap>>

\* mutant: the name is entered before the identifier of a DI channel is known
NamedAsAnalog(e) == With(sensorNameMap, e.name, getAVCanFrameId(e.mvv, e.numb))
Named(e) == With(sensorNameMap, e.name, Id(e))

\* mutant: every channel becomes a member of the first group
GroupedFirst(e) ==
  IF e.group > 0 THEN [groupMap EXCEPT ![1] = Append(@, Id(e))] ELSE groupMap
Grouped(e) ==
  IF e.group > 0 THEN [groupMap EXCEPT ![e.group] = Append(@, Id(e))] ELSE groupMap

ParseChannel ==
  /\ pc = "channels"
  /\ at <= Len(document.channels)
  /\ LET e == document.channels[at]
     IN /\ groupMap' = Grouped(e)
        /\ frameMap' = Append(frameMap, Id(e))
        /\ mData' = With(mData, Id(e), Configured(e))
        /\ sensorNameMap' = Named(e)
  /\ at' = at + 1
  /\ UNCHANGED <<document, pc, sensor, modbusMap>>

Start ==
  /\ pc = "channels"
  /\ at > Len(document.channels)
  /\ pc' = "running"
  /\ UNCHANGED <<document, sensor, at, maps>>

Next == ParseModbus \/ ParseSensor \/ MakeGroups \/ ParseChannel \/ Start

Spec == Init /\ [][Next]_vars

----------------------------------------------------------------------------
(* What the running program makes of the maps.  operator[] of the maps      *)
(* inserts 0 for a name that is not there, and a default channel under 0.   *)
Resolved(n) == IF n \in DOMAIN sensorNameMap THEN sensorNameMap[n] ELSE 0

Parsed == 1 .. at - 1
IdAt(k) == Id(document.channels[k])

(* Channel k is the last one that was parsed with its identifier. *)
Unshared(k) == \A l \in Parsed : l > k => IdAt(l) # IdAt(k)

(* The limits, steps and coefficients of a channel have a value when its    *)
(* type has them; the maps have theirs.                                     *)
Channel == [type : Types \cup {Unset}, sensor_name : STRING, comp_name : STRING \cup {NoName},
            over : Int \cup {Unset}, step_delta : Int \cup {Unset},
            coefficient : Int \cup {Unset}, group : Nat \cup {Unset}, mmv_num : Nat]
TypeOK ==
  /\ document \in Documents
  /\ pc \in {"modbus", "sensors", "channels", "running"}
  /\ sensor \in DOMAIN document.modbus \cup {Null}
  /\ at \in 1 .. Len(document.channels) + 1
  /\ modbusMap \in Seq(STRING)
  /\ frameMap \in Seq(Nat)
  /\ mData \in [DOMAIN mData -> Channel]
  /\ \A id \in DOMAIN mData :
       /\ mData[id].type \in {"K", "B"} \cup LineSignals =>
            mData[id].over \in Int /\ mData[id].step_delta \in Int
       /\ mData[id].type \in LineSignals => mData[id].coefficient \in Int
  /\ sensorNameMap \in [DOMAIN sensorNameMap -> Nat]
  /\ groupMap \in Seq(Seq(Nat))

(* The elements of modbus.xml that are sensors to the loop: the first       *)
(* <sensor> and each <name> after it; and those it has been through.        *)
Tag(k) == document.modbus[k].tag
SensorElements ==
  {k \in DOMAIN document.modbus :
     \E f \in 1 .. k : /\ Tag(f) = "sensor" /\ \A l \in 1 .. f - 1 : Tag(l) # "sensor"
                      /\ (k = f \/ Tag(k) = "name")}
Visited == {k \in SensorElements : sensor # Null => k < sensor}

(* The published names are those of these elements, each once and in the    *)
(* order of modbus.xml, on which the registers of the clients rest; no      *)
(* second <sensor> is published.                                            *)
SensorsInOrder ==
  pc # "modbus" =>
    /\ Len(modbusMap) = Cardinality(Visited)
    /\ \A k \in Visited :
         modbusMap[Cardinality({l \in Visited : l <= k})] = document.modbus[k].name

(* Two channels get the same identifier only if they are the same channel   *)
(* of one module, or DI channels of one module; and the log names the       *)
(* module of the channel.  (For the numbers the bus has: five bits each.)   *)
InBus(e) == e.mvv < 32 /\ e.numb < 32
IdsFaithful ==
  \A k, l \in Parsed :
    LET e == document.channels[k]
        f == document.channels[l]
    IN InBus(e) /\ InBus(f) =>
         /\ Id(e) = Id(f) => /\ e.mvv = f.mvv
                             /\ (e.type = "DI") <=> (f.type = "DI")
                             /\ e.type # "DI" => e.numb = f.numb
         /\ getMVVCanID(Id(e)) = e.mvv
         /\ e.type # "DI" => getMVVChannelID(Id(e)) = e.numb

(* A sensor name leads to the last channel of that name, unless a later     *)
(* channel has taken its identifier; the name of no channel (an error in    *)
(* modbus.xml or comp_sensor) never leads to a channel.                     *)
NamesResolve ==
  /\ \A k \in Parsed :
       LET n == document.channels[k].name
       IN (\A l \in Parsed : l > k => document.channels[l].name # n) =>
            /\ Resolved(n) = IdAt(k)
            /\ Unshared(k) => mData[Resolved(n)].sensor_name = n
  /\ \A n \in {document.modbus[k].name : k \in DOMAIN document.modbus}
             \cup {document.channels[k].comp_sensor : k \in DOMAIN document.channels} :
       n \notin {document.channels[k].name : k \in Parsed} => Resolved(n) \notin DOMAIN mData

(* The members of a group are the channels that name it: one entry for each *)
(* of them, in their order, and no other, on which groupMean rests; and     *)
(* they say so, unless a later channel has taken their identifier.          *)
Naming(g) == {k \in Parsed : document.channels[k].group = g}
GroupsAgree ==
  /\ \A g \in DOMAIN groupMap :
       /\ Len(groupMap[g]) = Cardinality(Naming(g))
       /\ \A k \in Naming(g) :
            groupMap[g][Cardinality({l \in Naming(g) : l <= k})] = IdAt(k)
  /\ \A k \in Parsed :
       LET g == document.channels[k].group
       IN g > 0 => g \in DOMAIN groupMap /\ (Unshared(k) => mData[IdAt(k)].group = g)

(* A calibrated channel starts with the coefficients under its own name,    *)
(* and with 0 when there are none.                                          *)
CoefficientsAreOwn ==
  \A k \in Parsed :
    LET e == document.channels[k]
        c == document.coefficients
    IN Unshared(k) /\ e.type \in LineSignals /\ e.name # "" =>
         \/ /\ mData[IdAt(k)].coefficient = 0
            /\ \A j \in DOMAIN c : c[j].name # e.name
         \/ \E j \in DOMAIN c : /\ c[j].name = e.name
                                /\ c[j].value = mData[IdAt(k)].coefficient
=============================================================================
