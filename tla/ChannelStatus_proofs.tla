------------------------- MODULE ChannelStatus_proofs -------------------------
(***************************************************************************)
(* What every configuration, every conversion of a thermocouple and every  *)
(* sequence of samples and commands keeps: the types of ChannelStatus, so  *)
(* that nothing but numbers is published, and the alarms.                  *)
(***************************************************************************)
EXTENDS ChannelStatus, TLAPS

(* A channel in the middle of a tick: its value may not be a number yet. *)
RawData == [data : Readings \cup {NaN}, prev_data : Readings, status : 0 .. 1,
            error_count : {0, 1, MissLimit}, mb_status : Statuses]

LEMMA ConfigTyped ==
  ASSUME Config \in Configs
  PROVE  /\ Len(Config) \in Nat \ {0}
         /\ \A c \in Channels :
              /\ Config[c] \in ChannelConfig
              /\ Config[c].type = "B" => Config[c].comp \in Channels
  BY ConfigAssumption DEF Channels

(* The configuration is read once. *)
LEMMA ConfigKept == [Next]_vars => Config' = Config /\ Channels' = Channels
  BY DEF Next, ProceedChannel, proceedGroup, Publish, checkCommand, kvitCommand,
         ChannelCommands, vars, Channels

LEMMA MeasuredReadings == Values \cup {0, OpenCircuit} \subseteq Readings
  BY ValuesAssumption

(* What one sample makes of a channel, and that it leaves its mark alone.   *)
LEMMA CopiedTyped ==
  ASSUME NEW d \in ChannelData, NEW sample \in Samples
  PROVE  /\ Copied(d, sample) \in RawData
         /\ Copied(d, sample).data \in Values \cup {0, NaN}
         /\ Copied(d, sample).mb_status = d.mb_status
<1> DEFINE value == IF first_run /\ sample.data = NaN THEN 0 ELSE sample.data
<1>1. sample.data \in Values \cup {NaN} /\ sample.status \in 0 .. 1
        /\ sample.error_count \in {0, 1, MissLimit}
  BY DEF Samples
<1>2. value \in Values \cup {0, NaN} /\ (first_run => value \in Values \cup {0})
  BY <1>1
<1>3. (IF first_run THEN value ELSE d.prev_data) \in Readings
  BY <1>2, MeasuredReadings DEF ChannelData
<1>4. QED
  BY <1>1, <1>2, <1>3, MeasuredReadings DEF Copied, RawData, ChannelData

LEMMA ThermocoupleTyped ==
  ASSUME NEW d \in RawData, d.data \in Values \cup {0, NaN}, NEW cold \in ChannelData
  PROVE  /\ Thermocouple(d, cold) \in RawData
         /\ d.mb_status # "ok" => Thermocouple(d, cold).mb_status = d.mb_status
<1>1. cold.data \in Readings
  BY DEF ChannelData
<1>2. ASSUME NEW w \in Readings \cup {NaN}
      PROVE  (IF d.data = NaN THEN NaN ELSE BTemp(d.data, w)) \in Readings \cup {NaN}
  BY ConversionAssumption
<1>3. "CJ_ERROR" \in Statuses
  BY DEF Statuses, Alarms
<1>4. QED
  BY <1>1, <1>2, <1>3 DEF Thermocouple, RawData

(* Every conversion yields a channel in the middle of a tick and keeps the  *)
(* mark of a marked channel.                                                *)
LEMMA ConversionTyped ==
  ASSUME Config \in Configs, NEW c \in Channels,
         dataToSend \in [Channels -> ChannelData],
         NEW d \in RawData, d.data \in Values \cup {0, NaN},
         NEW converted \in Conversions(c, d)
  PROVE  /\ converted \in RawData
         /\ d.mb_status # "ok" => converted.mb_status = d.mb_status
<1>1. CASE Config[c].type = "B"
  <2>1. Config[c].comp \in Channels
    BY <1>1, ConfigTyped
  <2>2. dataToSend[Config[c].comp] \in ChannelData
    BY <2>1
  <2>3. converted = Thermocouple(d, dataToSend[Config[c].comp])
    BY <1>1 DEF Conversions
  <2>4. QED
    BY <2>2, <2>3, ThermocoupleTyped
<1>2. CASE Config[c].type = "line"
  <2>1. converted \in Calibrated(d)
    BY <1>2 DEF Conversions
  <2>2. QED
    BY <2>1 DEF Calibrated, RawData
<1>3. CASE Config[c].type \notin {"B", "line"}
  BY <1>3 DEF Conversions
<1>4. QED
  BY <1>1, <1>2, <1>3

(* The checks of proceedStatus: from a value that may be no number to one   *)
(* that is, and from a mark never back to none.                             *)
LEMMA SubstitutedTyped ==
  ASSUME NEW d \in RawData
  PROVE  Substituted(d) \in ChannelData /\ Substituted(d).mb_status = d.mb_status
  BY DEF Substituted, RawData, ChannelData

LEMMA ModuleCheckedTyped ==
  ASSUME NEW d \in ChannelData
  PROVE  /\ ModuleChecked(d) \in ChannelData
         /\ d.mb_status # "ok" => ModuleChecked(d).mb_status # "ok"
<1>1. "MVV_ERROR" \in Statuses
  BY DEF Statuses, Alarms
<1>2. QED
  BY <1>1 DEF ModuleChecked, ChannelData

LEMMA ValueCheckedTyped ==
  ASSUME NEW c \in Channels, NEW d \in ChannelData
  PROVE  /\ ValueChecked(c, d) \in ChannelData
         /\ d.mb_status # "ok" => ValueChecked(c, d).mb_status # "ok"
<1> DEFINE Keeps(e, f) == /\ f \in ChannelData
                          /\ e.mb_status # "ok" => f.mb_status # "ok"
<1>1. {"DELT_ERROR", "CH_OVERLOAD", "LINE_ERROR", "MIN_DIAP_ERROR", "MAX_DIAP_ERROR"}
        \subseteq Statuses
  BY DEF Statuses, Alarms
<1>2. ASSUME NEW e \in ChannelData PROVE Keeps(e, StepChecked(c, e))
  BY <1>1 DEF StepChecked, ChannelData
<1>3. ASSUME NEW e \in ChannelData PROVE Keeps(e, OverloadChecked(c, e))
  BY <1>1 DEF OverloadChecked, ChannelData
<1>4. ASSUME NEW e \in ChannelData PROVE Keeps(e, LineChecked(e))
  BY <1>1 DEF LineChecked, ChannelData
<1>5. ASSUME NEW e \in ChannelData PROVE Keeps(e, RangeChecked(c, e))
  BY <1>1 DEF RangeChecked, ChannelData
<1> HIDE DEF Keeps
<1>6. ASSUME NEW e, NEW f, NEW g, Keeps(e, f), Keeps(f, g) PROVE Keeps(e, g)
  BY <1>6 DEF Keeps
<1>7. ASSUME NEW e, NEW f, Keeps(e, f) PROVE f \in ChannelData
  BY <1>7 DEF Keeps
<1> DEFINE s == StepChecked(c, d)
           o == OverloadChecked(c, s)
           l == LineChecked(o)
           r == RangeChecked(c, l)
<1> HIDE DEF s, o, l, r
<1>8. Keeps(d, s)
  BY <1>2 DEF s
<1>9. Keeps(s, o)
  BY <1>3, <1>7, <1>8 DEF o
<1>10. Keeps(o, l)
  BY <1>4, <1>7, <1>9 DEF l
<1>11. Keeps(l, r)
  BY <1>5, <1>7, <1>10 DEF r
<1>12. Keeps(d, r)
  BY <1>6, <1>8, <1>9, <1>10, <1>11
<1>13. ValueChecked(c, d) = IF d.mb_status \in {"MVV_ERROR", "LINE_ERROR"} THEN d ELSE r
  BY DEF ValueChecked, r, l, o, s
<1>14. QED
  BY <1>12, <1>13 DEF Keeps

(* The whole of proceedStatus. *)
LEMMA StatusTyped ==
  ASSUME NEW c \in Channels, NEW d \in RawData
  PROVE  /\ proceedStatus(c, d) \in ChannelData
         /\ d.mb_status # "ok" => proceedStatus(c, d).mb_status # "ok"
         /\ d.mb_status = "CH_DISABLED" => proceedStatus(c, d).mb_status = "CH_DISABLED"
<1> DEFINE v == ValueChecked(c, ModuleChecked(Substituted(d)))
           k == DisabledKept(d, v)
<1>1. v \in ChannelData /\ (d.mb_status # "ok" => v.mb_status # "ok")
  BY SubstitutedTyped, ModuleCheckedTyped, ValueCheckedTyped
<1> HIDE DEF v
<1>2. "CH_DISABLED" \in Statuses
  BY DEF Statuses, Alarms
<1>3. /\ k \in ChannelData
      /\ d.mb_status # "ok" => k.mb_status # "ok"
      /\ d.mb_status = "CH_DISABLED" => k.mb_status = "CH_DISABLED"
  BY <1>1, <1>2 DEF DisabledKept, ChannelData
<1>4. proceedStatus(c, d) = Settled(k)
  BY DEF proceedStatus, v
<1> HIDE DEF k
<1>5. Settled(k) \in ChannelData /\ Settled(k).mb_status = k.mb_status
  BY <1>3 DEF Settled, ChannelData
<1>6. QED
  BY <1>3, <1>4, <1>5

----------------------------------------------------------------------------
(* What one channel of proceedData becomes. *)
LEMMA ProceedTyped ==
  ASSUME TypeOK, ProceedChannel, Channels' = Channels
  PROVE  /\ dataToSend' \in [Channels -> ChannelData]
         /\ ~first_run => \A c \in Channels :
              /\ dataToSend[c].mb_status # "ok" => dataToSend'[c].mb_status # "ok"
              /\ dataToSend[c].mb_status = "CH_DISABLED"
                   => dataToSend'[c].mb_status = "CH_DISABLED"
<1>1. /\ Config \in Configs /\ i \in Channels
      /\ dataToSend \in [Channels -> ChannelData]
  BY DEF TypeOK
<1>2. dataToSend[i] \in ChannelData
  BY <1>1
<1>3. PICK sample \in Samples :
        \E converted \in Conversions(i, Copied(dataToSend[i], sample)) :
          dataToSend' = [dataToSend EXCEPT ![i] =
            [proceedStatus(i, converted) EXCEPT
               !.prev_data = proceedStatus(i, converted).data,
               !.mb_status = IF first_run THEN "ok" ELSE @]]
  BY DEF ProceedChannel
<1> DEFINE raw == Copied(dataToSend[i], sample)
<1>4. raw \in RawData /\ raw.data \in Values \cup {0, NaN}
        /\ raw.mb_status = dataToSend[i].mb_status
  BY <1>2, CopiedTyped
<1> HIDE DEF raw
<1>5. PICK converted \in Conversions(i, raw) :
          dataToSend' = [dataToSend EXCEPT ![i] =
            [proceedStatus(i, converted) EXCEPT
               !.prev_data = proceedStatus(i, converted).data,
               !.mb_status = IF first_run THEN "ok" ELSE @]]
  BY <1>3 DEF raw
<1>6. /\ converted \in RawData
      /\ raw.mb_status # "ok" => converted.mb_status = raw.mb_status
  BY <1>1, <1>4, ConversionTyped
<1> DEFINE d == proceedStatus(i, converted)
<1>7. /\ d \in ChannelData
      /\ converted.mb_status # "ok" => d.mb_status # "ok"
      /\ converted.mb_status = "CH_DISABLED" => d.mb_status = "CH_DISABLED"
  BY <1>1, <1>6, StatusTyped
<1> HIDE DEF d
<1> DEFINE e == [d EXCEPT !.prev_data = d.data,
                          !.mb_status = IF first_run THEN "ok" ELSE @]
<1>8. e \in ChannelData /\ (~first_run => e.mb_status = d.mb_status)
  BY <1>7 DEF ChannelData, Statuses
<1>9. dataToSend' = [dataToSend EXCEPT ![i] = e]
  BY <1>5 DEF d
<1> HIDE DEF e
<1>10. QED
  BY <1>1, <1>4, <1>6, <1>7, <1>8, <1>9

(* From one publication to the next an alarm that was published is kept in  *)
(* dataToSend, unless the channel has been acknowledged in between.         *)
AlarmKept ==
  ~first_run => \A c \in Channels \ acked :
    registers[c].mb_status # "ok" => dataToSend[c].mb_status # "ok"

DisabledMarkKept ==
  ~first_run => \A c \in Channels \ acked :
    registers[c].mb_status = "CH_DISABLED" =>
      \/ dataToSend[c].mb_status = "CH_DISABLED"
      \/ /\ phase = "publish"
         /\ dataToSend[c].mb_status = "GROUP_ERROR"
         /\ Config[c].group # 0

(* The commands start from a fresh publication. *)
NobodyAcked == phase = "command" => acked = {}

Inv == TypeOK /\ AlarmKept /\ DisabledMarkKept /\ NobodyAcked

LEMMA InitInv == Init => Inv
<1> SUFFICES ASSUME Init PROVE Inv
  OBVIOUS
<1>1. 1 \in Channels
  BY ConfigTyped DEF Init, Channels
<1>2. Blank \in ChannelData
  BY MeasuredReadings DEF Blank, ChannelData, Statuses
<1>3. TypeOK
  BY <1>1, <1>2, ValuesAssumption, MeasuredReadings
  DEF Init, TypeOK, Statuses
<1>4. first_run
  BY ValuesAssumption DEF Init, first_run
<1>5. QED
  BY <1>3, <1>4 DEF Init, Inv, AlarmKept, DisabledMarkKept, NobodyAcked

LEMMA NextInv == Inv /\ [Next]_vars => Inv'
<1> SUFFICES ASSUME Inv, [Next]_vars PROVE Inv'
  OBVIOUS
<1> Config' = Config /\ Channels' = Channels
  BY ConfigKept
<1> USE DEF Inv
<1>1. CASE ProceedChannel
  <2>1. i' \in Channels /\ phase' \in {"channel", "group"}
    BY <1>1, ConfigTyped DEF ProceedChannel, TypeOK, Channels
  <2>2. TypeOK'
    BY <1>1, <2>1, ProceedTyped DEF ProceedChannel, TypeOK
  <2>3. AlarmKept' /\ DisabledMarkKept' /\ NobodyAcked'
    BY <1>1, ProceedTyped
    DEF ProceedChannel, AlarmKept, DisabledMarkKept, NobodyAcked, first_run
  <2>4. QED
    BY <2>2, <2>3
<1>2. CASE proceedGroup
  <2>1. ASSUME NEW c \in Channels
        PROVE  /\ GroupMarked(c) \in {"GROUP_ERROR", dataToSend[c].mb_status}
               /\ GroupMarked(c) = "GROUP_ERROR" /\ dataToSend[c].mb_status # "GROUP_ERROR"
                    => Config[c].group # 0
    BY DEF GroupMarked, Deviates
  <2>2. ASSUME NEW c \in Channels
        PROVE  /\ dataToSend'[c] \in ChannelData
               /\ dataToSend'[c].mb_status = GroupMarked(c)
    <3>1. GroupMarked(c) \in Statuses
      BY <2>1 DEF TypeOK, ChannelData, Statuses, Alarms
    <3>2. dataToSend'[c] = [dataToSend[c] EXCEPT !.mb_status = GroupMarked(c)]
      BY <1>2 DEF proceedGroup
    <3> HIDE DEF Inv
    <3>3. dataToSend[c] \in ChannelData
      BY DEF Inv, TypeOK
    <3>4. QED
      BY <3>1, <3>2, <3>3 DEF ChannelData
  <2>3. dataToSend' \in [Channels -> ChannelData]
    <3>1. dataToSend' = [c \in Channels |-> dataToSend'[c]]
      BY <1>2 DEF proceedGroup
    <3>2. QED
      BY <2>2, <3>1
  <2>4. TypeOK'
    BY <1>2, <2>3 DEF proceedGroup, TypeOK
  <2>5. AlarmKept' /\ DisabledMarkKept' /\ NobodyAcked'
    BY <1>2, <2>1, <2>2
    DEF proceedGroup, AlarmKept, DisabledMarkKept, NobodyAcked, first_run
  <2>6. QED
    BY <2>4, <2>5
<1>3. CASE Publish
  <2>1. registers' \in [Channels -> [data : Readings, mb_status : Statuses]]
    BY <1>3 DEF Publish, TypeOK, ChannelData
  <2>2. ticks' \in 1 .. FirstTicks + 1
    BY <1>3, ValuesAssumption DEF Publish, TypeOK, first_run
  <2>3. TypeOK'
    BY <1>3, <2>1, <2>2 DEF Publish, TypeOK
  <2>4. AlarmKept' /\ DisabledMarkKept' /\ NobodyAcked'
    BY <1>3 DEF Publish, AlarmKept, DisabledMarkKept, NobodyAcked
  <2>5. QED
    BY <2>3, <2>4
<1>4. CASE kvitCommand
  <2>1. dataToSend' \in [Channels -> ChannelData]
    <3>1. ASSUME NEW c \in Channels
          PROVE  [dataToSend[c] EXCEPT !.mb_status = "ok"] \in ChannelData
      BY DEF TypeOK, ChannelData, Statuses
    <3>2. dataToSend' = [c \in Channels |-> [dataToSend[c] EXCEPT !.mb_status = "ok"]]
      BY <1>4 DEF kvitCommand
    <3> HIDE DEF ChannelData
    <3>3. QED
      BY <3>1, <3>2
  <2>2. TypeOK'
    BY <1>4, <2>1 DEF kvitCommand, TypeOK
  <2>3. AlarmKept' /\ DisabledMarkKept' /\ NobodyAcked'
    BY <1>4 DEF kvitCommand, AlarmKept, DisabledMarkKept, NobodyAcked
  <2>4. QED
    BY <2>2, <2>3
<1>5. ASSUME NEW request \in [Channels -> {"none", "kvit", "disable"}],
             ChannelCommands(request)
      PROVE  Inv'
  <2>1. ASSUME NEW c \in Channels
        PROVE  /\ dataToSend'[c] \in ChannelData
               /\ request[c] = "none" => dataToSend'[c] = dataToSend[c]
               /\ request[c] = "disable" => dataToSend'[c].mb_status = "CH_DISABLED"
    <3>1. dataToSend[c] \in ChannelData /\ {"ok", "CH_DISABLED"} \subseteq Statuses
      BY DEF TypeOK, Statuses, Alarms
    <3>2. CASE request[c] = "kvit"
      <4>1. dataToSend'[c] = [dataToSend[c] EXCEPT !.mb_status = "ok"]
        BY <1>5, <3>2 DEF ChannelCommands
      <4>2. QED
        BY <3>1, <3>2, <4>1 DEF ChannelData
    <3>3. CASE request[c] = "disable"
      <4>1. dataToSend'[c] = [dataToSend[c] EXCEPT !.mb_status = "CH_DISABLED"]
        BY <1>5, <3>3 DEF ChannelCommands
      <4>2. QED
        BY <3>1, <3>3, <4>1 DEF ChannelData
    <3>4. CASE request[c] = "none"
      <4>1. dataToSend'[c] = dataToSend[c]
        BY <1>5, <3>4 DEF ChannelCommands
      <4>2. QED
        BY <3>1, <3>4, <4>1
    <3>5. QED
      BY <3>2, <3>3, <3>4
  <2>2. dataToSend' \in [Channels -> ChannelData]
    <3>1. dataToSend' = [c \in Channels |-> dataToSend'[c]]
      BY <1>5 DEF ChannelCommands
    <3>2. QED
      BY <2>1, <3>1
  <2>3. TypeOK'
    BY <1>5, <2>2 DEF ChannelCommands, TypeOK
  <2>4. \A c \in Channels \ acked' : request[c] \in {"none", "disable"}
    BY <1>5 DEF ChannelCommands
  <2>5. AlarmKept' /\ DisabledMarkKept' /\ NobodyAcked'
    BY <1>5, <2>1, <2>4
    DEF ChannelCommands, AlarmKept, DisabledMarkKept, NobodyAcked, first_run
  <2>6. QED
    BY <2>3, <2>5
<1>6. CASE UNCHANGED vars
  BY <1>6 DEF vars, TypeOK, AlarmKept, DisabledMarkKept, NobodyAcked, first_run
<1>7. QED
  BY <1>1, <1>2, <1>3, <1>4, <1>5, <1>6 DEF Next, checkCommand

(* The registers are written by Publish alone. *)
LEMMA PublishingIsPublish == [Next]_vars /\ Publishing => Publish
<1> SUFFICES ASSUME [Next]_vars, Publishing PROVE Publish
  OBVIOUS
<1>1. ~ProceedChannel
  BY DEF ProceedChannel, Publishing
<1>2. ~proceedGroup
  BY DEF proceedGroup, Publishing
<1>3. ~checkCommand
  BY DEF checkCommand, kvitCommand, ChannelCommands, Publishing
<1>4. ~UNCHANGED vars
  BY DEF vars, Publishing
<1>5. QED
  BY <1>1, <1>2, <1>3, <1>4 DEF Next

LEMMA InvHolds == Spec => []Inv
  BY InitInv, NextInv, PTL DEF Spec

(* Whatever the modules send and the clients command, every variable keeps  *)
(* its type: neither a value that is held nor one that is published is ever *)
(* NaN.                                                                     *)
THEOREM TypeCorrect == Spec => []TypeOK
  BY InvHolds, PTL DEF Inv

(* For every list of channels: proceedData and proceedGroup never withdraw  *)
(* a published alarm; only an acknowledgement does.                         *)
THEOREM AlarmsAreLatched == Spec => AlarmLatched
<1>1. Inv /\ [Next]_vars =>
        [Publishing /\ ~first_run =>
           \A c \in Channels \ acked :
             registers[c].mb_status # "ok" => registers'[c].mb_status # "ok"]_vars
  BY PublishingIsPublish DEF Inv, AlarmKept, Publish
<1>2. QED
  BY <1>1, InvHolds, PTL DEF Spec, AlarmLatched

(* For every list of channels: only an acknowledgement enables a disabled   *)
(* channel again, only a deviation from its group hides that it is disabled.*)
THEOREM DisabledChannelsStay == Spec => DisabledStays
<1>1. Inv /\ [Next]_vars =>
        [Publishing /\ ~first_run =>
           \A c \in Channels \ acked :
             registers[c].mb_status = "CH_DISABLED" =>
               \/ registers'[c].mb_status = "CH_DISABLED"
               \/ registers'[c].mb_status = "GROUP_ERROR" /\ Config[c].group # 0]_vars
  BY PublishingIsPublish DEF Inv, DisabledMarkKept, Publish
<1>2. QED
  BY <1>1, InvHolds, PTL DEF Spec, DisabledStays

----------------------------------------------------------------------------
(* The second invariant relates a channel to its last publication, through  *)
(* the tick.  A channel is sound, compared to what was published of it      *)
(* before, when a fault holds its value and no mark means no fault.         *)
Settles(c, was, e) ==
  /\ \/ e.error_count # 0
     \/ e.status = 1 /\ was.mb_status # "MVV_ERROR"
     => e.data = was.data
  /\ e.mb_status = "ok" =>
       /\ e.error_count < MissLimit
       /\ e.status = 0
       /\ e.data \in Config[c].min_range .. Config[c].max_range
       /\ e.data \in Config[c].over_min .. Config[c].over_max
       /\ Abs(e.data - was.data) <= Config[c].step_delta

Proceeded(c) == phase \in {"group", "publish"} \/ (phase = "channel" /\ c < i)

PreviousIsData == \A c \in Channels : dataToSend[c].prev_data = dataToSend[c].data

TickSound ==
  ~first_run => \A c \in Channels :
    IF Proceeded(c)
      THEN Settles(c, registers[c], dataToSend[c])
      ELSE /\ dataToSend[c].data = registers[c].data
           /\ dataToSend[c].mb_status = "MVV_ERROR" => registers[c].mb_status = "MVV_ERROR"

(* The parts of a channel that the conversions and the checks never touch.  *)
Same(d, e) == /\ e.prev_data = d.prev_data
              /\ e.status = d.status
              /\ e.error_count = d.error_count

LEMMA CopiedSame ==
  ASSUME NEW d \in ChannelData, NEW sample \in Samples, ~first_run
  PROVE  Copied(d, sample).prev_data = d.prev_data
  BY DEF Copied, ChannelData

LEMMA ConversionSame ==
  ASSUME NEW c \in Channels, NEW d \in RawData, NEW converted \in Conversions(c, d)
  PROVE  /\ Same(d, converted)
         /\ converted.mb_status = "MVV_ERROR" => d.mb_status = "MVV_ERROR"
<1>1. ASSUME NEW cold
      PROVE  /\ Same(d, Thermocouple(d, cold))
             /\ Thermocouple(d, cold).mb_status = "MVV_ERROR" => d.mb_status = "MVV_ERROR"
  BY DEF Thermocouple, RawData, Same
<1>2. ASSUME NEW e \in Calibrated(d)
      PROVE  Same(d, e) /\ e.mb_status = d.mb_status
  BY DEF Calibrated, RawData, Same
<1>3. CASE Config[c].type = "B"
  BY <1>1, <1>3 DEF Conversions
<1>4. CASE Config[c].type = "line"
  BY <1>2, <1>4 DEF Conversions
<1>5. CASE Config[c].type \notin {"B", "line"}
  BY <1>5 DEF Conversions, Same
<1>6. QED
  BY <1>3, <1>4, <1>5

(* The checks of the value, one by one: what each leaves of the value, and  *)
(* what it has checked when no mark is set.                                 *)
LEMMA ValueCheckedSound ==
  ASSUME Config \in Configs, NEW c \in Channels, NEW d \in ChannelData
  PROVE  LET e == ValueChecked(c, d)
         IN /\ Same(d, e)
            /\ e.data \in {d.data, d.prev_data}
            /\ d.status = 1 /\ d.mb_status \notin {"MVV_ERROR", "LINE_ERROR"}
                 => e.data = d.prev_data
            /\ d.mb_status = "LINE_ERROR" => e.mb_status = "LINE_ERROR"
            /\ e.mb_status = "ok" =>
                 /\ d.mb_status = "ok"
                 /\ e.data = d.data
                 /\ d.status = 0
                 /\ e.data \in Config[c].min_range .. Config[c].max_range
                 /\ e.data \in Config[c].over_min .. Config[c].over_max
                 /\ Abs(e.data - d.prev_data) <= Config[c].step_delta
<1> DEFINE s == StepChecked(c, d)
           o == OverloadChecked(c, s)
           l == LineChecked(o)
           r == RangeChecked(c, l)
           conf == Config[c]
<1>1. /\ conf.step_delta \in Int /\ conf.over_min \in Int /\ conf.over_max \in Int
      /\ conf.min_range \in Int /\ conf.max_range \in Int
  BY ConfigTyped DEF ChannelConfig
<1>2. /\ d.data \in Int /\ d.prev_data \in Int /\ d.status \in {0, 1}
      /\ Abs(d.data - d.prev_data) \in Int
  <2>1. d.data \in Readings /\ d.prev_data \in Readings /\ d.status \in 0 .. 1
    BY DEF ChannelData
  <2>2. d.data \in Int /\ d.prev_data \in Int
    BY <2>1, ValuesAssumption
  <2>3. Abs(d.data - d.prev_data) \in Int
    BY <2>2 DEF Abs
  <2>4. QED
    BY <2>1, <2>2, <2>3
<1>3. /\ s \in ChannelData /\ Same(d, s) /\ s.data = d.data
      /\ s.mb_status = "ok" => d.mb_status = "ok"
                               /\ Abs(d.data - d.prev_data) <= conf.step_delta
  BY <1>1, <1>2 DEF StepChecked, ChannelData, Same, Statuses, Alarms
<1> HIDE DEF s
<1>4. /\ o \in ChannelData /\ Same(s, o) /\ o.data = s.data
      /\ o.mb_status = "ok" => s.mb_status = "ok"
                               /\ o.data \in conf.over_min .. conf.over_max
  BY <1>1, <1>2, <1>3 DEF OverloadChecked, ChannelData, Same, Statuses, Alarms
<1> HIDE DEF o
<1>5. /\ l \in ChannelData /\ Same(o, l) /\ l.data \in {o.data, o.prev_data}
      /\ o.status = 1 => l.data = o.prev_data
      /\ l.mb_status = "ok" => o.mb_status = "ok" /\ o.status # 1 /\ l.data = o.data
  BY <1>4 DEF LineChecked, ChannelData, Same, Statuses, Alarms
<1>6. l.data \in Int
  BY <1>5, ValuesAssumption DEF ChannelData
<1> HIDE DEF l
<1>7. /\ Same(l, r) /\ r.data = l.data
      /\ r.mb_status = "ok" => l.mb_status = "ok"
                               /\ r.data \in conf.min_range .. conf.max_range
  BY <1>1, <1>5, <1>6 DEF RangeChecked, ChannelData, Same
<1> HIDE DEF r
<1>8. /\ Same(d, r)
      /\ r.data \in {d.data, d.prev_data}
      /\ d.status = 1 => r.data = d.prev_data
      /\ r.mb_status = "ok" =>
            /\ d.mb_status = "ok" /\ d.status = 0 /\ r.data = d.data
            /\ r.data \in conf.min_range .. conf.max_range
            /\ r.data \in conf.over_min .. conf.over_max
            /\ Abs(r.data - d.prev_data) <= conf.step_delta
  BY <1>2, <1>3, <1>4, <1>5, <1>7 DEF Same
<1>9. ValueChecked(c, d) = IF d.mb_status \in {"MVV_ERROR", "LINE_ERROR"} THEN d ELSE r
  BY DEF ValueChecked, r, l, o, s
<1>10. QED
  BY <1>8, <1>9 DEF Same

(* proceedStatus settles a channel: prev_data is what was published before. *)
LEMMA StatusSettles ==
  ASSUME Config \in Configs, NEW c \in Channels, NEW d \in RawData,
         NEW was, was.data = d.prev_data,
         d.mb_status = "MVV_ERROR" => was.mb_status = "MVV_ERROR"
  PROVE  Settles(c, was, proceedStatus(c, d))
<1> DEFINE u == Substituted(d)
           m == ModuleChecked(u)
           v == ValueChecked(c, m)
           k == DisabledKept(d, v)
           f == Settled(k)
<1>1. u \in ChannelData /\ Same(d, u) /\ u.mb_status = d.mb_status
  BY SubstitutedTyped DEF Substituted, RawData, ChannelData, Same
<1> HIDE DEF u
<1>2. m \in ChannelData
  BY <1>1, ModuleCheckedTyped
<1>3. /\ Same(u, m)
      /\ u.error_count # 0 => m.data = u.prev_data
      /\ m.mb_status = IF u.error_count >= MissLimit THEN "MVV_ERROR" ELSE u.mb_status
  BY <1>1 DEF ModuleChecked, ChannelData, Same
<1> HIDE DEF m
<1>4. v \in ChannelData
  BY <1>2, ValueCheckedTyped
<1>5. /\ Same(m, v)
      /\ v.data \in {m.data, m.prev_data}
      /\ m.status = 1 /\ m.mb_status \notin {"MVV_ERROR", "LINE_ERROR"}
           => v.data = m.prev_data
      /\ m.mb_status = "LINE_ERROR" => v.mb_status = "LINE_ERROR"
      /\ v.mb_status = "ok" =>
           /\ m.mb_status = "ok"
           /\ v.data = m.data
           /\ m.status = 0
           /\ v.data \in Config[c].min_range .. Config[c].max_range
           /\ v.data \in Config[c].over_min .. Config[c].over_max
           /\ Abs(v.data - m.prev_data) <= Config[c].step_delta
  BY <1>2, ValueCheckedSound
<1> HIDE DEF v
<1>6. /\ k \in ChannelData /\ Same(v, k) /\ k.data = v.data
      /\ k.mb_status = "ok" => v.mb_status = "ok"
      /\ d.mb_status # "CH_DISABLED" => k.mb_status = v.mb_status
  BY <1>4 DEF DisabledKept, ChannelData, Same, Statuses, Alarms
<1> HIDE DEF k
<1>7. /\ f.status = k.status /\ f.error_count = k.error_count
      /\ f.mb_status = k.mb_status
      /\ f.data = IF Held(k) THEN k.prev_data ELSE k.data
  BY <1>6 DEF Settled, ChannelData
<1>8. ~(d.error_count >= MissLimit) => d.error_count < MissLimit
  BY DEF RawData, MissLimit
<1>9. f.error_count # 0 => f.data = was.data
  BY <1>1, <1>3, <1>5, <1>6, <1>7 DEF Same
<1>10. f.status = 1 /\ was.mb_status # "MVV_ERROR" => f.data = was.data
  <2>1. CASE d.error_count # 0
    BY <1>1, <1>3, <1>5, <1>6, <1>7, <1>9, <2>1 DEF Same
  <2>2. CASE d.error_count = 0
    <3>1. m.mb_status = d.mb_status
      BY <1>1, <1>3, <2>2 DEF Same, MissLimit
    <3>2. QED
      BY <1>1, <1>3, <1>5, <1>6, <1>7, <3>1 DEF Same, Held
  <2>3. QED
    BY <2>1, <2>2
<1>11. f.mb_status = "ok" =>
         /\ f.error_count < MissLimit
         /\ f.status = 0
         /\ f.data \in Config[c].min_range .. Config[c].max_range
         /\ f.data \in Config[c].over_min .. Config[c].over_max
         /\ Abs(f.data - was.data) <= Config[c].step_delta
  BY <1>1, <1>3, <1>5, <1>6, <1>7, <1>8 DEF Same, Held
<1>12. f = proceedStatus(c, d)
  BY DEF proceedStatus, k, v, m, u
<1> HIDE DEF f
<1>13. QED
  BY <1>9, <1>10, <1>11, <1>12 DEF Settles

(* One channel of proceedData, compared to its last publication. *)
LEMMA ProceedSettles ==
  ASSUME TypeOK, PreviousIsData, TickSound, ProceedChannel
  PROVE  /\ dataToSend'[i].prev_data = dataToSend'[i].data
         /\ ~first_run => Settles(i, registers[i], dataToSend'[i])
         /\ \A c \in Channels \ {i} : dataToSend'[c] = dataToSend[c]
<1>1. /\ Config \in Configs /\ i \in Channels
      /\ dataToSend \in [Channels -> ChannelData]
  BY DEF TypeOK
<1>2. PICK sample \in Samples :
        \E converted \in Conversions(i, Copied(dataToSend[i], sample)) :
          dataToSend' = [dataToSend EXCEPT ![i] =
            [proceedStatus(i, converted) EXCEPT
               !.prev_data = proceedStatus(i, converted).data,
               !.mb_status = IF first_run THEN "ok" ELSE @]]
  BY DEF ProceedChannel
<1> DEFINE raw == Copied(dataToSend[i], sample)
<1>3. dataToSend[i] \in ChannelData
  BY <1>1
<1>4. /\ raw \in RawData /\ raw.data \in Values \cup {0, NaN}
      /\ raw.mb_status = dataToSend[i].mb_status
      /\ ~first_run => raw.prev_data = dataToSend[i].prev_data
  BY <1>3, CopiedTyped, CopiedSame
<1> HIDE DEF raw
<1>5. PICK converted \in Conversions(i, raw) :
          dataToSend' = [dataToSend EXCEPT ![i] =
            [proceedStatus(i, converted) EXCEPT
               !.prev_data = proceedStatus(i, converted).data,
               !.mb_status = IF first_run THEN "ok" ELSE @]]
  BY <1>2 DEF raw
<1> DEFINE d == proceedStatus(i, converted)
           e == [d EXCEPT !.prev_data = d.data,
                          !.mb_status = IF first_run THEN "ok" ELSE @]
<1>6. converted \in RawData
  BY <1>1, <1>4, ConversionTyped
<1>7. /\ Same(raw, converted)
      /\ converted.mb_status = "MVV_ERROR" => raw.mb_status = "MVV_ERROR"
  BY <1>1, <1>4, ConversionSame
<1>8. ~first_run =>
        /\ registers[i].data = converted.prev_data
        /\ converted.mb_status = "MVV_ERROR" => registers[i].mb_status = "MVV_ERROR"
  <2>1. ~Proceeded(i)
    BY <1>1 DEF ProceedChannel, Proceeded, Channels
  <2>2. QED
    BY <1>1, <1>4, <1>7, <2>1 DEF TickSound, PreviousIsData, Same
<1>9. ~first_run => Settles(i, registers[i], d)
  BY <1>1, <1>6, <1>8, StatusSettles
<1>10. d \in ChannelData
  BY <1>1, <1>6, StatusTyped
<1> HIDE DEF d
<1>11. /\ e.prev_data = e.data
       /\ ~first_run => /\ e.data = d.data /\ e.mb_status = d.mb_status
                        /\ e.status = d.status /\ e.error_count = d.error_count
  BY <1>10 DEF ChannelData
<1>12. dataToSend' = [dataToSend EXCEPT ![i] = e]
  BY <1>5 DEF d
<1> HIDE DEF e
<1>13. dataToSend'[i] = e /\ \A c \in Channels \ {i} : dataToSend'[c] = dataToSend[c]
  BY <1>1, <1>12
<1>14. ~first_run => Settles(i, registers[i], e)
  BY <1>9, <1>11 DEF Settles
<1>15. QED
  BY <1>11, <1>13, <1>14

FirstChannel == phase # "channel" => i = 1

TickInv == Inv /\ PreviousIsData /\ FirstChannel /\ TickSound

LEMMA InitTickInv == Init => TickInv
<1> SUFFICES ASSUME Init PROVE TickInv
  OBVIOUS
<1>1. first_run
  BY ValuesAssumption DEF Init, first_run
<1>2. QED
  BY <1>1, InitInv DEF Init, TickInv, PreviousIsData, FirstChannel, TickSound, Blank

LEMMA NextTickInv == TickInv /\ [Next]_vars => TickInv'
<1> SUFFICES ASSUME TickInv, [Next]_vars PROVE PreviousIsData' /\ TickSound'
  <2> USE DEF TickInv, FirstChannel
  <2>1. CASE ProceedChannel
    BY <2>1, NextInv DEF ProceedChannel
  <2>2. CASE proceedGroup \/ Publish \/ checkCommand
    BY <2>2, NextInv DEF proceedGroup, Publish, checkCommand, kvitCommand, ChannelCommands
  <2>3. CASE UNCHANGED vars
    BY <2>3, NextInv DEF vars
  <2>4. QED
    BY <2>1, <2>2, <2>3 DEF Next
<1> USE DEF TickInv
<1> Config' = Config /\ Channels' = Channels
  BY ConfigKept
<1>0. /\ TypeOK /\ Config \in Configs /\ i \in Channels
      /\ dataToSend \in [Channels -> ChannelData]
  BY DEF Inv, TypeOK
<1>1. CASE ProceedChannel
  <2>1. /\ dataToSend'[i].prev_data = dataToSend'[i].data
        /\ ~first_run => Settles(i, registers[i], dataToSend'[i])
        /\ \A c \in Channels \ {i} : dataToSend'[c] = dataToSend[c]
    BY <1>0, <1>1, ProceedSettles
  <2>2. registers' = registers /\ ticks' = ticks /\ phase = "channel"
    BY <1>1 DEF ProceedChannel
  <2>3. \A c \in Channels : Proceeded(c)' <=> c = i \/ Proceeded(c)
    <3>1. CASE i < Len(Config)
      BY <1>0, <1>1, <2>2, <3>1 DEF ProceedChannel, Proceeded, Channels
    <3>2. CASE ~(i < Len(Config))
      BY <1>0, <1>1, <2>2, <3>2, ConfigTyped DEF ProceedChannel, Proceeded, Channels
    <3>3. QED
      BY <3>1, <3>2
  <2>4. ASSUME ~first_run', NEW c \in Channels
        PROVE  IF Proceeded(c)'
                 THEN Settles(c, registers'[c], dataToSend'[c])
                 ELSE /\ dataToSend'[c].data = registers'[c].data
                      /\ dataToSend'[c].mb_status = "MVV_ERROR"
                           => registers'[c].mb_status = "MVV_ERROR"
    <3>1. ~first_run
      BY <2>2, <2>4 DEF first_run
    <3>2. CASE c = i
      BY <2>1, <2>2, <2>3, <3>1, <3>2
    <3>3. CASE c # i
      BY <2>1, <2>2, <2>3, <3>1, <3>3 DEF TickSound
    <3>4. QED
      BY <3>2, <3>3
  <2>5. TickSound'
    BY <2>4 DEF TickSound, Settles
  <2>6. PreviousIsData'
    BY <2>1 DEF PreviousIsData
  <2>7. QED
    BY <2>5, <2>6
<1>2. CASE proceedGroup
  <2>1. ASSUME NEW c \in Channels
        PROVE  /\ dataToSend'[c].data = dataToSend[c].data
               /\ dataToSend'[c].prev_data = dataToSend[c].prev_data
               /\ dataToSend'[c].status = dataToSend[c].status
               /\ dataToSend'[c].error_count = dataToSend[c].error_count
               /\ dataToSend'[c].mb_status = "ok" => dataToSend[c].mb_status = "ok"
    <3>1. dataToSend'[c] = [dataToSend[c] EXCEPT !.mb_status = GroupMarked(c)]
      BY <1>2 DEF proceedGroup
    <3>2. dataToSend[c] \in ChannelData
      BY <1>0
    <3>3. GroupMarked(c) = "ok" => dataToSend[c].mb_status = "ok"
      BY DEF GroupMarked
    <3>4. QED
      BY <3>1, <3>2, <3>3 DEF ChannelData
  <2>2. PreviousIsData'
    BY <2>1 DEF PreviousIsData
  <2>3. ~first_run' => ~first_run /\ \A c \in Channels : Proceeded(c) /\ Proceeded(c)'
    BY <1>2 DEF proceedGroup, first_run, Proceeded
  <2>4. ASSUME ~first_run', NEW c \in Channels
        PROVE  Settles(c, registers'[c], dataToSend'[c])
    <3>1. Settles(c, registers[c], dataToSend[c])
      BY <2>3, <2>4 DEF TickSound
    <3>2. QED
      BY <1>2, <2>1, <3>1 DEF Settles, proceedGroup
  <2>5. TickSound'
    BY <2>3, <2>4 DEF TickSound, Settles
  <2>6. QED
    BY <2>2, <2>5
<1>3. CASE Publish
  <2>1. \A c \in Channels : ~Proceeded(c)'
    BY <1>3 DEF Publish, Proceeded
  <2>2. QED
    BY <1>0, <1>3, <2>1 DEF Publish, TickSound, PreviousIsData
<1>4. CASE checkCommand
  <2>1. ASSUME NEW c \in Channels
        PROVE  /\ dataToSend'[c].data = dataToSend[c].data
               /\ dataToSend'[c].prev_data = dataToSend[c].prev_data
               /\ dataToSend'[c].mb_status = "MVV_ERROR"
                    => dataToSend[c].mb_status = "MVV_ERROR"
    <3>1. dataToSend[c] \in ChannelData
      BY <1>0
    <3>2. \/ dataToSend'[c] = dataToSend[c]
          \/ dataToSend'[c] = [dataToSend[c] EXCEPT !.mb_status = "ok"]
          \/ dataToSend'[c] = [dataToSend[c] EXCEPT !.mb_status = "CH_DISABLED"]
      <4>1. CASE kvitCommand
        BY <4>1 DEF kvitCommand
      <4>2. ASSUME NEW request \in [Channels -> {"none", "kvit", "disable"}],
                   ChannelCommands(request)
            PROVE  <3>2!1 \/ <3>2!2 \/ <3>2!3
        BY <4>2 DEF ChannelCommands
      <4>3. QED
        BY <1>4, <4>1, <4>2 DEF checkCommand
    <3>3. QED
      BY <3>1, <3>2 DEF ChannelData
  <2>2. /\ phase = "command" /\ phase' = "channel" /\ i' = i
        /\ ticks' = ticks /\ registers' = registers
    BY <1>4 DEF checkCommand, kvitCommand, ChannelCommands
  <2>3. PreviousIsData'
    BY <2>1 DEF PreviousIsData
  <2>4. \A c \in Channels : ~Proceeded(c)
    BY <2>2 DEF Proceeded
  <2>5. \A c \in Channels : ~Proceeded(c)'
    BY <1>0, <2>2 DEF Proceeded, FirstChannel, Channels
  <2>6. TickSound'
    BY <2>1, <2>2, <2>4, <2>5 DEF TickSound, first_run
  <2>7. QED
    BY <2>3, <2>6
<1>5. CASE UNCHANGED vars
  BY <1>5 DEF vars, PreviousIsData, TickSound, first_run, Proceeded, Settles
<1>6. QED
  BY <1>1, <1>2, <1>3, <1>4, <1>5 DEF Next

LEMMA TickInvHolds == Spec => []TickInv
  BY InitTickInv, NextTickInv, PTL DEF Spec

(* What a publication writes, and that every channel has been proceeded.    *)
LEMMA PublishedSettles ==
  ASSUME TickInv, [Next]_vars, Publishing, ~first_run, NEW c \in Channels
  PROVE  /\ Settles(c, registers[c], dataToSend[c])
         /\ registers'[c].data = dataToSend[c].data
         /\ registers'[c].mb_status = dataToSend[c].mb_status
<1>1. Publish
  BY PublishingIsPublish
<1>2. Proceeded(c)
  BY <1>1 DEF Publish, Proceeded
<1>3. Settles(c, registers[c], dataToSend[c])
  BY <1>2 DEF TickInv, TickSound
<1>4. QED
  BY <1>1, <1>3 DEF Publish

(* For every configuration: while the frames of a channel are missing, or   *)
(* its line is broken and no module error is latched over it, the value     *)
(* published is the last good one.                                          *)
THEOREM LastGoodValueIsHeld == Spec => HoldOnFault
<1>1. TickInv /\ [Next]_vars =>
        [Publishing /\ ~first_run =>
           \A c \in Channels :
             \/ dataToSend[c].error_count # 0
             \/ dataToSend[c].status = 1 /\ registers[c].mb_status # "MVV_ERROR"
             => registers'[c].data = registers[c].data]_vars
  BY PublishedSettles DEF Settles
<1>2. QED
  BY <1>1, TickInvHolds, PTL DEF Spec, HoldOnFault

(* For every configuration: a channel published without a mark is healthy,  *)
(* within its thresholds and within one step of its last publication.       *)
THEOREM UnmarkedIsHealthy == Spec => NoFalseOk
<1>1. TickInv /\ [Next]_vars =>
        [Publishing /\ ~first_run =>
           \A c \in Channels : registers'[c].mb_status = "ok" =>
             /\ dataToSend[c].error_count < MissLimit
             /\ dataToSend[c].status = 0
             /\ registers'[c].data \in Config[c].min_range .. Config[c].max_range
             /\ registers'[c].data \in Config[c].over_min .. Config[c].over_max
             /\ Abs(registers'[c].data - registers[c].data) <= Config[c].step_delta]_vars
  BY PublishedSettles DEF Settles
<1>2. QED
  BY <1>1, TickInvHolds, PTL DEF Spec, NoFalseOk

----------------------------------------------------------------------------
(* The third invariant: a thermocouple that has been proceeded in this tick *)
(* and has no mark was computed with a sound junction, whose mark has not   *)
(* changed since.                                                           *)
Trusting(c) == /\ Config[c].type = "B" /\ Config[c].comp < c
               /\ Config[Config[c].comp].group = 0

JunctionSound ==
  ~first_run => \A c \in Channels :
    /\ Trusting(c) /\ Proceeded(c)
    /\ dataToSend[c].mb_status = "ok" /\ dataToSend[c].error_count = 0
    => \/ dataToSend[Config[c].comp].mb_status = "ok"
       \/ dataToSend[c].data = OpenCircuit

(* proceedStatus lets the value of a channel without a mark pass.           *)
LEMMA StatusPasses ==
  ASSUME Config \in Configs, NEW c \in Channels, NEW d \in RawData
  PROVE  /\ proceedStatus(c, d).error_count = d.error_count
         /\ /\ d.data # NaN /\ d.error_count = 0
            /\ proceedStatus(c, d).mb_status = "ok"
            => proceedStatus(c, d).data = d.data
<1> DEFINE u == Substituted(d)
           m == ModuleChecked(u)
           v == ValueChecked(c, m)
           k == DisabledKept(d, v)
           f == Settled(k)
<1>1. /\ u \in ChannelData /\ Same(d, u)
      /\ d.data # NaN => u.data = d.data
  BY SubstitutedTyped DEF Substituted, RawData, ChannelData, Same
<1> HIDE DEF u
<1>2. m \in ChannelData
  BY <1>1, ModuleCheckedTyped
<1>3. Same(u, m) /\ (u.error_count = 0 => m.data = u.data)
  BY <1>1 DEF ModuleChecked, ChannelData, Same
<1> HIDE DEF m
<1>4. v \in ChannelData
  BY <1>2, ValueCheckedTyped
<1>5. Same(m, v) /\ (v.mb_status = "ok" => v.data = m.data)
  BY <1>2, ValueCheckedSound
<1> HIDE DEF v
<1>6. /\ k \in ChannelData /\ Same(v, k) /\ k.data = v.data
      /\ k.mb_status = "ok" => v.mb_status = "ok"
  BY <1>4 DEF DisabledKept, ChannelData, Same, Statuses, Alarms
<1> HIDE DEF k
<1>7. /\ f.error_count = k.error_count /\ f.mb_status = k.mb_status
      /\ f.mb_status = "ok" => f.data = k.data
  BY <1>6 DEF Settled, Held, ChannelData
<1>8. f = proceedStatus(c, d)
  BY DEF proceedStatus, k, v, m, u
<1> HIDE DEF f
<1>9. f.error_count = d.error_count
  BY <1>1, <1>3, <1>5, <1>6, <1>7 DEF Same
<1>10. d.data # NaN /\ d.error_count = 0 /\ f.mb_status = "ok" => f.data = d.data
  BY <1>1, <1>3, <1>5, <1>6, <1>7 DEF Same
<1>11. QED
  BY <1>8, <1>9, <1>10

(* A thermocouple whose junction is marked gets a mark, or reports an open  *)
(* circuit.                                                                 *)
LEMMA JunctionChecked ==
  ASSUME Config \in Configs, dataToSend \in [Channels -> ChannelData],
         NEW c \in Channels, Config[c].type = "B",
         NEW d \in RawData, d.data \in Values \cup {0, NaN},
         NEW converted \in Conversions(c, d),
         proceedStatus(c, converted).error_count = 0,
         proceedStatus(c, converted).mb_status = "ok",
         dataToSend[Config[c].comp].mb_status # "ok"
  PROVE  proceedStatus(c, converted).data = OpenCircuit
<1>1. converted \in RawData
  BY ConversionTyped
<1>2. converted = Thermocouple(d, dataToSend[Config[c].comp])
  BY DEF Conversions
<1>3. converted.mb_status = "ok"
  BY <1>1, StatusTyped
<1>4. d.data = OpenCircuit /\ converted = d
  BY <1>2, <1>3 DEF Thermocouple, RawData
<1>5. OpenCircuit # NaN
  BY ValuesAssumption
<1>6. QED
  BY <1>1, <1>4, <1>5, StatusPasses

LEMMA ProceedTrusts ==
  ASSUME TypeOK, ProceedChannel, ~first_run, Config[i].type = "B",
         dataToSend'[i].mb_status = "ok", dataToSend'[i].error_count = 0,
         dataToSend[Config[i].comp].mb_status # "ok"
  PROVE  dataToSend'[i].data = OpenCircuit
<1>1. /\ Config \in Configs /\ i \in Channels
      /\ dataToSend \in [Channels -> ChannelData] /\ dataToSend[i] \in ChannelData
  BY DEF TypeOK
<1>2. PICK sample \in Samples :
        \E converted \in Conversions(i, Copied(dataToSend[i], sample)) :
          dataToSend' = [dataToSend EXCEPT ![i] =
            [proceedStatus(i, converted) EXCEPT
               !.prev_data = proceedStatus(i, converted).data,
               !.mb_status = IF first_run THEN "ok" ELSE @]]
  BY DEF ProceedChannel
<1> DEFINE raw == Copied(dataToSend[i], sample)
<1>3. raw \in RawData /\ raw.data \in Values \cup {0, NaN}
  BY <1>1, CopiedTyped
<1> HIDE DEF raw
<1>4. PICK converted \in Conversions(i, raw) :
          dataToSend' = [dataToSend EXCEPT ![i] =
            [proceedStatus(i, converted) EXCEPT
               !.prev_data = proceedStatus(i, converted).data,
               !.mb_status = IF first_run THEN "ok" ELSE @]]
  BY <1>2 DEF raw
<1> DEFINE d == proceedStatus(i, converted)
<1>5. d \in ChannelData
  BY <1>1, <1>3, ConversionTyped, StatusTyped
<1>6. d.mb_status = "ok" /\ d.error_count = 0 => d.data = OpenCircuit
  BY <1>1, <1>3, JunctionChecked
<1>7. dataToSend' = [dataToSend EXCEPT ![i] = [d EXCEPT !.prev_data = d.data,
                       !.mb_status = IF first_run THEN "ok" ELSE @]]
  BY <1>4
<1> HIDE DEF d
<1>8. /\ dataToSend'[i].mb_status = d.mb_status
      /\ dataToSend'[i].error_count = d.error_count
      /\ dataToSend'[i].data = d.data
  BY <1>1, <1>5, <1>7 DEF ChannelData
<1>9. QED
  BY <1>6, <1>8

LEMMA NextJunction == TypeOK /\ FirstChannel /\ JunctionSound /\ [Next]_vars => JunctionSound'
<1> SUFFICES ASSUME TypeOK, FirstChannel, JunctionSound, [Next]_vars, ~first_run',
                    NEW c \in Channels, Trusting(c), Proceeded(c)',
                    dataToSend'[c].mb_status = "ok", dataToSend'[c].error_count = 0
             PROVE  \/ dataToSend'[Config[c].comp].mb_status = "ok"
                    \/ dataToSend'[c].data = OpenCircuit
  BY ConfigKept DEF JunctionSound, Trusting
<1>0. /\ Config \in Configs /\ i \in Channels
      /\ dataToSend \in [Channels -> ChannelData]
  BY DEF TypeOK
<1>1. Config[c].comp \in Channels /\ Config[c].comp < c
  BY <1>0, ConfigTyped DEF Trusting
<1>2. CASE ProceedChannel
  <2>1. ~first_run /\ dataToSend' = [dataToSend EXCEPT ![i] = dataToSend'[i]]
    BY <1>0, <1>2 DEF ProceedChannel, first_run
  <2>2. Proceeded(c) \/ c = i
    BY <1>0, <1>2, ConfigTyped DEF ProceedChannel, Proceeded, Channels
  <2>3. CASE c = i
    <3>1. dataToSend'[Config[c].comp] = dataToSend[Config[c].comp]
      BY <1>0, <1>1, <2>1, <2>3 DEF Channels
    <3>2. QED
      BY <1>2, <2>1, <2>3, <3>1, ProceedTrusts DEF Trusting
  <2>4. CASE c # i
    <3>1. c < i /\ Config[c].comp < i
      BY <1>0, <1>1, <1>2, <2>2, <2>4, ConfigTyped DEF ProceedChannel, Proceeded, Channels
    <3>2. /\ dataToSend'[c] = dataToSend[c]
          /\ dataToSend'[Config[c].comp] = dataToSend[Config[c].comp]
      BY <1>0, <1>1, <2>1, <2>4, <3>1 DEF Channels
    <3>3. QED
      BY <2>1, <2>2, <2>4, <3>2 DEF JunctionSound
  <2>5. QED
    BY <2>3, <2>4
<1>3. CASE proceedGroup
  <2>1. ~first_run /\ Proceeded(c)
    BY <1>3 DEF proceedGroup, first_run, Proceeded
  <2>2. ASSUME NEW k \in Channels
        PROVE  /\ dataToSend'[k].data = dataToSend[k].data
               /\ dataToSend'[k].error_count = dataToSend[k].error_count
               /\ dataToSend'[k].mb_status = GroupMarked(k)
    <3>1. dataToSend'[k] = [dataToSend[k] EXCEPT !.mb_status = GroupMarked(k)]
      BY <1>3 DEF proceedGroup
    <3>2. dataToSend[k] \in ChannelData
      BY <1>0
    <3>3. QED
      BY <3>1, <3>2 DEF ChannelData
  <2>3. dataToSend[c].mb_status = "ok"
    BY <2>2 DEF GroupMarked
  <2>4. GroupMarked(Config[c].comp) = dataToSend[Config[c].comp].mb_status
    BY DEF GroupMarked, Deviates, Trusting
  <2>5. QED
    BY <1>1, <2>1, <2>2, <2>3, <2>4 DEF JunctionSound
<1>4. CASE Publish
  BY <1>4 DEF Publish, Proceeded
<1>5. CASE checkCommand
  BY <1>5
  DEF checkCommand, kvitCommand, ChannelCommands, FirstChannel, Proceeded, Channels
<1>6. CASE UNCHANGED vars
  BY <1>6 DEF vars, JunctionSound, first_run, Proceeded
<1>7. QED
  BY <1>2, <1>3, <1>4, <1>5, <1>6 DEF Next

LEMMA JunctionHolds == Spec => []JunctionSound
<1>1. Init => JunctionSound
  BY ValuesAssumption DEF Init, JunctionSound, first_run
<1>2. TickInv => TypeOK /\ FirstChannel
  BY DEF TickInv, Inv
<1>3. QED
  BY <1>1, <1>2, NextJunction, TickInvHolds, PTL DEF Spec

(* For every configuration: a thermocouple published without a mark was     *)
(* computed with a cold junction that is published without one, if the      *)
(* junction precedes it and is in no group.                                 *)
THEOREM JunctionsAreTrusted == Spec => JunctionTrusted
<1>1. TypeOK /\ JunctionSound /\ [Next]_vars =>
        [Publishing /\ ~first_run =>
           \A c \in Channels :
             /\ registers'[c].mb_status = "ok"
             /\ Config[c].type = "B" /\ Config[c].comp < c
             /\ Config[Config[c].comp].group = 0
             /\ dataToSend[c].error_count = 0
             => \/ registers'[Config[c].comp].mb_status = "ok"
                \/ registers'[c].data = OpenCircuit]_vars
  <2> SUFFICES ASSUME TypeOK, JunctionSound, [Next]_vars, Publishing, ~first_run,
                      NEW c \in Channels, registers'[c].mb_status = "ok",
                      Trusting(c), dataToSend[c].error_count = 0
               PROVE  \/ registers'[Config[c].comp].mb_status = "ok"
                      \/ registers'[c].data = OpenCircuit
    BY DEF Trusting
  <2>1. Publish /\ Proceeded(c)
    BY PublishingIsPublish DEF Publishing, Proceeded
  <2>2. Config[c].comp \in Channels
    BY ConfigTyped DEF TypeOK, Trusting
  <2>3. \A k \in Channels : /\ registers'[k].mb_status = dataToSend[k].mb_status
                            /\ registers'[k].data = dataToSend[k].data
    BY <2>1 DEF Publish
  <2>4. QED
    BY <2>1, <2>2, <2>3 DEF JunctionSound
<1>2. QED
  BY <1>1, JunctionHolds, TypeCorrect, PTL DEF Spec, JunctionTrusted
=============================================================================
