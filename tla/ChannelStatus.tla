---------------------------- MODULE ChannelStatus ----------------------------
(***************************************************************************)
(* From the measured values to the alarms and values a Modbus client       *)
(* reads: proceedData, proceedStatus, calcTempB, calcLineSignal,           *)
(* proceedGroup and the commands of checkCommand (mainwindow.cpp).         *)
(*                                                                         *)
(* Everything here runs in the main thread, on a 20 ms timer.  dataMutex   *)
(* is held from the first channel to the end of proceedGroup, so the       *)
(* polling thread changes mData only between two ticks: a tick finds any   *)
(* sample in it.  The registers are written with sendMutex held.           *)
(*                                                                         *)
(* Abstractions.  Values are integers or NaN.  The thermocouple polynomial *)
(* is an operator of the configuration.  A calibrated signal may take any  *)
(* value: the commands can change its line, or switch it off, at any tick. *)
(* The bits of DI channels, which are not published, are left out.         *)
(***************************************************************************)
EXTENDS Integers, Sequences, FiniteSetsExt

CONSTANTS
  NaN,            \* a float that is not a number
  Values,         \* the values a measuring module sends
  Readings,       \* the values a channel can take after conversion
  OpenCircuit,    \* -115: what it sends for an open thermocouple
  Configs,        \* the lists of channels conf.xml may hold
  BTemp(_, _),    \* calcTempB: millivolts, cold junction (NaN: none) to degrees
  GroupSIG,       \* groupSIG: the deviation allowed in a group
  FirstTicks      \* first_run ends with this tick: 5 in the code

Alarms == {"MVV_ERROR", "CH_DISABLED", "CH_OVERLOAD", "LINE_ERROR",
           "MIN_DIAP_ERROR", "MAX_DIAP_ERROR", "DELT_ERROR", "CJ_ERROR",
           "GROUP_ERROR"}
Statuses == Alarms \cup {"ok"}

(* type "B": a thermocouple whose cold junction is channel comp; "line": a  *)
(* calibrated signal (P, dP, TR); "plain": everything else.  group is 0 for *)
(* a channel of no group.                                                   *)
ChannelConfig == [type : {"plain", "line", "B"}, comp : Nat, group : Nat,
                  step_delta : Int, over_min : Int, over_max : Int,
                  min_range : Int, max_range : Int]

ASSUME ConfigAssumption ==
  \A conf \in Configs :
    /\ conf \in Seq(ChannelConfig)
    /\ conf # <<>>
    /\ \A c \in DOMAIN conf : conf[c].type = "B" => conf[c].comp \in DOMAIN conf \ {c}
ASSUME ValuesAssumption ==
  /\ NaN \notin Int
  /\ Readings \subseteq Int
  /\ Values \cup {0, OpenCircuit} \subseteq Readings
  /\ GroupSIG \in Int
  /\ FirstTicks \in Nat \ {0}
ASSUME ConversionAssumption ==
  \A v \in Values \cup {0}, w \in Readings \cup {NaN} :
    BTemp(v, w) \in Readings \cup {NaN}

(* What proceedData copies from mData.  error_count only matters as 0, some *)
(* misses, or the 3 misses that make a module error.                        *)
MissLimit == 3
Samples == [data : Values \cup {NaN}, status : 0 .. 1, error_count : {0, 1, MissLimit}]

VARIABLES
  Config,    \* Config[c]: the configuration of the c-th channel, read at the start
  phase,     \* "channel", "group", "publish", "command"
  i,         \* the channel proceedData is at
  ticks,     \* first_count, counted up to FirstTicks + 1
  dataToSend,
  registers, \* the value and the status of each channel in HoldingsRegs
  acked      \* history: channels acknowledged since the last publication

vars == <<Config, phase, i, ticks, dataToSend, registers, acked>>

Channels == 1 .. Len(Config)

first_run == ticks <= FirstTicks
Abs(n) == IF n < 0 THEN -n ELSE n

Blank == [data |-> 0, prev_data |-> 0, status |-> 0, error_count |-> 0,
          mb_status |-> "ok"]

Init ==
  /\ Config \in Configs
  /\ phase = "channel"
  /\ i = 1
  /\ ticks = 1
  /\ dataToSend = [c \in Channels |-> Blank]
  /\ registers = [c \in Channels |-> [data |-> 0, mb_status |-> "ok"]]
  /\ acked = {}

----------------------------------------------------------------------------
(* A sample copied into the channel d; in the first ticks its value is also *)
(* the previous one, and a NaN becomes 0.                                   *)
Copied(d, sample) ==
  LET value == IF first_run /\ sample.data = NaN THEN 0 ELSE sample.data
  IN [d EXCEPT !.data = value,
               !.prev_data = IF first_run THEN value ELSE @,
               !.status = sample.status,
               !.error_count = sample.error_count]

\* mutant: the status of the cold junction is not looked at
JunctionUnchecked(d, cold) ==
  IF d.data = OpenCircuit THEN d
  ELSE [d EXCEPT !.data = IF @ = NaN THEN NaN ELSE BTemp(@, cold.data)]

(* calcTempB: without a healthy cold junction the channel is computed as if *)
(* the junction were at the reference, and marked unless already marked.    *)
Thermocouple(d, cold) ==
  IF d.data = OpenCircuit THEN d
  ELSE IF cold.mb_status = "ok"
       THEN [d EXCEPT !.data = IF @ = NaN THEN NaN ELSE BTemp(@, cold.data)]
       ELSE [d EXCEPT !.data = IF @ = NaN THEN NaN ELSE BTemp(@, NaN),
                      !.mb_status = IF @ = "ok" THEN "CJ_ERROR" ELSE @]

(* calcLineSignal: a * x + b, or x when the calibration is switched off. *)
Calibrated(d) ==
  IF d.data = NaN THEN {d}
  ELSE {[d EXCEPT !.data = x] : x \in Readings \cup {NaN}}

(* The channel c as the conversion of its type may leave it. *)
Conversions(c, d) ==
  CASE Config[c].type = "B"    -> {Thermocouple(d, dataToSend[Config[c].comp])}
    [] Config[c].type = "line" -> Calibrated(d)
    [] OTHER                   -> {d}

\* mutant: a value that is not a number is kept where the checks are skipped
KeepNaN(d) ==
  IF d.data = NaN /\ d.mb_status \notin {"MVV_ERROR", "LINE_ERROR"}
  THEN [d EXCEPT !.data = d.prev_data] ELSE d
Substituted(d) == IF d.data = NaN THEN [d EXCEPT !.data = d.prev_data] ELSE d

\* mutant: one missed frame more is tolerated
LateModuleChecked(d) ==
  [d EXCEPT !.data = IF d.error_count # 0 THEN d.prev_data ELSE @,
            !.mb_status = IF d.error_count > MissLimit THEN "MVV_ERROR" ELSE @]
\* mutant: the value of a missed frame is not replaced before the third miss
FreshModuleChecked(d) ==
  [d EXCEPT !.data = IF d.error_count >= MissLimit THEN d.prev_data ELSE @,
            !.mb_status = IF d.error_count >= MissLimit THEN "MVV_ERROR" ELSE @]
(* The measuring module is silent: hold the value; after three misses alarm. *)
ModuleChecked(d) ==
  [d EXCEPT !.data = IF d.error_count # 0 THEN d.prev_data ELSE @,
            !.mb_status = IF d.error_count >= MissLimit THEN "MVV_ERROR" ELSE @]

(* The checks of the value, in the order of the code: each later one        *)
(* overrides the earlier, the range only marks a channel with no mark.      *)
StepChecked(c, d) ==
  IF Abs(d.data - d.prev_data) > Config[c].step_delta
  THEN [d EXCEPT !.mb_status = "DELT_ERROR"] ELSE d
OverloadChecked(c, d) ==
  IF d.data < Config[c].over_min \/ d.data > Config[c].over_max
  THEN [d EXCEPT !.mb_status = "CH_OVERLOAD"] ELSE d
LineChecked(d) ==
  IF d.status = 1
  THEN [d EXCEPT !.mb_status = "LINE_ERROR", !.data = d.prev_data] ELSE d
RangeChecked(c, d) ==
  IF d.mb_status # "ok" THEN d
  ELSE IF d.data < Config[c].min_range THEN [d EXCEPT !.mb_status = "MIN_DIAP_ERROR"]
  ELSE IF d.data > Config[c].max_range THEN [d EXCEPT !.mb_status = "MAX_DIAP_ERROR"]
  ELSE d
ValueChecked(c, d) ==
  IF d.mb_status \in {"MVV_ERROR", "LINE_ERROR"} THEN d
  ELSE RangeChecked(c, LineChecked(OverloadChecked(c, StepChecked(c, d))))

(* While the fault that is marked persists, the last good value is held.    *)
Held(d) ==
  \/ d.mb_status = "LINE_ERROR" /\ d.status # 0
  \/ d.mb_status = "MVV_ERROR" /\ d.error_count # 0

Settled(d) == IF Held(d) THEN [d EXCEPT !.data = d.prev_data]
                         ELSE [d EXCEPT !.prev_data = d.data]

\* mutant: a check of the value takes the place of the disabled mark
DisabledLost(before, d) == d
DisabledKept(before, d) ==
  IF before.mb_status = "CH_DISABLED" THEN [d EXCEPT !.mb_status = "CH_DISABLED"] ELSE d

proceedStatus(c, d) ==
  Settled(DisabledKept(d, ValueChecked(c, ModuleChecked(Substituted(d)))))

(* One channel of proceedData. *)
ProceedChannel ==
  /\ phase = "channel"
  /\ \E sample \in Samples :
     \E converted \in Conversions(i, Copied(dataToSend[i], sample)) :
       LET d == proceedStatus(i, converted)
       IN dataToSend' = [dataToSend EXCEPT ![i] =
            [d EXCEPT !.prev_data = d.data,
                      !.mb_status = IF first_run THEN "ok" ELSE @]]
  /\ IF i < Len(Config) THEN i' = i + 1 /\ UNCHANGED phase
                        ELSE i' = 1 /\ phase' = "group"
  /\ UNCHANGED <<Config, ticks, registers, acked>>

(* The mean of a group is taken over its members without a mark; a group    *)
(* with no such member has no mean and marks nobody.                        *)
Members(c) == {k \in Channels : Config[k].group = Config[c].group}
Sound(c) == {k \in Members(c) : dataToSend[k].mb_status = "ok"}
Total(S) == MapThenSumSet(LAMBDA k : dataToSend[k].data, S)
Deviates(c) ==
  /\ Config[c].group # 0
  /\ Sound(c) # {}
  /\ Abs(dataToSend[c].data * Cardinality(Sound(c)) - Total(Sound(c)))
       > GroupSIG * Cardinality(Sound(c))

\* mutant: a group member back at the mean loses its mark
GroupCleared(c) ==
  IF Deviates(c) THEN "GROUP_ERROR"
  ELSE IF dataToSend[c].mb_status = "GROUP_ERROR" THEN "ok" ELSE dataToSend[c].mb_status
GroupMarked(c) == IF Deviates(c) THEN "GROUP_ERROR" ELSE dataToSend[c].mb_status

proceedGroup ==
  /\ phase = "group"
  /\ dataToSend' = [c \in Channels |->
                      [dataToSend[c] EXCEPT !.mb_status = GroupMarked(c)]]
  /\ phase' = "publish"
  /\ UNCHANGED <<Config, i, ticks, registers, acked>>

Publish ==
  /\ phase = "publish"
  /\ registers' = [c \in Channels |->
                     [data |-> dataToSend[c].data, mb_status |-> dataToSend[c].mb_status]]
  /\ ticks' = IF first_run THEN ticks + 1 ELSE ticks
  /\ acked' = {}
  /\ phase' = "command"
  /\ UNCHANGED <<Config, i, dataToSend>>

----------------------------------------------------------------------------
(* checkCommand, for any contents of the command registers: acknowledge     *)
(* everything and return, or acknowledge and disable single channels.  The  *)
(* calibration commands change nothing that is kept here.                   *)
kvitCommand ==
  /\ phase = "command"
  /\ dataToSend' = [c \in Channels |-> [dataToSend[c] EXCEPT !.mb_status = "ok"]]
  /\ acked' = Channels
  /\ phase' = "channel"
  /\ UNCHANGED <<Config, i, ticks, registers>>

ChannelCommands(request) ==
  /\ phase = "command"
  /\ dataToSend' = [c \in Channels |->
       CASE request[c] = "kvit"    -> [dataToSend[c] EXCEPT !.mb_status = "ok"]
         [] request[c] = "disable" -> [dataToSend[c] EXCEPT !.mb_status = "CH_DISABLED"]
         [] OTHER                  -> dataToSend[c]]
  /\ acked' = {c \in Channels : request[c] = "kvit"}
  /\ phase' = "channel"
  /\ UNCHANGED <<Config, i, ticks, registers>>

checkCommand ==
  \/ kvitCommand
  \/ \E request \in [Channels -> {"none", "kvit", "disable"}] : ChannelCommands(request)

Next == ProceedChannel \/ proceedGroup \/ Publish \/ checkCommand

Spec == Init /\ [][Next]_vars

----------------------------------------------------------------------------
(* Every variable has its type; a published value is a number. *)
ChannelData == [data : Readings, prev_data : Readings, status : 0 .. 1,
                error_count : {0, 1, MissLimit}, mb_status : Statuses]
TypeOK ==
  /\ Config \in Configs
  /\ phase \in {"channel", "group", "publish", "command"}
  /\ i \in Channels
  /\ ticks \in 1 .. FirstTicks + 1
  /\ dataToSend \in [Channels -> ChannelData]
  /\ registers \in [Channels -> [data : Readings, mb_status : Statuses]]
  /\ acked \subseteq Channels

Publishing == phase = "publish" /\ phase' = "command"

(* An alarm that was published is published until it is acknowledged: it    *)
(* may be replaced by another one, never withdrawn by the gateway itself.   *)
AlarmLatched ==
  [][Publishing /\ ~first_run =>
       \A c \in Channels \ acked :
         registers[c].mb_status # "ok" => registers'[c].mb_status # "ok"]_vars

(* A disabled channel stays disabled until it is acknowledged, whatever its *)
(* module sends; only a deviation from its group replaces the mark.         *)
DisabledStays ==
  [][Publishing /\ ~first_run =>
       \A c \in Channels \ acked :
         registers[c].mb_status = "CH_DISABLED" =>
           \/ registers'[c].mb_status = "CH_DISABLED"
           \/ registers'[c].mb_status = "GROUP_ERROR" /\ Config[c].group # 0]_vars

(* The last good value is published for a channel whose frames are missing, *)
(* and for one whose line is reported broken unless an older module error   *)
(* is still marked: that mark hides the broken line from proceedStatus.     *)
HoldOnFault ==
  [][Publishing /\ ~first_run =>
       \A c \in Channels :
         \/ dataToSend[c].error_count # 0
         \/ dataToSend[c].status = 1 /\ registers[c].mb_status # "MVV_ERROR"
         => registers'[c].data = registers[c].data]_vars

(* A channel published without a mark really is healthy: its frames arrive, *)
(* its line is intact, its value is in range and near the one before.       *)
NoFalseOk ==
  [][Publishing /\ ~first_run =>
       \A c \in Channels : registers'[c].mb_status = "ok" =>
         /\ dataToSend[c].error_count < MissLimit
         /\ dataToSend[c].status = 0
         /\ registers'[c].data \in Config[c].min_range .. Config[c].max_range
         /\ registers'[c].data \in Config[c].over_min .. Config[c].over_max
         /\ Abs(registers'[c].data - registers[c].data) <= Config[c].step_delta]_vars

(* A thermocouple published without a mark was computed with a sound cold   *)
(* junction.  This needs the junction to precede it in the configuration    *)
(* and to be in no group: otherwise the mark reaches the thermocouple only  *)
(* at the next tick.                                                        *)
JunctionTrusted ==
  [][Publishing /\ ~first_run =>
       \A c \in Channels :
         /\ registers'[c].mb_status = "ok"
         /\ Config[c].type = "B" /\ Config[c].comp < c
         /\ Config[Config[c].comp].group = 0
         /\ dataToSend[c].error_count = 0
         => \/ registers'[Config[c].comp].mb_status = "ok"
            \/ registers'[c].data = OpenCircuit]_vars
=============================================================================
