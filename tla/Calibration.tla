------------------------------ MODULE Calibration ------------------------------
(***************************************************************************)
(* The calibration coefficients and their four copies: in dataToSend, where *)
(* calcLineSignal uses them, in the holding registers 2001.., where clients *)
(* read and write them, in the document of calibrations.xml that XmlConf    *)
(* keeps, and in the file itself.  recordCalibrations carries them from the *)
(* registers through the other copies, pressureDiffToZero changes the first *)
(* copy only, a start of the program reads them back from the file.         *)
(*                                                                          *)
(* Both files the program writes are truncated and then written in place.   *)
(* The process may be killed, and started again, between any two steps.     *)
(*                                                                          *)
(* XmlConf looks each coefficient up by the name of its channel: attribute  *)
(* a or b of the first element of that name.  The element may be missing,   *)
(* since the program adds none to the file, and channels of one name share  *)
(* theirs; a channel without a name gets the first element of the file.     *)
(*                                                                          *)
(* Abstractions.  A coefficient is the sequence of its bytes in the         *)
(* registers; what zeroing makes of an offset is any float, since the value *)
(* it subtracts need not come from a x + b.  Calibrated channels have       *)
(* identifiers of their own.  The commands come at any time (how they get   *)
(* lost is in CommandRegisters).  A client writes one coefficient at a time *)
(* and all of it; sendMutex lets one slave write at a time.  Of conf.xml    *)
(* only whether it can be parsed matters: the offsets that zeroing puts     *)
(* into it are never read.  The files are not edited while the program is   *)
(* used, so where the coefficients are found does not change.               *)
(***************************************************************************)
EXTENDS Naturals

CONSTANTS
  Count,       \* coefficients: a and b of each calibrated channel, in turn
  Offsets,     \* those zeroing changes: the b of channels found by the name of a dP
  Bytes,       \* the values of a byte
  Parts,       \* bytes of a float: 4 in the code
  Broken,      \* a file that is no XML, a document without elements
  Printed(_),  \* what is read back of a float printed with six digits
  Placements,  \* the ways in which the coefficients may have places in the file
  MaxWrites    \* bound: coefficients clients write in a behaviour

Coefficients == 1 .. Count
Floats == [1 .. Parts -> Bytes]
Zero   == [p \in 1 .. Parts |-> 0]
Nowhere == 0   \* the place of a coefficient whose element is missing

ASSUME CoefficientsAssumption ==
  /\ Count \in Nat \ {0} /\ Parts \in Nat \ {0, 1} /\ MaxWrites \in Nat
  /\ Offsets \subseteq Coefficients
  /\ 0 \in Bytes
ASSUME PlacementsAssumption ==
  Placements \subseteq [Coefficients -> Coefficients \cup {Nowhere}]
ASSUME BrokenAssumption ==
  Broken # "whole" /\ \A S \in SUBSET Coefficients : Broken \notin [S -> Floats]
ASSUME PrintedAssumption == \A f \in Floats : Printed(f) \in Floats

VARIABLES
  coefficient,      \* a_coeff and b_coeff in dataToSend
  register,         \* the same in HoldingsRegs
  document,         \* calibrationDoc: the floats at its places, or Broken
  calibrations,     \* the file calibrations.xml, likewise
  place,            \* where in them each coefficient is looked up; never changes
  configuration,    \* the file conf.xml: "whole" or Broken
  configured,       \* conf.xml was parsed: there are channels
  pc,               \* the main thread, see TypeOK
  at, part,         \* the byte recordCalibrations reads next
  taken,            \* the bytes of this coefficient it has read
  writing,          \* the coefficient a slave is writing, or 0
  value, next,      \* what it writes there and the byte it writes next
  writes,           \* coefficients written so far, up to MaxWrites
  whole,            \* history: what was last put whole into each register
  torn,             \* history: coefficients written while they were read
  differs,          \* history: coefficients zeroed or written since recorded
  kept              \* history: the last recording that was completed

memory == <<coefficient, document, configured>>
files  == <<calibrations, configuration>>
slave  == <<register, writing, value, next, writes, whole>>
reader == <<at, part, taken>>
vars == <<coefficient, register, document, calibrations, place, configuration, configured,
          pc, at, part, taken, writing, value, next, writes, whole, torn, differs, kept>>

Uncalibrated == [k \in Coefficients |-> Zero]

(* The places the file has, and the last coefficient that is put into one.  *)
Places == {place[k] : k \in Coefficients} \ {Nowhere}
Sharing(p) == {k \in Coefficients : place[k] = p}
Last(S) == CHOOSE k \in S : \A l \in S : l <= k

(* The file after coefficients c were put into it one by one, and the       *)
(* coefficients read from a file: toFloat of an empty text is 0.            *)
Written(c) == [p \in Places |-> c[Last(Sharing(p))]]
ReadFrom(doc) == [k \in Coefficients |-> IF place[k] = Nowhere THEN Zero ELSE doc[place[k]]]

Init ==
  /\ place \in Placements
  /\ calibrations \in [Places -> Floats]
  /\ configuration = "whole"
  /\ configured = TRUE
  /\ document = calibrations
  /\ coefficient = ReadFrom(calibrations)
  /\ register = coefficient
  /\ pc = "idle"
  /\ at = 1 /\ part = Parts /\ taken = Zero
  /\ writing = 0 /\ value = Zero /\ next = 1
  /\ writes = 0
  /\ whole = coefficient
  /\ torn = {}
  /\ differs = {}
  /\ kept = coefficient

----------------------------------------------------------------------------
(* A slave writes a coefficient, with sendMutex, byte by byte. *)

BeginWrite(k, f) ==
  /\ pc # "down"
  /\ writing = 0
  /\ writes < MaxWrites
  /\ writes' = writes + 1
  /\ writing' = k
  /\ value' = f
  /\ next' = 1
  /\ UNCHANGED <<register, whole, memory, files, pc, reader, torn, differs, kept>>

(* recordCalibrations has read a part of coefficient k, but not all of it. *)
Reading(k) == pc = "read" /\ at = k /\ part < Parts

WriteByte ==
  /\ pc # "down"
  /\ writing # 0
  /\ register' = [register EXCEPT ![writing][next] = value[next]]
  /\ IF next < Parts THEN /\ next' = next + 1
                          /\ UNCHANGED <<writing, value, whole>>
                     ELSE /\ next' = 1
                          /\ writing' = 0 /\ value' = Zero
                          /\ whole' = [whole EXCEPT ![writing] = value]
  /\ torn' = IF Reading(writing) THEN torn \cup {writing} ELSE torn
  /\ differs' = differs \cup {writing}
  /\ UNCHANGED <<writes, memory, files, pc, reader, kept>>

----------------------------------------------------------------------------
(* recordCalibrations: the registers are read without sendMutex, the last   *)
(* byte of each float first; then the document, then the file.              *)

Record ==
  /\ pc = "idle"
  /\ pc' = IF configured THEN "read" ELSE "print"
  /\ at' = 1
  /\ part' = Parts
  /\ torn' = {}
  /\ UNCHANGED <<memory, files, slave, taken, differs, kept>>

\* mutant: the registers of the first coefficient are read for all
ByteOfFirst == register[1][part]
ByteRead == register[at][part]
WithByte == [taken EXCEPT ![part] = ByteRead]

(* Part of coefficient k has been written and part of it has not. *)
Halfway(k) == writing = k /\ next > 1

ReadByte ==
  /\ pc = "read"
  /\ torn' = IF Halfway(at) THEN torn \cup {at} ELSE torn
  /\ IF part > 1
       THEN /\ part' = part - 1
            /\ taken' = WithByte
            /\ UNCHANGED <<pc, at, coefficient, differs>>
       ELSE /\ part' = Parts
            /\ taken' = Zero
            /\ coefficient' = [coefficient EXCEPT ![at] = WithByte]
            /\ differs' = IF at \in torn' THEN differs \cup {at} ELSE differs \ {at}
            /\ IF at < Count THEN at' = at + 1 /\ UNCHANGED pc
                             ELSE at' = 1 /\ pc' = "print"
  /\ UNCHANGED <<document, configured, files, slave, kept>>

\* mutant: the file is written from the document as it was
OldDocument == document
Recorded == [k \in Coefficients |-> Printed(coefficient[k])]
(* setAttribute on the elements; on a missing one it does nothing, and the  *)
(* loop goes on.  A document without any element stays as it is.            *)
NewDocument ==
  IF document = Broken \/ ~configured THEN document ELSE Written(Recorded)

UpdateDocument ==
  /\ pc = "print"
  /\ document' = NewDocument
  /\ pc' = "open_calibrations"
  /\ UNCHANGED <<coefficient, configured, files, slave, reader, torn, differs, kept>>

(* Opening for writing truncates the file.  If it fails, that is logged and *)
(* nothing gets written; the coefficients are used all the same.            *)
OpenCalibrations ==
  /\ pc = "open_calibrations"
  /\ \/ calibrations' = Broken /\ pc' = "write_calibrations"
     \/ UNCHANGED calibrations /\ pc' = "idle"
  /\ UNCHANGED <<memory, configuration, slave, reader, torn, differs, kept>>

WriteCalibrations ==
  /\ pc = "write_calibrations"
  /\ calibrations' = document
  /\ kept' = IF configured THEN Recorded ELSE kept
  /\ pc' = "idle"
  /\ UNCHANGED <<memory, configuration, slave, reader, torn, differs>>

----------------------------------------------------------------------------
(* pressureDiffToZero: dP channels without a mark get a new offset.  The    *)
(* registers and calibrations.xml are left alone.                           *)
Zeroing ==
  /\ pc = "idle"
  /\ \E zeroed \in SUBSET Offsets :
       /\ ~configured => zeroed = {}
       /\ coefficient' \in {c \in [Coefficients -> Floats] :
                              \A k \in Coefficients \ zeroed : c[k] = coefficient[k]}
       /\ differs' = differs \cup zeroed
  /\ pc' = "open_configuration"
  /\ UNCHANGED <<document, configured, files, slave, reader, torn, kept>>

OpenConfiguration ==
  /\ pc = "open_configuration"
  /\ \/ configuration' = Broken /\ pc' = "write_configuration"
     \/ UNCHANGED configuration /\ pc' = "idle"
  /\ UNCHANGED <<memory, calibrations, slave, reader, torn, differs, kept>>

(* A program that started without a configuration writes none. *)
WriteConfiguration ==
  /\ pc = "write_configuration"
  /\ configuration' = IF configured THEN "whole" ELSE Broken
  /\ pc' = "idle"
  /\ UNCHANGED <<memory, calibrations, slave, reader, torn, differs, kept>>

----------------------------------------------------------------------------
(* The process is killed: what was being written to a file is lost, and so  *)
(* is everything in memory.                                                 *)
Crash ==
  /\ pc # "down"
  /\ pc' = "down"
  /\ writing' = 0 /\ value' = Zero
  /\ next' = 1
  /\ UNCHANGED <<memory, files, register, writes, whole, reader, torn, differs, kept>>

\* mutant: the coefficients are taken over place by place
ParsedByPlace ==
  IF configuration = Broken \/ calibrations = Broken THEN Uncalibrated ELSE calibrations

(* What a start makes of the coefficients: zero when a file is broken.      *)
Parsed ==
  IF configuration = Broken \/ calibrations = Broken THEN Uncalibrated
                                                     ELSE ReadFrom(calibrations)

\* mutant: setStartCalibrationToMB is not called
StartWithoutRegisters == Uncalibrated
StartRegisters == Parsed

(* setConfFile and setCalibrationFile report a file they cannot parse, and  *)
(* the constructor goes on.                                                 *)
Start ==
  /\ pc = "down"
  /\ pc' = "idle"
  /\ configured' = (configuration = "whole")
  /\ document' = calibrations
  /\ coefficient' = Parsed
  /\ register' = StartRegisters
  /\ whole' = StartRegisters
  /\ at' = 1 /\ part' = Parts /\ taken' = Zero
  /\ torn' = {}
  /\ differs' = {}
  /\ UNCHANGED <<files, writing, value, next, writes, kept>>

recordCalibrations == Record \/ ReadByte \/ UpdateDocument \/ OpenCalibrations \/ WriteCalibrations
pressureDiffToZero == Zeroing \/ OpenConfiguration \/ WriteConfiguration
writeHoldings == WriteByte \/ \E k \in Coefficients, f \in Floats : BeginWrite(k, f)

Next == (recordCalibrations \/ pressureDiffToZero \/ writeHoldings \/ Crash \/ Start)
        /\ UNCHANGED place

Spec == Init /\ [][Next]_vars

----------------------------------------------------------------------------
(* Every variable has its type. *)
TypeOK ==
  /\ coefficient \in [Coefficients -> Floats]
  /\ register \in [Coefficients -> Floats]
  /\ place \in [Coefficients -> Coefficients \cup {Nowhere}]
  /\ document \in [Places -> Floats] \cup {Broken}
  /\ calibrations \in [Places -> Floats] \cup {Broken}
  /\ configuration \in {"whole", Broken}
  /\ configured \in BOOLEAN
  /\ pc \in {"idle", "read", "print", "open_calibrations", "write_calibrations",
             "open_configuration", "write_configuration", "down"}
  /\ at \in Coefficients /\ part \in 1 .. Parts /\ taken \in Floats
  /\ writing \in Coefficients \cup {0} /\ value \in Floats /\ next \in 1 .. Parts
  /\ writes \in 0 .. MaxWrites
  /\ whole \in [Coefficients -> Floats]
  /\ torn \subseteq Coefficients
  /\ differs \subseteq Coefficients
  /\ kept \in [Coefficients -> Floats]

(* A start finds the last recording that was completed, as far as the file  *)
(* has places for it, or finds nothing because one of the files was cut     *)
(* short: never an offset that was only zeroed, and of no recording more    *)
(* than of the last.  A coefficient without a place starts as 0, however    *)
(* often it was recorded; where several share a place, all start as the one *)
(* of the last of these channels.                                           *)
StartsFromRecording ==
  [][pc = "down" /\ pc' = "idle" =>
       \/ \A k \in Coefficients :
            coefficient'[k] = IF place[k] = Nowhere THEN Zero
                                                   ELSE kept[Last(Sharing(place[k]))]
       \/ coefficient' = Uncalibrated /\ Broken \in {calibrations, configuration}]_vars

(* The coefficients a client reads in the registers are those in use, as    *)
(* long as none was written, zeroed or torn since the last recording.       *)
RegistersShowCoefficients ==
  pc # "down" => \A k \in Coefficients \ differs : register[k] = coefficient[k]

(* A recording takes each coefficient as somebody wrote it whole, unless it *)
(* is being written while it is read: only then are bytes of two values put *)
(* together.                                                                *)
TornOnlyByOverlap ==
  [][pc = "read" /\ part = 1 /\ pc' # "down" /\ part' = Parts /\ at \notin torn' =>
       coefficient'[at] = whole[at]]_vars
=============================================================================
