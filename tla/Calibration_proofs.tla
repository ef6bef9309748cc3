-------------------------- MODULE Calibration_proofs --------------------------
(***************************************************************************)
(* Theorems about Calibration, for all coefficients, floats, ways of       *)
(* printing them, and places they may have in the file or lack.            *)
(***************************************************************************)
EXTENDS Calibration, TLAPS, WellFoundedInduction

(* A file that can be read holds the last completed recording.              *)
FileKept == calibrations \in {Written(kept), Broken}

(* So will the file that is about to be written.                            *)
DocumentKept ==
  /\ pc \in {"open_calibrations", "write_calibrations"} /\ configured
       => document \in {Written(Recorded), Broken}
  /\ pc # "down" /\ ~configured => document \in {Written(kept), Broken}

(* The bytes read so far are those of the register, unless it is torn.      *)
TakenSoFar ==
  pc = "read" /\ at \notin torn =>
    \A p \in 1 .. Parts : p > part => taken[p] = register[at][p]

(* A register that is not half written holds what was last put whole into   *)
(* it; one that is holds the beginning of the new value.                    *)
WholeShown ==
  pc # "down" => \A k \in Coefficients :
    IF Halfway(k) THEN \A p \in 1 .. Parts : p < next => register[k][p] = value[p]
                  ELSE register[k] = whole[k]

(* A killed slave writes nothing; a register being written may differ.      *)
Writing ==
  /\ pc = "down" => writing = 0
  /\ writing = 0 => next = 1
  /\ next > 1 => writing \in differs

Inv == /\ TypeOK /\ FileKept /\ DocumentKept /\ TakenSoFar /\ WholeShown /\ Writing
       /\ RegistersShowCoefficients

LEMMA RecordedTyped == TypeOK => Recorded \in [Coefficients -> Floats]
BY PrintedAssumption DEF Recorded, TypeOK

LEMMA ZeroTyped == Zero \in Floats /\ Uncalibrated \in [Coefficients -> Floats]
BY CoefficientsAssumption DEF Zero, Uncalibrated, Floats

LEMMA FloatsEqual ==
  ASSUME NEW f \in Floats, NEW g \in Floats, \A p \in 1 .. Parts : f[p] = g[p]
  PROVE  f = g
<1>1. f = [p \in 1 .. Parts |-> f[p]] /\ g = [p \in 1 .. Parts |-> g[p]]
  BY DEF Floats
<1>2. [p \in 1 .. Parts |-> f[p]] = [p \in 1 .. Parts |-> g[p]]
  OBVIOUS
<1>3. QED
  BY <1>1, <1>2

(* Of coefficients that share a place there is a last one.                  *)
LEMMA LastExists ==
  ASSUME NEW S \in SUBSET Coefficients, S # {}
  PROVE  Last(S) \in S
<1> DEFINE T == {Count - k : k \in S}
<1>1. T \subseteq Nat /\ T # {}
  <2>1. \A k \in 1 .. Count : Count - k \in Nat
    BY CoefficientsAssumption
  <2>2. QED
    BY <2>1 DEF Coefficients
<1>2. PICK x \in T : \A y \in T : ~ (<<y, x>> \in OpToRel(<, Nat))
  BY <1>1, WFMin, NatLessThanWellFounded
<1>3. PICK k \in S : x = Count - k
  BY <1>2
<1>4. \A l \in S : l <= k
  <2> SUFFICES ASSUME NEW l \in S PROVE l <= k
    OBVIOUS
  <2>1. ~(Count - l < x) /\ k \in 1 .. Count /\ l \in 1 .. Count
    BY <1>1, <1>2 DEF OpToRel, Coefficients
  <2>2. QED
    BY <1>3, <2>1, CoefficientsAssumption
<1>5. QED
  BY <1>3, <1>4 DEF Last

LEMMA LastOfPlace ==
  ASSUME NEW p \in Places
  PROVE  /\ Last(Sharing(p)) \in Coefficients
         /\ place[Last(Sharing(p))] = p /\ p # Nowhere
<1>1. Sharing(p) \in SUBSET Coefficients /\ Sharing(p) # {} /\ p # Nowhere
  BY DEF Places, Sharing
<1>2. Last(Sharing(p)) \in Sharing(p)
  BY <1>1, LastExists
<1>3. QED
  BY <1>1, <1>2 DEF Sharing

LEMMA SamePlaces ==
  ASSUME UNCHANGED place
  PROVE  /\ Places' = Places
         /\ UNCHANGED kept => Written(kept)' = Written(kept)
         /\ UNCHANGED coefficient => Written(Recorded)' = Written(Recorded)
BY DEF Places, Written, Sharing, Recorded

LEMMA WrittenTyped ==
  ASSUME NEW c \in [Coefficients -> Floats]
  PROVE  Written(c) \in [Places -> Floats]
BY LastOfPlace DEF Written

LEMMA ReadTyped ==
  ASSUME place \in [Coefficients -> Coefficients \cup {Nowhere}], NEW d \in [Places -> Floats]
  PROVE  ReadFrom(d) \in [Coefficients -> Floats]
<1>1. \A k \in Coefficients : place[k] # Nowhere => place[k] \in Places
  BY DEF Places
<1>2. QED
  BY <1>1, ZeroTyped DEF ReadFrom

(* What was read from a file is what it holds.                              *)
LEMMA WrittenBack ==
  ASSUME NEW d \in [Places -> Floats]
  PROVE  Written(ReadFrom(d)) = d
<1>1. \A p \in Places : ReadFrom(d)[Last(Sharing(p))] = d[p]
  BY LastOfPlace DEF ReadFrom
<1>2. d = [p \in Places |-> d[p]]
  OBVIOUS
<1>3. QED
  BY <1>1, <1>2 DEF Written

LEMMA InitInv == Init => Inv
<1> SUFFICES ASSUME Init PROVE Inv
  OBVIOUS
<1>1. /\ calibrations \in [Places -> Floats]
      /\ place \in [Coefficients -> Coefficients \cup {Nowhere}]
      /\ coefficient \in [Coefficients -> Floats]
  BY PlacementsAssumption, ReadTyped DEF Init
<1>2. TypeOK
  BY <1>1, ZeroTyped, CoefficientsAssumption DEF Init, TypeOK, Coefficients
<1>3. FileKept /\ DocumentKept /\ TakenSoFar /\ Writing /\ RegistersShowCoefficients
  BY <1>1, WrittenBack
  DEF Init, FileKept, DocumentKept, TakenSoFar, Writing, RegistersShowCoefficients
<1>4. WholeShown
  BY DEF Init, WholeShown, Halfway
<1>5. QED
  BY <1>2, <1>3, <1>4 DEF Inv

----------------------------------------------------------------------------
(* The slave. *)

LEMMA BeginWriteInv ==
  ASSUME Inv, UNCHANGED place, NEW k \in Coefficients, NEW f \in Floats, BeginWrite(k, f)
  PROVE  Inv'
<1> USE DEF Inv
<1>1. TypeOK'
  BY SamePlaces, CoefficientsAssumption DEF BeginWrite, TypeOK, memory, files, reader
<1>2. FileKept' /\ DocumentKept' /\ TakenSoFar' /\ Writing' /\ RegistersShowCoefficients'
  BY SamePlaces
  DEF BeginWrite, memory, files, reader, FileKept, DocumentKept, TakenSoFar, Writing,
      RegistersShowCoefficients
<1>3. WholeShown'
  BY DEF BeginWrite, WholeShown, Halfway, Writing
<1>4. QED
  BY <1>1, <1>2, <1>3

LEMMA WriteByteInv == Inv /\ UNCHANGED place /\ WriteByte => Inv'
<1> SUFFICES ASSUME Inv, UNCHANGED place, WriteByte PROVE Inv'
  OBVIOUS
<1> USE DEF Inv
<1>1. writing \in Coefficients /\ next \in 1 .. Parts /\ value \in Floats
  BY DEF WriteByte, TypeOK
<1>2. register' = [register EXCEPT ![writing] = [register[writing] EXCEPT ![next] = value[next]]]
  BY DEF WriteByte
<1>3. /\ register' \in [Coefficients -> Floats]
      /\ \A k \in Coefficients \ {writing} : register'[k] = register[k]
      /\ register'[writing][next] = value[next]
      /\ \A p \in 1 .. Parts : p # next => register'[writing][p] = register[writing][p]
  BY <1>1, <1>2 DEF TypeOK, Floats
<1>4. TypeOK'
  BY <1>1, <1>3, SamePlaces, ZeroTyped, CoefficientsAssumption
  DEF WriteByte, TypeOK, memory, files, reader
<1>5. FileKept' /\ DocumentKept'
  BY SamePlaces DEF WriteByte, memory, files, FileKept, DocumentKept
<1>6. TakenSoFar'
  <2>1. pc' = pc /\ at' = at /\ part' = part /\ taken' = taken /\ torn \subseteq torn'
    BY DEF WriteByte, reader
  <2>2. CASE at = writing
    BY <1>1, <2>1, <2>2, CoefficientsAssumption
    DEF TakenSoFar, WriteByte, Reading, TypeOK
  <2>3. CASE at # writing
    BY <1>3, <2>1, <2>3 DEF TakenSoFar, TypeOK
  <2>4. QED
    BY <2>2, <2>3
<1>7. Writing'
  BY DEF WriteByte, Writing
<1>8. RegistersShowCoefficients'
  BY <1>3 DEF WriteByte, memory, RegistersShowCoefficients
<1>9. WholeShown'
  <2>1. \A p \in 1 .. Parts : p < next => register[writing][p] = value[p]
    <3>1. CASE next > 1
      BY <1>1, <3>1 DEF WholeShown, Halfway, WriteByte
    <3>2. CASE next = 1
      BY <3>2
    <3>3. QED
      BY <1>1, <3>1, <3>2, CoefficientsAssumption
  <2>2. \A k \in Coefficients \ {writing} :
          /\ register'[k] = register[k] /\ register[k] = whole[k] /\ whole'[k] = whole[k]
    BY <1>1, <1>3 DEF WholeShown, Halfway, WriteByte, TypeOK
  <2>3. CASE next < Parts
    <3>1. \A p \in 1 .. Parts : p < next + 1 => register'[writing][p] = value[p]
      BY <1>1, <1>3, <2>1, CoefficientsAssumption
    <3>2. QED
      BY <1>1, <2>2, <2>3, <3>1, CoefficientsAssumption DEF WriteByte, WholeShown, Halfway
  <2>4. CASE ~(next < Parts)
    <3>1. \A p \in 1 .. Parts : register'[writing][p] = value[p]
      BY <1>1, <1>3, <2>1, <2>4, CoefficientsAssumption
    <3>2. register'[writing] = value
      BY <1>1, <1>3, <3>1, FloatsEqual
    <3>3. whole'[writing] = value /\ writing' = 0 /\ next' = 1
      BY <1>1, <2>4 DEF WriteByte, TypeOK
    <3>4. QED
      BY <2>2, <3>2, <3>3 DEF WholeShown, Halfway
  <2>5. QED
    BY <2>3, <2>4
<1>10. QED
  BY <1>4, <1>5, <1>6, <1>7, <1>8, <1>9

----------------------------------------------------------------------------
(* The recording. *)

LEMMA RecordInv == Inv /\ UNCHANGED place /\ Record => Inv'
<1> SUFFICES ASSUME Inv, UNCHANGED place, Record PROVE Inv'
  OBVIOUS
<1> USE DEF Inv
<1>1. TypeOK'
  BY SamePlaces, CoefficientsAssumption DEF Record, TypeOK, memory, files, slave, Coefficients
<1>2. FileKept' /\ DocumentKept' /\ Writing' /\ RegistersShowCoefficients'
  BY SamePlaces
  DEF Record, memory, files, slave, FileKept, DocumentKept, Writing, RegistersShowCoefficients
<1>3. WholeShown'
  BY DEF Record, slave, WholeShown, Halfway
<1>4. TakenSoFar'
  BY CoefficientsAssumption DEF Record, TakenSoFar
<1>5. QED
  BY <1>1, <1>2, <1>3, <1>4

(* The last byte of a coefficient that is not torn completes the value that *)
(* was last put whole into its register.                                    *)
LEMMA LastByte ==
  ASSUME Inv, ReadByte, part = 1, at \notin torn'
  PROVE  WithByte = register[at] /\ register[at] = whole[at]
<1> USE DEF Inv
<1>1. at \notin torn /\ ~Halfway(at)
  BY DEF ReadByte
<1>2. /\ at \in Coefficients /\ register[at] \in Floats /\ taken \in Floats
      /\ WithByte = [taken EXCEPT ![1] = register[at][1]]
  BY DEF ReadByte, WithByte, ByteRead, TypeOK
<1>3. \A p \in 1 .. Parts : p > 1 => taken[p] = register[at][p]
  BY <1>1 DEF TakenSoFar, ReadByte
<1>4. \A p \in 1 .. Parts : WithByte[p] = register[at][p]
  BY <1>2, <1>3 DEF Floats
<1>5. WithByte = register[at]
  <2>1. WithByte \in Floats
    BY <1>2 DEF Floats
  <2>2. QED
    BY <1>2, <1>4, <2>1, FloatsEqual
<1>6. register[at] = whole[at]
  BY <1>1, <1>2 DEF WholeShown, ReadByte
<1>7. QED
  BY <1>5, <1>6

LEMMA ReadByteInv == Inv /\ UNCHANGED place /\ ReadByte => Inv'
<1> SUFFICES ASSUME Inv, UNCHANGED place, ReadByte PROVE Inv'
  OBVIOUS
<1> USE DEF Inv
<1>1. /\ at \in Coefficients /\ part \in 1 .. Parts /\ register[at] \in Floats
      /\ WithByte = [taken EXCEPT ![part] = register[at][part]]
      /\ taken' \in {WithByte, Zero}
  BY DEF ReadByte, WithByte, ByteRead, TypeOK
<1>2. WithByte \in Floats /\ taken' \in Floats
  BY <1>1, ZeroTyped DEF Floats, TypeOK
<1>3. TypeOK'
  <2>1. coefficient' \in [Coefficients -> Floats]
    BY <1>1, <1>2 DEF ReadByte, TypeOK
  <2>2. part' \in 1 .. Parts
    BY <1>1, CoefficientsAssumption DEF ReadByte
  <2>3. at' \in Coefficients
    BY <1>1, CoefficientsAssumption DEF ReadByte, Coefficients
  <2>4. torn' \subseteq Coefficients /\ differs' \subseteq Coefficients
    BY <1>1 DEF ReadByte, TypeOK
  <2>5. pc' \in {"read", "print"}
    BY DEF ReadByte
  <2>6. QED
    BY <1>2, <2>1, <2>2, <2>3, <2>4, <2>5, SamePlaces DEF ReadByte, TypeOK, files, slave
<1>4. FileKept' /\ DocumentKept'
  BY SamePlaces DEF ReadByte, files, FileKept, DocumentKept
<1>5. TakenSoFar'
  <2>1. CASE part > 1
    <3>1. pc' = pc /\ at' = at /\ part' = part - 1 /\ taken' = WithByte /\ torn \subseteq torn' /\ register' = register
      BY <2>1 DEF ReadByte, slave
    <3>2. \A p \in 1 .. Parts : p > part - 1 <=> p > part \/ p = part
      BY <1>1, CoefficientsAssumption
    <3>3. QED
      BY <1>1, <3>1, <3>2 DEF TakenSoFar, TypeOK, Floats
  <2>2. CASE ~(part > 1)
    BY <2>2, CoefficientsAssumption DEF ReadByte, TakenSoFar
  <2>3. QED
    BY <2>1, <2>2
<1>6. Writing'
  <2>1. next > 1 /\ writing = at => at \in torn'
    BY DEF ReadByte, Halfway
  <2>2. QED
    BY <2>1 DEF Writing, ReadByte, slave
<1>7. WholeShown'
  BY DEF ReadByte, slave, WholeShown, Halfway
<1>8. RegistersShowCoefficients'
  <2>1. CASE part > 1
    BY <2>1 DEF ReadByte, slave, RegistersShowCoefficients
  <2>2. CASE ~(part > 1)
    <3>1. part = 1
      BY <1>1, <2>2, CoefficientsAssumption
    <3>2. at \notin torn' => coefficient'[at] = register[at]
      BY <1>1, <3>1, LastByte DEF ReadByte, TypeOK
    <3>3. \A k \in Coefficients \ {at} : coefficient'[k] = coefficient[k]
      BY <2>2 DEF ReadByte, TypeOK
    <3>4. differs' = IF at \in torn' THEN differs \cup {at} ELSE differs \ {at}
      BY <2>2 DEF ReadByte
    <3>5. pc # "down" /\ register' = register
      BY DEF ReadByte, slave
    <3>6. QED
      BY <3>2, <3>3, <3>4, <3>5 DEF RegistersShowCoefficients
  <2>3. QED
    BY <2>1, <2>2
<1>9. QED
  BY <1>3, <1>4, <1>5, <1>6, <1>7, <1>8

LEMMA UpdateDocumentInv == Inv /\ UNCHANGED place /\ UpdateDocument => Inv'
<1> SUFFICES ASSUME Inv, UNCHANGED place, UpdateDocument PROVE Inv'
  OBVIOUS
<1> USE DEF Inv
<1>1. NewDocument \in [Places -> Floats] \cup {Broken}
  BY RecordedTyped, WrittenTyped DEF NewDocument, TypeOK
<1>2. TypeOK'
  BY <1>1, SamePlaces DEF UpdateDocument, TypeOK, files, slave, reader
<1>3. FileKept' /\ DocumentKept'
  BY SamePlaces DEF UpdateDocument, NewDocument, files, FileKept, DocumentKept
<1>4. TakenSoFar' /\ Writing' /\ RegistersShowCoefficients'
  BY DEF UpdateDocument, slave, reader, TakenSoFar, Writing, RegistersShowCoefficients
<1>5. WholeShown'
  BY DEF UpdateDocument, slave, WholeShown, Halfway
<1>6. QED
  BY <1>2, <1>3, <1>4, <1>5

LEMMA FilesInv ==
  ASSUME Inv, UNCHANGED place,
         OpenCalibrations \/ WriteCalibrations \/ OpenConfiguration \/ WriteConfiguration
  PROVE  Inv'
<1> USE DEF Inv
<1> USE DEF OpenCalibrations, WriteCalibrations, OpenConfiguration, WriteConfiguration
<1>1. TypeOK'
  BY SamePlaces, RecordedTyped DEF memory, slave, reader, TypeOK
<1>2. FileKept'
  <2>1. CASE WriteCalibrations
    <3>1. configured => Written(kept)' = Written(Recorded)
      BY <2>1 DEF Written, Places, Sharing, Recorded
    <3>2. ~configured => Written(kept)' = Written(kept)
      BY <2>1, SamePlaces
    <3>3. QED
      BY <2>1, <3>1, <3>2 DEF FileKept, DocumentKept
  <2>2. CASE OpenCalibrations \/ OpenConfiguration \/ WriteConfiguration
    BY <2>2, SamePlaces DEF FileKept
  <2>3. QED
    BY <2>1, <2>2
<1>3. DocumentKept'
  BY SamePlaces DEF memory, DocumentKept
<1>4. TakenSoFar' /\ Writing' /\ RegistersShowCoefficients'
  BY DEF memory, slave, reader, TakenSoFar, Writing, RegistersShowCoefficients
<1>5. WholeShown'
  BY DEF slave, WholeShown, Halfway
<1>6. QED
  BY <1>1, <1>2, <1>3, <1>4, <1>5

LEMMA ZeroingInv == Inv /\ UNCHANGED place /\ Zeroing => Inv'
<1> SUFFICES ASSUME Inv, UNCHANGED place, Zeroing PROVE Inv'
  OBVIOUS
<1> USE DEF Inv
<1>1. PICK zeroed \in SUBSET Offsets :
        /\ coefficient' \in {c \in [Coefficients -> Floats] :
                               \A k \in Coefficients \ zeroed : c[k] = coefficient[k]}
        /\ differs' = differs \cup zeroed
  BY DEF Zeroing
<1>2. TypeOK'
  BY <1>1, SamePlaces, CoefficientsAssumption DEF Zeroing, TypeOK, files, slave, reader
<1>3. FileKept' /\ DocumentKept' /\ TakenSoFar'
  BY SamePlaces DEF Zeroing, files, slave, reader, FileKept, DocumentKept, TakenSoFar
<1>4. Writing' /\ RegistersShowCoefficients'
  BY <1>1 DEF Zeroing, slave, Writing, RegistersShowCoefficients
<1>5. WholeShown'
  BY DEF Zeroing, slave, WholeShown, Halfway
<1>6. QED
  BY <1>2, <1>3, <1>4, <1>5

----------------------------------------------------------------------------
(* Crash and start. *)

LEMMA CrashInv == Inv /\ UNCHANGED place /\ Crash => Inv'
BY SamePlaces, ZeroTyped, CoefficientsAssumption
DEF Inv, Crash, TypeOK, memory, files, reader, FileKept, DocumentKept, TakenSoFar,
    WholeShown, Writing, RegistersShowCoefficients

(* A start reads the last recording from a file that can be read.           *)
LEMMA ParsedTyped ==
  ASSUME Inv
  PROVE  /\ Parsed \in [Coefficients -> Floats]
         /\ \/ \A k \in Coefficients :
                  Parsed[k] = IF place[k] = Nowhere THEN Zero
                                                   ELSE kept[Last(Sharing(place[k]))]
            \/ Parsed = Uncalibrated /\ Broken \in {calibrations, configuration}
<1> USE DEF Inv
<1>1. CASE Broken \in {calibrations, configuration}
  BY <1>1, ZeroTyped DEF Parsed
<1>2. CASE Broken \notin {calibrations, configuration}
  <2>1. Parsed = ReadFrom(calibrations) /\ calibrations = Written(kept)
    BY <1>2 DEF Parsed, FileKept
  <2>2. Parsed \in [Coefficients -> Floats]
    BY <1>2, <2>1, ReadTyped DEF TypeOK
  <2>3. ASSUME NEW k \in Coefficients, place[k] # Nowhere
        PROVE  Written(kept)[place[k]] = kept[Last(Sharing(place[k]))]
    BY <2>3 DEF Written, Places
  <2>4. QED
    BY <2>1, <2>2, <2>3 DEF ReadFrom
<1>3. QED
  BY <1>1, <1>2

LEMMA StartInv == Inv /\ UNCHANGED place /\ Start => Inv'
<1> SUFFICES ASSUME Inv, UNCHANGED place, Start PROVE Inv'
  OBVIOUS
<1> USE DEF Inv
<1>1. register' = Parsed /\ coefficient' = Parsed /\ whole' = Parsed
  BY DEF Start, StartRegisters
<1>2. TypeOK'
  BY <1>1, SamePlaces, ParsedTyped, ZeroTyped, CoefficientsAssumption DEF Start, TypeOK, files, Coefficients
<1>3. FileKept' /\ DocumentKept' /\ TakenSoFar' /\ RegistersShowCoefficients'
  BY <1>1, SamePlaces
  DEF Start, files, FileKept, DocumentKept, TakenSoFar, RegistersShowCoefficients
<1>4. WholeShown' /\ Writing'
  BY <1>1 DEF Start, WholeShown, Halfway, Writing
<1>5. QED
  BY <1>2, <1>3, <1>4

----------------------------------------------------------------------------
LEMMA NextInv == Inv /\ [Next]_vars => Inv'
<1> SUFFICES ASSUME Inv, [Next]_vars PROVE Inv'
  OBVIOUS
<1>1. CASE Next
  BY <1>1, BeginWriteInv, WriteByteInv, RecordInv, ReadByteInv, UpdateDocumentInv, FilesInv,
     ZeroingInv, CrashInv, StartInv
  DEF Next, recordCalibrations, pressureDiffToZero, writeHoldings
<1>2. CASE UNCHANGED vars
  BY <1>2, SamePlaces
  DEF vars, Inv, TypeOK, FileKept, DocumentKept, TakenSoFar, WholeShown, Halfway, Writing,
      RegistersShowCoefficients
<1>3. QED
  BY <1>1, <1>2

LEMMA InvHolds == Spec => []Inv
BY InitInv, NextInv, PTL DEF Spec

(* Every variable keeps its type. *)
THEOREM TypeCorrect == Spec => []TypeOK
<1>1. Inv => TypeOK
  BY DEF Inv
<1> QED
  BY <1>1, InvHolds, PTL

(* What a start reads back is the last completed recording, as far as the   *)
(* file has places for it, or nothing because a file is broken.             *)
THEOREM RecordingsAreRestored == Spec => StartsFromRecording
<1>1. Inv /\ [Next]_vars =>
        [pc = "down" /\ pc' = "idle" =>
           \/ \A k \in Coefficients :
                coefficient'[k] = IF place[k] = Nowhere THEN Zero
                                                       ELSE kept[Last(Sharing(place[k]))]
           \/ coefficient' = Uncalibrated /\ Broken \in {calibrations, configuration}]_vars
  <2> SUFFICES ASSUME Inv, Next, pc = "down", pc' = "idle"
               PROVE  \/ \A k \in Coefficients :
                           coefficient'[k] = IF place[k] = Nowhere THEN Zero
                                               ELSE kept[Last(Sharing(place[k]))]
                      \/ coefficient' = Uncalibrated /\ Broken \in {calibrations, configuration}
    OBVIOUS
  <2>1. Start
    BY DEF Next, recordCalibrations, pressureDiffToZero, writeHoldings, Record, ReadByte,
           UpdateDocument, OpenCalibrations, WriteCalibrations, Zeroing, OpenConfiguration,
           WriteConfiguration, WriteByte, BeginWrite, Crash
  <2>2. QED
    BY <2>1, ParsedTyped DEF Start
<1>2. QED
  BY <1>1, InvHolds, PTL DEF Spec, StartsFromRecording

(* The registers show the coefficients in use, as long as nothing was       *)
(* written, zeroed or torn since the last recording.                        *)
THEOREM CoefficientsAreShown == Spec => []RegistersShowCoefficients
<1>1. Inv => RegistersShowCoefficients
  BY DEF Inv
<1> QED
  BY <1>1, InvHolds, PTL

(* A coefficient is put together from two values only if it was written     *)
(* while it was read.                                                       *)
THEOREM TearsNeedOverlap == Spec => TornOnlyByOverlap
<1>1. Inv /\ [Next]_vars =>
        [pc = "read" /\ part = 1 /\ pc' # "down" /\ part' = Parts /\ at \notin torn' =>
           coefficient'[at] = whole[at]]_vars
  <2> SUFFICES ASSUME Inv, Next, pc = "read", part = 1, pc' # "down", part' = Parts,
                      at \notin torn'
               PROVE  coefficient'[at] = whole[at]
    OBVIOUS
  <2>1. part' # part
    BY CoefficientsAssumption
  <2>2. ReadByte
    BY <2>1 DEF Next, recordCalibrations, pressureDiffToZero, writeHoldings, Record,
           UpdateDocument, OpenCalibrations, WriteCalibrations, Zeroing, OpenConfiguration,
           WriteConfiguration, WriteByte, BeginWrite,
           Crash, Start, reader
  <2>3. coefficient' = [coefficient EXCEPT ![at] = WithByte]
    BY <2>2 DEF ReadByte
  <2>4. QED
    BY <2>2, <2>3, LastByte DEF Inv, TypeOK
<1>2. QED
  BY <1>1, InvHolds, PTL DEF Spec, TornOnlyByOverlap

=============================================================================
