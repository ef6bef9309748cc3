------------------------ MODULE CommandRegisters_proofs ------------------------
(***************************************************************************)
(* For every number of channels, slaves and requests: the race of the      *)
(* slaves with checkCommand makes no command up, and loses a request only  *)
(* while the command before it is half read or being cleared; the          *)
(* registers implement mailboxes.                                          *)
(***************************************************************************)
EXTENDS CommandRegisters, TLAPS

(* A slave is between the two bytes of its target. *)
Halfway == sendMutex # Free /\ ~Written /\ written % 2 = 1

(* Halfway through an undisturbed write the high byte is the one written,   *)
(* and nothing is kept for the register yet.                                *)
HalfwayHigh ==
  Halfway => /\ kept[Target] = Empty
             /\ ~disturbed => register[Target].hi = Value.hi

(* Nothing is kept in a register that is about to be cleared, and a write   *)
(* under way to it knows that it is disturbed.                              *)
ClearingEmpty ==
  pc \in {"clear_high", "clear_low"} =>
    /\ kept[at] = Empty
    /\ Halfway /\ Target = at => disturbed

(* What checkCommand makes of a register that keeps a command is that       *)
(* command, or none.                                                        *)
Unmixed ==
  pc \in {"high", "execute"} /\ kept[at] # Empty /\ Read \in Commands(at) => Read = kept[at]

Inv == TypeOK /\ HalfwayHigh /\ ClearingEmpty /\ KeptUntilExecuted /\ Unmixed

LEMMA WordsTyped == Words \cup {Empty} \subseteq [hi : Bytes, lo : Bytes]
  BY DEF Words, Kvit, Disable, ToZero, Reset, Record, Empty, Word, Bytes

LEMMA CommandsTyped == \A r \in Registers : Commands(r) \subseteq Words
  BY DEF Commands, Words

(* Where a slave is in its request. *)
LEMMA TargetTyped ==
  ASSUME TypeOK, ~Written
  PROVE  /\ request \in Requests
         /\ Target \in Registers
         /\ Value \in Words \cup {Empty}
         /\ written \in Nat /\ written + 1 \in 0 .. 2 * Len(request.values)
<1>1. request \in Requests
  <2>1. CASE request = NoRequest
    BY <2>1 DEF TypeOK, NoRequest, Written
  <2>2. QED
    BY <2>1 DEF TypeOK
<1>2. /\ request.start \in Registers /\ request.values \in Seq(Words \cup {Empty})
      /\ request.start + Len(request.values) - 1 <= Last
  BY <1>1, RequestsAssumption DEF Request
<1>3. Len(request.values) \in Nat
  BY <1>2
<1>4. /\ written \in Nat /\ written < 2 * Len(request.values)
  <2> DEFINE n == Len(request.values)
  <2>1. written \in 0 .. 2 * n /\ written # 2 * n /\ n \in Nat
    BY <1>3 DEF TypeOK, Written
  <2> HIDE DEF n
  <2>2. written \in Nat /\ written < 2 * n
    BY <2>1
  <2>3. QED
    BY <2>2 DEF n
<1>5. written \div 2 \in 0 .. Len(request.values) - 1
  BY <1>3, <1>4
<1>6. Value \in Words \cup {Empty}
  BY <1>2, <1>3, <1>5 DEF Value
<1>7. request.start \in Nat /\ Last \in Nat /\ request.start + Len(request.values) - 1 <= Last
  BY <1>2, ChannelsAssumption DEF Registers, Last
<1>8. Target \in Registers
  BY <1>3, <1>5, <1>7 DEF Target, Registers
<1>9. QED
  BY <1>1, <1>3, <1>4, <1>6, <1>8

LEMMA InitInv == Init => Inv
<1> SUFFICES ASSUME Init PROVE Inv
  OBVIOUS
<1>1. 0 \in Registers
  BY ChannelsAssumption DEF Registers, Last
<1>2. Empty \in [hi : Bytes, lo : Bytes]
  BY WordsTyped
<1>3. written \in 0 .. 2 * Len(request.values)
  BY DEF Init, NoRequest
<1>4. TypeOK
  BY <1>1, <1>2, <1>3, ChannelsAssumption DEF Init, TypeOK
<1>5. QED
  BY <1>4 DEF Init, Inv, HalfwayHigh, Halfway, ClearingEmpty, KeptUntilExecuted, Unmixed

----------------------------------------------------------------------------
(* The command executed is the one that was kept, if one was. *)
LEMMA ExecutesKept ==
  ASSUME TypeOK, Unmixed, Execute
  PROVE  /\ kept[at] \in {word, Empty}
         /\ \A r \in Registers : kept'[r] = IF r = at THEN Empty ELSE kept[r]
<1>1. kept[at] \in {word, Empty}
  BY DEF Execute, Unmixed, Read
<1>2. QED
  BY <1>1 DEF Execute, TypeOK

LEMMA NextInv == Inv /\ [Next]_vars => Inv'
<1> SUFFICES ASSUME Inv, [Next]_vars PROVE Inv'
  OBVIOUS
<1> USE DEF Inv
<1>0. /\ Empty \in [hi : Bytes, lo : Bytes] /\ 0 \in Registers /\ Last \in Nat
  BY WordsTyped, ChannelsAssumption DEF Registers, Last
<1>1. ASSUME NEW s \in Slaves, Lock(s) PROVE Inv'
  <2>1. request' \in Requests /\ Len(request'.values) \in Nat
    BY <1>1, RequestsAssumption DEF Lock, Request
  <2>2. writes' \in 0 .. MaxWrites
    BY <1>1, ChannelsAssumption DEF Lock, TypeOK
  <2>3. TypeOK'
    BY <1>1, <2>1, <2>2 DEF Lock, TypeOK, main
  <2>4. ~Halfway'
    BY <1>1 DEF Lock, Halfway
  <2>5. QED
    BY <1>1, <2>3, <2>4
    DEF Lock, main, HalfwayHigh, ClearingEmpty, KeptUntilExecuted, Unmixed, Read
<1>2. ASSUME NEW s \in Slaves, WriteHigh(s) PROVE Inv'
  <2>1. ~Written
    BY <1>2 DEF WriteHigh
  <2>2. /\ Target \in Registers /\ Value \in Words \cup {Empty}
        /\ written \in Nat /\ written + 1 \in 0 .. 2 * Len(request.values)
    BY <2>1, TargetTyped
  <2>3. Target' = Target /\ Value' = Value
    <3>1. (written + 1) \div 2 = written \div 2
      BY <1>2, <2>2 DEF WriteHigh
    <3>2. QED
      BY <1>2, <3>1 DEF WriteHigh, Target, Value
  <2>4. Value \in [hi : Bytes, lo : Bytes]
    BY <2>2, WordsTyped
  <2>5. TypeOK'
    <3>1. register' \in [Registers -> [hi : Bytes, lo : Bytes]]
      BY <1>2, <2>2, <2>4 DEF WriteHigh, TypeOK
    <3>2. requested' \in [Registers -> [Words -> Nat]]
      BY <1>2, <2>2 DEF WriteHigh, TypeOK
    <3>3. kept' \in [Registers -> Words \cup {Empty}]
      BY <1>2, <2>2 DEF WriteHigh, TypeOK
    <3>4. disturbed' \in BOOLEAN
      BY <1>2 DEF WriteHigh, Clearing
    <3>5. QED
      BY <1>2, <2>2, <3>1, <3>2, <3>3, <3>4 DEF WriteHigh, TypeOK, main
  <2>6. /\ kept'[Target] = Empty /\ register'[Target].hi = Value.hi
        /\ disturbed' = Clearing(Target)
    BY <1>2, <2>2 DEF WriteHigh, TypeOK
  <2>7. HalfwayHigh'
    BY <2>3, <2>6 DEF HalfwayHigh
  <2>8. ClearingEmpty'
    <3>1. pc' = pc /\ at' = at
      BY <1>2 DEF WriteHigh, main
    <3>2. ASSUME pc \in {"clear_high", "clear_low"} PROVE kept'[at] = Empty
      BY <1>2, <2>2, <3>2 DEF WriteHigh, ClearingEmpty, TypeOK
    <3>3. ASSUME pc \in {"clear_high", "clear_low"}, Target = at PROVE disturbed'
      BY <2>6, <3>3 DEF Clearing
    <3>4. QED
      BY <2>3, <3>1, <3>2, <3>3 DEF ClearingEmpty
  <2>9. KeptUntilExecuted'
    BY <1>2, <2>2 DEF WriteHigh, KeptUntilExecuted, TypeOK
  <2>10. Unmixed'
    <3>1. pc' = pc /\ at' = at /\ word' = word /\ at \in Registers
      BY <1>2 DEF WriteHigh, main, TypeOK
    <3>2. CASE at = Target
      BY <2>6, <3>1, <3>2 DEF Unmixed
    <3>3. CASE at # Target
      <4>1. register'[at] = register[at] /\ kept'[at] = kept[at]
        BY <1>2, <3>1, <3>3 DEF WriteHigh, TypeOK
      <4>2. QED
        BY <3>1, <4>1 DEF Unmixed, Read
    <3>4. QED
      BY <3>2, <3>3
  <2>11. QED
    BY <2>5, <2>7, <2>8, <2>9, <2>10
<1>3. ASSUME NEW s \in Slaves, WriteLow(s) PROVE Inv'
  <2>1. ~Written /\ Halfway
    BY <1>3, SlavesAssumption DEF WriteLow, Halfway
  <2>2. /\ Target \in Registers /\ Value \in Words \cup {Empty}
        /\ written \in Nat /\ written + 1 \in 0 .. 2 * Len(request.values)
    BY <2>1, TargetTyped
  <2>3. Value \in [hi : Bytes, lo : Bytes]
    BY <2>2, WordsTyped
  <2>4. TypeOK'
    <3>1. register' \in [Registers -> [hi : Bytes, lo : Bytes]]
      BY <1>3, <2>2, <2>3 DEF WriteLow, TypeOK
    <3>2. kept' \in [Registers -> Words \cup {Empty}]
      BY <1>3, <2>2 DEF WriteLow, TypeOK
    <3>3. QED
      BY <1>3, <2>2, <3>1, <3>2 DEF WriteLow, TypeOK, main
  <2>5. ~Halfway'
    <3>1. (written + 1) % 2 = 0
      BY <1>3, <2>2 DEF WriteLow
    <3>2. QED
      BY <1>3, <3>1 DEF WriteLow, Halfway
  <2>6. /\ \A r \in Registers \ {Target} : register'[r] = register[r] /\ kept'[r] = kept[r]
        /\ kept'[Target] = IF disturbed \/ Overtaken(Target) THEN Empty ELSE Value
        /\ register'[Target] = [register[Target] EXCEPT !.lo = Value.lo]
    BY <1>3, <2>2 DEF WriteLow, TypeOK
  <2>7. ~disturbed => register'[Target] = Value
    <3>1. register[Target] \in [hi : Bytes, lo : Bytes]
      BY <2>2 DEF TypeOK
    <3>2. ~disturbed => register[Target].hi = Value.hi
      BY <2>1 DEF HalfwayHigh
    <3>3. QED
      BY <2>3, <2>6, <3>1, <3>2
  <2>8. KeptUntilExecuted'
    BY <2>6, <2>7 DEF KeptUntilExecuted
  <2>9. ClearingEmpty'
    <3>1. pc' = pc /\ at' = at /\ at \in Registers
      BY <1>3 DEF WriteLow, main, TypeOK
    <3>2. pc \in {"clear_high", "clear_low"} => kept'[at] = Empty
      BY <2>1, <2>6, <3>1 DEF ClearingEmpty
    <3>3. QED
      BY <2>5, <3>1, <3>2 DEF ClearingEmpty
  <2>10. Unmixed'
    <3>1. pc' = pc /\ at' = at /\ word' = word /\ at \in Registers
      BY <1>3 DEF WriteLow, main, TypeOK
    <3>2. register'[at].hi = register[at].hi
      BY <1>3, <2>2, <3>1 DEF WriteLow, TypeOK
    <3>3. Read' = Read
      BY <3>1, <3>2 DEF Read
    <3>4. at = Target /\ kept'[at] # Empty => kept'[at] = Value /\ ~Overtaken(Target)
      BY <2>6
    <3>5. at # Target => kept'[at] = kept[at]
      BY <2>6, <3>1
    <3>6. QED
      BY <3>1, <3>3, <3>4, <3>5 DEF Unmixed, Overtaken
  <2>11. QED
    BY <2>4, <2>5, <2>8, <2>9, <2>10 DEF HalfwayHigh
<1>4. ASSUME NEW s \in Slaves, Reply(s) PROVE Inv'
  <2>1. TypeOK'
    BY <1>4 DEF Reply, TypeOK, main, NoRequest
  <2>2. ~Halfway'
    BY <1>4 DEF Reply, Halfway
  <2>3. QED
    BY <1>4, <2>1, <2>2
    DEF Reply, main, HalfwayHigh, ClearingEmpty, KeptUntilExecuted, Unmixed, Read
<1>5. CASE Publish \/ ReadLow \/ ReadHigh
  <2>1. TypeOK'
    BY <1>0, <1>5 DEF Publish, ReadLow, ReadHigh, slaves, TypeOK
  <2>2. /\ UNCHANGED <<register, sendMutex, request, written, disturbed, kept>>
        /\ pc' \notin {"clear_high", "clear_low"}
    BY <1>5 DEF Publish, ReadLow, ReadHigh, slaves
  <2>3. Unmixed'
    <3>1. CASE Publish
      BY <3>1 DEF Publish, Unmixed
    <3>2. CASE ReadLow
      <4>1. /\ pc' = "high" /\ word'.lo = register[at].lo
            /\ UNCHANGED <<register, at, kept>>
        BY <3>2 DEF ReadLow, TypeOK
      <4>2. register[at] \in [hi : Bytes, lo : Bytes]
        BY DEF TypeOK
      <4>3. Read' = register[at]
        BY <4>1, <4>2 DEF Read, Word
      <4>4. kept[at] # Empty => register[at] = kept[at]
        BY DEF KeptUntilExecuted, TypeOK
      <4>5. QED
        BY <4>1, <4>3, <4>4 DEF Unmixed
    <3>3. CASE ReadHigh
      <4>1. /\ pc = "high" /\ pc' = "execute" /\ word' = [word EXCEPT !.hi = register[at].hi]
            /\ UNCHANGED <<at, kept>>
        BY <3>3 DEF ReadHigh
      <4>2. word \in [hi : Bytes, lo : Bytes]
        BY DEF TypeOK
      <4>3. Read' = Read
        BY <4>1, <4>2 DEF Read, Word
      <4>4. QED
        BY <4>1, <4>3 DEF Unmixed
    <3>4. QED
      BY <1>5, <3>1, <3>2, <3>3
  <2>4. QED
    BY <2>1, <2>2, <2>3
    DEF HalfwayHigh, Halfway, Written, Target, Value, ClearingEmpty, KeptUntilExecuted
<1>6. CASE Skip
  <2>1. at' \in Registers /\ pc' \in {"publish", "low"}
    BY <1>0, <1>6 DEF Skip, Proceed, TypeOK, Registers
  <2>2. TypeOK'
    BY <1>6, <2>1 DEF Skip, slaves, TypeOK
  <2>3. UNCHANGED <<register, sendMutex, request, written, disturbed, kept>>
    BY <1>6 DEF Skip, slaves
  <2>4. QED
    BY <2>1, <2>2, <2>3
    DEF HalfwayHigh, Halfway, Written, Target, Value, ClearingEmpty, KeptUntilExecuted, Unmixed
<1>7. CASE Execute
  <2>1. at \in Registers /\ word \in Words
    BY <1>7, CommandsTyped DEF Execute, TypeOK
  <2>2. TypeOK'
    <3>1. executed' \in [Registers -> [Words -> Nat]]
      BY <1>7, <2>1 DEF Execute, TypeOK
    <3>2. kept' \in [Registers -> Words \cup {Empty}] /\ disturbed' \in BOOLEAN
      BY <1>7, <2>1 DEF Execute, TypeOK
    <3>3. QED
      BY <1>7, <3>1, <3>2 DEF Execute, slaves, TypeOK
  <2>3. /\ UNCHANGED <<register, sendMutex, request, written, at>>
        /\ disturbed => disturbed'
        /\ Halfway /\ Target = at => disturbed'
    BY <1>7 DEF Execute, slaves, Halfway
  <2>4. \A r \in Registers : kept'[r] = IF r = at THEN Empty ELSE kept[r]
    BY <1>7, <2>1, ExecutesKept
  <2>5. (Halfway' <=> Halfway) /\ Target' = Target /\ Value' = Value
    BY <2>3 DEF Halfway, Written, Target, Value
  <2>6. Halfway => Target \in Registers
    BY TargetTyped DEF Halfway
  <2>7. QED
    BY <1>7, <2>1, <2>2, <2>3, <2>4, <2>5, <2>6
    DEF Execute, HalfwayHigh, ClearingEmpty, KeptUntilExecuted, Unmixed
<1>8. CASE ClearHigh \/ ClearLow
  <2>1. at \in Registers /\ pc \in {"clear_high", "clear_low"}
    BY <1>8 DEF ClearHigh, ClearLow, TypeOK
  <2>2. /\ UNCHANGED <<sendMutex, request, written, disturbed, kept>>
        /\ \A r \in Registers \ {at} : register'[r] = register[r]
    BY <1>8, <2>1 DEF ClearHigh, ClearLow, slaves, TypeOK
  <2>3. register' \in [Registers -> [hi : Bytes, lo : Bytes]]
    <3>1. 0 \in Bytes
      BY DEF Bytes
    <3>2. register[at] \in [hi : Bytes, lo : Bytes]
      BY <2>1 DEF TypeOK
    <3>3. /\ [register[at] EXCEPT !.hi = 0] \in [hi : Bytes, lo : Bytes]
          /\ [register[at] EXCEPT !.lo = 0] \in [hi : Bytes, lo : Bytes]
      BY <3>1, <3>2
    <3>4. QED
      BY <1>8, <2>1, <3>3 DEF ClearHigh, ClearLow, TypeOK
  <2>4. at' \in Registers
    BY <1>0, <1>8, <2>1 DEF ClearHigh, ClearLow, Proceed, Registers
  <2>5. TypeOK'
    BY <1>8, <2>3, <2>4 DEF ClearHigh, ClearLow, Proceed, slaves, TypeOK
  <2>6. kept[at] = Empty /\ (Halfway /\ Target = at => disturbed)
    BY <2>1 DEF ClearingEmpty
  <2>7. (Halfway' <=> Halfway) /\ Target' = Target /\ Value' = Value
    BY <2>2 DEF Halfway, Written, Target, Value
  <2>8. Halfway => Target \in Registers
    BY TargetTyped DEF Halfway
  <2>9. HalfwayHigh' /\ KeptUntilExecuted'
    BY <2>2, <2>6, <2>7, <2>8 DEF HalfwayHigh, KeptUntilExecuted
  <2>10. (pc' = "clear_low" /\ at' = at) \/ pc' \in {"publish", "low"}
    BY <1>8 DEF ClearHigh, ClearLow, Proceed
  <2>11. ClearingEmpty'
    BY <2>2, <2>6, <2>7, <2>10 DEF ClearingEmpty
  <2>12. QED
    BY <2>5, <2>9, <2>10, <2>11 DEF Unmixed
<1>9. CASE UNCHANGED vars
  BY <1>9 DEF vars, TypeOK, HalfwayHigh, Halfway, Written, Target, Value,
              ClearingEmpty, KeptUntilExecuted, Unmixed, Read
<1>10. QED
  BY <1>1, <1>2, <1>3, <1>4, <1>5, <1>6, <1>7, <1>8, <1>9
  DEF Next, Main, checkCommand, writeHoldings

LEMMA InvHolds == Spec => []Inv
  BY InitInv, NextInv, PTL DEF Spec

(* Every variable keeps its type; in particular checkCommand and the slaves *)
(* stay within the command registers.                                       *)
THEOREM TypeCorrect == Spec => []TypeOK
  BY InvHolds, PTL DEF Inv

(* For every number of channels and slaves and all requests: a request that *)
(* is not written during the clearing of an earlier command of its register *)
(* or halfway through its reading stays there, both bytes of it, until it   *)
(* is executed, and no other command before it, or rewritten.               *)
THEOREM RequestsAreKept == Spec => []KeptUntilExecuted
  BY InvHolds, PTL DEF Inv

----------------------------------------------------------------------------
(* Commands are not made up.  Each writing of a command entitles checkCommand *)
(* to execute it once.  What is still to come of it shows in one byte: the    *)
(* high one, which no other word shares, or, for the words whose high byte is *)
(* 0, the low one.  Seen: checkCommand will find that byte, or has read it.   *)
Seen(r, c) ==
  IF c.hi # 0
    THEN \/ register[r].hi = c.hi /\ ~(at = r /\ pc = "clear_high")
         \/ at = r /\ pc = "execute" /\ word = c
    ELSE \/ register[r].lo = c.lo /\ ~(at = r /\ pc \in {"clear_high", "clear_low"})
         \/ at = r /\ pc \in {"high", "execute"} /\ word.lo = c.lo

(* A slave is about to write that low byte. *)
Coming(r, c) == Halfway /\ Target = r /\ Value = c /\ c.hi = 0

One(b) == IF b THEN 1 ELSE 0

CreditOf(r, c) ==
  executed[r][c] + One(Seen(r, c)) + One(Coming(r, c)) <= requested[r][c]
Credit == \A r \in Registers, c \in Words : CreditOf(r, c)

LEMMA WordFacts ==
  ASSUME NEW c \in Words
  PROVE  /\ c.lo # 0
         /\ \A v \in Words \cup {Empty} : /\ c.hi # 0 /\ v.hi = c.hi => v = c
                                          /\ c.hi = 0 /\ v.lo = c.lo => v = c
BY DEF Words, Kvit, Disable, ToZero, Reset, Record, Empty, Word

LEMMA CreditCounts ==
  ASSUME TypeOK, NEW r \in Registers, NEW c \in Words
  PROVE  executed[r][c] \in Nat /\ requested[r][c] \in Nat
BY DEF TypeOK

(* A step of a slave that leaves the counts alone and adds nothing. *)
LEMMA CreditKept ==
  ASSUME TypeOK, NEW r \in Registers, NEW c \in Words, CreditOf(r, c),
         executed'[r][c] = executed[r][c], requested'[r][c] = requested[r][c],
         Seen(r, c)' => Seen(r, c), Coming(r, c)' => Coming(r, c)
  PROVE  CreditOf(r, c)'
BY CreditCounts DEF CreditOf, One

LEMMA InitCredit == Init => Credit
<1> SUFFICES ASSUME Init, NEW r \in Registers, NEW c \in Words PROVE CreditOf(r, c)
  BY DEF Credit
<1>1. executed[r][c] = 0 /\ requested[r][c] = 0
  BY DEF Init
<1>2. ~Coming(r, c)
  BY DEF Init, Coming, Halfway
<1>3. register[r].hi = 0 /\ register[r].lo = 0 /\ pc = "publish"
  BY DEF Init, Empty, Word
<1>4. ~Seen(r, c)
  BY <1>3, WordFacts DEF Seen
<1>5. QED
  BY <1>1, <1>2, <1>4 DEF CreditOf, One

LEMMA LockCredit ==
  ASSUME TypeOK, NEW r \in Registers, NEW c \in Words, CreditOf(r, c),
         NEW s \in Slaves, Lock(s) \/ Reply(s)
  PROVE  CreditOf(r, c)'
<1>1. ~Coming(r, c)'
  BY DEF Lock, Reply, Coming, Halfway
<1>2. Seen(r, c)' => Seen(r, c)
  BY DEF Lock, Reply, main, Seen
<1>3. QED
  BY <1>1, <1>2, CreditKept DEF Lock, Reply, main

LEMMA WriteHighCredit ==
  ASSUME TypeOK, NEW r \in Registers, NEW c \in Words, CreditOf(r, c),
         NEW s \in Slaves, WriteHigh(s)
  PROVE  CreditOf(r, c)'
<1>1. /\ Target \in Registers /\ Value \in Words \cup {Empty}
      /\ written \in Nat /\ written % 2 = 0
  BY TargetTyped DEF WriteHigh
<1>2. Target' = Target /\ Value' = Value
  <2>1. (written + 1) \div 2 = written \div 2
    BY <1>1
  <2>2. QED
    BY <2>1 DEF WriteHigh, Target, Value
<1>3. ~Coming(r, c)
  BY DEF WriteHigh, Coming, Halfway
<1>4. /\ register'[r].lo = register[r].lo
      /\ register'[r].hi = IF r = Target THEN Value.hi ELSE register[r].hi
  BY <1>1 DEF WriteHigh, TypeOK
<1>5. pc' = pc /\ at' = at /\ word' = word /\ executed' = executed
  BY DEF WriteHigh, main
<1>6. CASE r = Target /\ c = Value
  <2>1. c # Empty
    BY WordFacts DEF Empty, Word
  <2>2. requested'[r][c] = requested[r][c] + 1
    BY <1>1, <1>6, <2>1 DEF WriteHigh, TypeOK
  <2>3. CASE c.hi # 0
    BY <1>3, <1>5, <2>2, <2>3, CreditCounts DEF CreditOf, One, Coming
  <2>4. CASE c.hi = 0
    <3>1. Seen(r, c)' => Seen(r, c)
      BY <1>4, <1>5, <2>4 DEF Seen
    <3>2. QED
      BY <1>3, <1>5, <2>2, <3>1, CreditCounts DEF CreditOf, One
  <2>5. QED
    BY <2>3, <2>4
<1>7. CASE ~(r = Target /\ c = Value)
  <2>1. requested'[r][c] = requested[r][c]
    BY <1>1, <1>7 DEF WriteHigh, TypeOK
  <2>2. ~Coming(r, c)'
    BY <1>2, <1>7 DEF Coming
  <2>3. r = Target /\ c.hi # 0 => Value.hi # c.hi
    BY <1>1, <1>7, WordFacts
  <2>4. Seen(r, c)' => Seen(r, c)
    BY <1>4, <1>5, <2>3 DEF Seen
  <2>5. QED
    BY <1>5, <2>1, <2>2, <2>4, CreditKept
<1>8. QED
  BY <1>6, <1>7

LEMMA WriteLowCredit ==
  ASSUME TypeOK, NEW r \in Registers, NEW c \in Words, CreditOf(r, c),
         NEW s \in Slaves, WriteLow(s)
  PROVE  CreditOf(r, c)'
<1>1. /\ Target \in Registers /\ Value \in Words \cup {Empty}
      /\ written \in Nat /\ written % 2 = 1
  BY TargetTyped DEF WriteLow
<1>2. Halfway /\ ~Halfway'
  <2>1. (written + 1) % 2 = 0
    BY <1>1
  <2>2. QED
    BY <2>1, SlavesAssumption DEF WriteLow, Halfway
<1>3. /\ register'[r].hi = register[r].hi
      /\ register'[r].lo = IF r = Target THEN Value.lo ELSE register[r].lo
  BY <1>1 DEF WriteLow, TypeOK
<1>4. /\ pc' = pc /\ at' = at /\ word' = word
      /\ executed' = executed /\ requested' = requested
  BY DEF WriteLow, main
<1>5. ~Coming(r, c)'
  BY <1>2 DEF Coming
<1>6. CASE r = Target /\ c = Value /\ c.hi = 0
  BY <1>2, <1>4, <1>5, <1>6, CreditCounts DEF CreditOf, One, Coming
<1>7. CASE ~(r = Target /\ c = Value /\ c.hi = 0)
  <2>1. r = Target /\ c.hi = 0 => Value.lo # c.lo
    BY <1>1, <1>7, WordFacts
  <2>2. Seen(r, c)' => Seen(r, c)
    BY <1>3, <1>4, <2>1 DEF Seen
  <2>3. QED
    BY <1>4, <1>5, <2>2, CreditKept
<1>8. QED
  BY <1>6, <1>7

(* The main thread leaves the slave's request alone. *)
LEMMA ComingKept ==
  ASSUME UNCHANGED slaves, NEW r, NEW c PROVE Coming(r, c)' = Coming(r, c)
BY DEF slaves, Coming, Halfway, Written, Target, Value

LEMMA ReadCredit ==
  ASSUME TypeOK, NEW r \in Registers, NEW c \in Words, CreditOf(r, c),
         Publish \/ ReadLow \/ ReadHigh \/ Skip
  PROVE  CreditOf(r, c)'
<1>1. /\ UNCHANGED slaves /\ register' = register /\ executed' = executed
      /\ requested' = requested
  BY DEF Publish, ReadLow, ReadHigh, Skip, slaves
<1>2. Seen(r, c)' => Seen(r, c)
  <2>1. CASE Publish
    BY <2>1 DEF Publish, Seen
  <2>2. CASE ReadLow
    BY <2>2 DEF ReadLow, Seen, TypeOK
  <2>3. CASE ReadHigh
    BY <2>3 DEF ReadHigh, Seen, TypeOK
  <2>4. CASE Skip
    BY <2>4 DEF Skip, Proceed, Seen
  <2>5. QED
    BY <2>1, <2>2, <2>3, <2>4
<1>3. QED
  BY <1>1, <1>2, ComingKept, CreditKept

LEMMA ExecuteCredit ==
  ASSUME TypeOK, NEW r \in Registers, NEW c \in Words, CreditOf(r, c), Execute
  PROVE  CreditOf(r, c)'
<1>1. /\ UNCHANGED slaves /\ register' = register /\ at' = at /\ word' = word
      /\ requested' = requested /\ pc = "execute" /\ pc' = "clear_high"
      /\ Coming(r, c)' = Coming(r, c)
  BY ComingKept DEF Execute, slaves
<1>2. CASE r = at /\ c = word
  <2>1. executed'[r][c] = executed[r][c] + 1
    BY <1>2 DEF Execute, TypeOK
  <2>2. Seen(r, c) /\ ~Seen(r, c)'
    BY <1>1, <1>2 DEF Seen
  <2>3. QED
    BY <1>1, <2>1, <2>2, CreditCounts DEF CreditOf, One
<1>3. CASE ~(r = at /\ c = word)
  <2>1. executed'[r][c] = executed[r][c]
    <3>1. at \in Registers /\ word \in Words
      BY CommandsTyped DEF Execute, TypeOK
    <3>2. QED
      BY <1>3, <3>1 DEF Execute, TypeOK
  <2>2. Seen(r, c)' => Seen(r, c)
    BY <1>1 DEF Seen
  <2>3. QED
    BY <1>1, <2>1, <2>2, CreditKept
<1>4. QED
  BY <1>2, <1>3

LEMMA ClearCredit ==
  ASSUME TypeOK, NEW r \in Registers, NEW c \in Words, CreditOf(r, c),
         ClearHigh \/ ClearLow
  PROVE  CreditOf(r, c)'
<1>1. UNCHANGED slaves /\ executed' = executed /\ requested' = requested
  BY DEF ClearHigh, ClearLow, slaves
<1>2. Seen(r, c)' => Seen(r, c)
  <2>1. CASE ClearHigh
    <3>1. /\ register'[r].lo = register[r].lo
          /\ register'[r].hi = IF r = at THEN 0 ELSE register[r].hi
          /\ pc = "clear_high" /\ pc' = "clear_low" /\ at' = at
      BY <2>1 DEF ClearHigh, TypeOK
    <3>2. QED
      BY <3>1 DEF Seen
  <2>2. CASE ClearLow
    <3>1. /\ register'[r].hi = register[r].hi
          /\ register'[r].lo = IF r = at THEN 0 ELSE register[r].lo
          /\ pc = "clear_low" /\ pc' \in {"publish", "low"}
      BY <2>2 DEF ClearLow, Proceed, TypeOK
    <3>2. QED
      BY <3>1, WordFacts DEF Seen
  <2>3. QED
    BY <2>1, <2>2
<1>3. QED
  BY <1>1, <1>2, ComingKept, CreditKept

LEMMA NextCredit == TypeOK /\ Credit /\ [Next]_vars => Credit'
<1> SUFFICES ASSUME TypeOK, Credit, [Next]_vars, NEW r \in Registers, NEW c \in Words
             PROVE  CreditOf(r, c)'
  BY DEF Credit
<1>1. CreditOf(r, c)
  BY DEF Credit
<1>2. CASE Next
  BY <1>1, <1>2, LockCredit, WriteHighCredit, WriteLowCredit, ReadCredit, ExecuteCredit,
     ClearCredit
  DEF Next, Main, checkCommand, writeHoldings
<1>3. CASE UNCHANGED vars
  BY <1>1, <1>3 DEF vars, CreditOf, Seen, Coming, Halfway, Written, Target, Value
<1>4. QED
  BY <1>2, <1>3

(* For every number of channels and slaves and all requests: no command is  *)
(* executed more often than clients wrote it to its register.  Neither the  *)
(* bytes of two requests nor what an interrupted clearing leaves behind add *)
(* up to one.                                                               *)
THEOREM CommandsAreNotMadeUp == Spec => []ExecutedWasRequested
<1>1. TypeOK /\ Credit => ExecutedWasRequested
  BY CreditCounts DEF Credit, CreditOf, One, ExecutedWasRequested
<1>2. QED
  BY <1>1, InitCredit, NextCredit, TypeCorrect, PTL DEF Spec

----------------------------------------------------------------------------
(* The registers are mailboxes: a request is posted with its high byte and  *)
(* kept with its low byte, unless checkCommand is at it; executing it is    *)
(* paid by the credit of its writing.                                       *)
LEMMA MailboxInit == Init => Mailbox!Init
BY DEF Init, Mailbox!Init, Mailbox!None

LEMMA CreditIsDue ==
  ASSUME TypeOK, Credit, NEW r \in Registers, NEW c \in Words, Seen(r, c) \/ Coming(r, c)
  PROVE  Mailbox!Due(r, c)
BY CreditCounts DEF Credit, CreditOf, One, Mailbox!Due

LEMMA WriteHighPosts ==
  ASSUME TypeOK, NEW s \in Slaves, WriteHigh(s)
  PROVE  Mailbox!Next
<1>1. Target \in Registers /\ Value \in Words \cup {Empty}
  BY TargetTyped DEF WriteHigh
<1>2. executed' = executed /\ kept' = [kept EXCEPT ![Target] = Empty]
  BY DEF WriteHigh, main
<1>3. CASE Value = Empty
  BY <1>1, <1>2, <1>3 DEF WriteHigh, Mailbox!Next, Mailbox!Erase
<1>4. CASE Value # Empty
  <2>1. Mailbox!Post(Target, Value)
    BY <1>2, <1>4 DEF WriteHigh, Mailbox!Post
  <2>2. QED
    BY <1>1, <1>4, <2>1 DEF Mailbox!Next
<1>5. QED
  BY <1>3, <1>4

LEMMA WriteLowKeeps ==
  ASSUME Inv, Credit, NEW s \in Slaves, WriteLow(s)
  PROVE  Mailbox!Next \/ UNCHANGED Mailbox!vars
<1> USE DEF Inv
<1>1. Target \in Registers /\ Value \in Words \cup {Empty}
  BY TargetTyped DEF WriteLow
<1>2. Halfway
  BY SlavesAssumption DEF WriteLow, Halfway
<1>3. kept[Target] = Empty
  BY <1>2 DEF HalfwayHigh
<1>4. UNCHANGED <<requested, executed>>
  BY DEF WriteLow, main
<1>5. CASE disturbed \/ Overtaken(Target) \/ Value = Empty
  <2>1. kept' = [kept EXCEPT ![Target] = Empty]
    BY <1>5 DEF WriteLow
  <2>2. kept' = kept
    BY <1>1, <1>3, <2>1 DEF TypeOK
  <2>3. QED
    BY <1>4, <2>2 DEF Mailbox!vars
<1>6. CASE ~disturbed /\ ~Overtaken(Target) /\ Value # Empty
  <2>1. register[Target].hi = Value.hi
    BY <1>2, <1>6 DEF HalfwayHigh
  <2>2. ~(at = Target /\ pc = "clear_high")
    BY <1>2, <1>6 DEF ClearingEmpty
  <2>3. Seen(Target, Value) \/ Coming(Target, Value)
    BY <1>2, <2>1, <2>2 DEF Seen, Coming
  <2>4. Mailbox!Due(Target, Value)
    BY <1>1, <1>6, <2>3, CreditIsDue
  <2>5. Mailbox!Keep(Target, Value)
    BY <1>3, <1>4, <1>6, <2>4 DEF WriteLow, Mailbox!Keep
  <2>6. QED
    BY <1>1, <1>6, <2>5 DEF Mailbox!Next
<1>7. QED
  BY <1>5, <1>6

LEMMA ExecuteExecutes ==
  ASSUME Inv, Credit, Execute
  PROVE  Mailbox!Next
<1> USE DEF Inv
<1>1. at \in Registers /\ word \in Words
  BY CommandsTyped DEF Execute, TypeOK
<1>2. Mailbox!Due(at, word)
  BY <1>1, CreditIsDue DEF Execute, Seen
<1>3. kept[at] \in {word, Empty}
  BY ExecutesKept
<1>4. kept' = [kept EXCEPT ![at] = Empty]
  BY <1>3 DEF Execute
<1>5. requested' = requested
  BY DEF Execute, slaves
<1>6. Mailbox!Execute(at, word)
  BY <1>2, <1>3, <1>4, <1>5 DEF Execute, Mailbox!Execute
<1>7. QED
  BY <1>1, <1>6 DEF Mailbox!Next

LEMMA MailboxStep ==
  Inv /\ Credit /\ [Next]_vars => [Mailbox!Next]_Mailbox!vars
<1> SUFFICES ASSUME Inv, Credit, [Next]_vars
             PROVE  Mailbox!Next \/ UNCHANGED Mailbox!vars
  OBVIOUS
<1>1. ASSUME NEW s \in Slaves, Lock(s) \/ Reply(s) PROVE UNCHANGED Mailbox!vars
  BY <1>1 DEF Lock, Reply, main, Mailbox!vars
<1>2. ASSUME NEW s \in Slaves, WriteHigh(s) PROVE Mailbox!Next
  BY <1>2, WriteHighPosts DEF Inv
<1>3. ASSUME NEW s \in Slaves, WriteLow(s) PROVE Mailbox!Next \/ UNCHANGED Mailbox!vars
  BY <1>3, WriteLowKeeps
<1>4. CASE Publish \/ ReadLow \/ ReadHigh \/ Skip \/ ClearHigh \/ ClearLow
  BY <1>4 DEF Publish, ReadLow, ReadHigh, Skip, ClearHigh, ClearLow, slaves, Mailbox!vars
<1>5. CASE Execute
  BY <1>5, ExecuteExecutes
<1>6. CASE UNCHANGED vars
  BY <1>6 DEF vars, Mailbox!vars
<1>7. QED
  BY <1>1, <1>2, <1>3, <1>4, <1>5, <1>6 DEF Next, Main, checkCommand, writeHoldings

(* For every number of channels and slaves and all requests: seen from the  *)
(* requests and what is executed, the registers that two threads write byte *)
(* by byte without a common mutex are mailboxes.                            *)
THEOREM MailboxImplemented == Spec => ImplementsMailbox
<1>1. Init => Mailbox!Init
  BY MailboxInit
<1>2. Inv /\ Credit /\ [Next]_vars => [Mailbox!Next]_Mailbox!vars
  BY MailboxStep
<1>3. Spec => []Credit
  BY InitCredit, NextCredit, TypeCorrect, PTL DEF Spec
<1>4. QED
  BY <1>1, <1>2, <1>3, InvHolds, PTL DEF Spec, ImplementsMailbox, Mailbox!Spec
=============================================================================
