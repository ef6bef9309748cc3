--------------------------- MODULE CommandRegisters ---------------------------
(***************************************************************************)
(* The command registers of the Modbus map: 1000 (the whole gateway), then *)
(* one per channel, and the calibration command.  Clients write them       *)
(* through ModBusSlaveDevice::writeHoldings (modbusslavedevice.cpp), with  *)
(* sendMutex held; the main thread polls, executes and clears them in      *)
(* MainClass::checkCommand (mainwindow.cpp) without that mutex, after it   *)
(* has published the data in proceedData with it.                          *)
(*                                                                         *)
(* A register is two bytes, written and read one after the other:          *)
(* ConvertRegisters (convertregisters.cpp) reads the low byte first and    *)
(* clears the high byte first, a slave writes the high byte first.  The    *)
(* accesses race; the processors this runs on (x86) keep the order of one  *)
(* thread's reads and of its writes, so every step below moves one byte.   *)
(*                                                                         *)
(* Abstractions.  A slave writes a range of these registers; the registers *)
(* of the data and of the coefficients are left out, and so is what a      *)
(* command does once it is executed (ChannelStatus).                       *)
(***************************************************************************)
EXTENDS Integers, Sequences

CONSTANTS Slaves,    \* the slave threads that write the registers
          Channels,  \* the number of channels
          Requests,  \* the ranges the clients write: a start and its values
          MaxWrites  \* bound: requests written in a behaviour

Last == Channels + 1
Registers == 0 .. Last   \* 1000, 1001 .. 1000 + Channels, 2000

Word(h, l) == [hi |-> h, lo |-> l]
Empty   == Word(0, 0)
Kvit    == Word(255, 255)  \* 0xFFFF
Disable == Word(127, 255)  \* 0x7FFF
ToZero  == Word(3, 231)    \* 999
Reset   == Word(0, 51)
Record  == Word(0, 52)

Words == {Kvit, Disable, ToZero, Reset, Record}

(* What checkCommand looks for in a register. *)
Commands(r) == CASE r = 0    -> {Kvit, ToZero}
                 [] r = Last -> {Reset, Record}
                 [] OTHER    -> {Kvit, Disable}

Request == [start : Registers, values : Seq(Words \cup {Empty})]

ASSUME ChannelsAssumption == Channels \in Nat /\ MaxWrites \in Nat
ASSUME RequestsAssumption ==
  /\ Requests \subseteq Request
  /\ \A q \in Requests : q.values # <<>> /\ q.start + Len(q.values) - 1 <= Last
Free == "free"
ASSUME SlavesAssumption == Free \notin Slaves

VARIABLES
  register,   \* HoldingsRegs, the command registers of it
  sendMutex,  \* the slave that holds it, or Free
  request,    \* the request the holder of sendMutex is writing
  written,    \* the bytes of it already written
  pc,         \* the main thread: "publish", "low", "high", "execute", "clear_high", "clear_low"
  at,         \* the register checkCommand is at
  word,       \* the word it has read there
  writes,     \* requests written so far, up to MaxWrites
  requested,  \* history: how often each command was written to each register
  executed,   \* history: how often it was executed
  disturbed,  \* history: the register being written was executed meanwhile
  kept        \* history: the command a register must hold until it is executed

slaves == <<sendMutex, request, written, writes, requested>>
main == <<pc, at, word, executed>>
vars == <<register, sendMutex, request, written, pc, at, word, writes,
          requested, executed, disturbed, kept>>

NoRequest == [start |-> 0, values |-> <<>>]

Init ==
  /\ register = [r \in Registers |-> Empty]
  /\ sendMutex = Free
  /\ request = NoRequest
  /\ written = 0
  /\ pc = "publish"
  /\ at = 0
  /\ word = Empty
  /\ writes = 0
  /\ requested = [r \in Registers |-> [c \in Words |-> 0]]
  /\ executed = [r \in Registers |-> [c \in Words |-> 0]]
  /\ disturbed = FALSE
  /\ kept = [r \in Registers |-> Empty]

----------------------------------------------------------------------------
(* writeHoldings. *)

Target == request.start + written \div 2           \* the register under way
Value  == request.values[1 + written \div 2]       \* and what it will hold
Written == written = 2 * Len(request.values)

(* The main thread has taken the command of register r and not yet cleared it. *)
Clearing(r) ==
  /\ at = r
  /\ \/ pc \in {"clear_high", "clear_low"}
     \/ pc = "execute" /\ word \in Commands(r)

(* The word that checkCommand has read, or will have read when it takes the *)
(* high byte too.                                                           *)
Read == IF pc = "high" THEN Word(register[at].hi, word.lo) ELSE word

(* It began to read register r before the write under way, so that it takes *)
(* another command out of it than the one written.                          *)
Overtaken(r) ==
  at = r /\ pc \in {"high", "execute"} /\ Read \in Commands(r) \ {Value}

Lock(s) ==
  /\ sendMutex = Free
  /\ writes < MaxWrites
  /\ sendMutex' = s
  /\ request' \in Requests
  /\ written' = 0
  /\ writes' = writes + 1
  /\ UNCHANGED <<register, main, requested, disturbed, kept>>

WriteHigh(s) ==
  /\ sendMutex = s /\ ~Written /\ written % 2 = 0
  /\ register' = [register EXCEPT ![Target].hi = Value.hi]
  /\ written' = written + 1
  /\ requested' = IF Value = Empty THEN requested
                  ELSE [requested EXCEPT ![Target][Value] = @ + 1]
  /\ disturbed' = Clearing(Target)
  /\ kept' = [kept EXCEPT ![Target] = Empty]
  /\ UNCHANGED <<sendMutex, request, writes, main>>

WriteLow(s) ==
  /\ sendMutex = s /\ ~Written /\ written % 2 = 1
  /\ register' = [register EXCEPT ![Target].lo = Value.lo]
  /\ written' = written + 1
  /\ kept' = [kept EXCEPT ![Target] = IF disturbed \/ Overtaken(Target) THEN Empty ELSE Value]
  /\ UNCHANGED <<sendMutex, request, writes, requested, main, disturbed>>

(* The mutex is released and the client is answered. *)
Reply(s) ==
  /\ sendMutex = s /\ Written
  /\ sendMutex' = Free
  /\ request' = NoRequest
  /\ written' = 0
  /\ UNCHANGED <<register, main, writes, requested, disturbed, kept>>

writeHoldings(s) == Lock(s) \/ WriteHigh(s) \/ WriteLow(s) \/ Reply(s)

----------------------------------------------------------------------------
(* The end of proceedData: it waits for sendMutex to publish the data. *)
Publish ==
  /\ pc = "publish"
  /\ sendMutex = Free
  /\ pc' = "low"
  /\ at' = 0
  /\ UNCHANGED <<register, slaves, word, executed, disturbed, kept>>

(* ConvertRegisters::toShort on the register checkCommand is at. *)
ReadLow ==
  /\ pc = "low"
  /\ word' = [word EXCEPT !.lo = register[at].lo]
  /\ pc' = "high"
  /\ UNCHANGED <<register, slaves, at, executed, disturbed, kept>>

ReadHigh ==
  /\ pc = "high"
  /\ word' = [word EXCEPT !.hi = register[at].hi]
  /\ pc' = "execute"
  /\ UNCHANGED <<register, slaves, at, executed, disturbed, kept>>

(* The next register, or the end of checkCommand. *)
Proceed(finished) ==
  IF finished THEN pc' = "publish" /\ at' = 0
              ELSE pc' = "low" /\ at' = at + 1

\* mutant: the loop reads one register too many
SkipPastLast ==
  /\ pc = "execute"
  /\ word \notin Commands(at)
  /\ Proceed(at > Last)
  /\ UNCHANGED <<register, slaves, word, executed, disturbed, kept>>

\* mutant: the calibration command is never reached
SkipBeforeLast ==
  /\ pc = "execute"
  /\ word \notin Commands(at)
  /\ Proceed(at = Last - 1)
  /\ UNCHANGED <<register, slaves, word, executed, disturbed, kept>>

\* mutant: the register is cleared whatever was read
SkipAndClear ==
  /\ pc = "execute"
  /\ word \notin Commands(at)
  /\ register' = [register EXCEPT ![at] = Empty]
  /\ Proceed(at = Last)
  /\ UNCHANGED <<slaves, word, executed, disturbed, kept>>

(* A word that is no command of its register stays where it is. *)
Skip ==
  /\ pc = "execute"
  /\ word \notin Commands(at)
  /\ Proceed(at = Last)
  /\ UNCHANGED <<register, slaves, word, executed, disturbed, kept>>

Execute ==
  /\ pc = "execute"
  /\ word \in Commands(at)
  /\ executed' = [executed EXCEPT ![at][word] = @ + 1]
  /\ kept' = [kept EXCEPT ![at] = IF @ = word THEN Empty ELSE @]
  /\ disturbed' = (disturbed \/ (sendMutex # Free /\ ~Written /\ at = Target))
  /\ pc' = "clear_high"
  /\ UNCHANGED <<register, slaves, at, word>>

(* ConvertRegisters::shortToModbus(0, ...). *)
ClearHigh ==
  /\ pc = "clear_high"
  /\ register' = [register EXCEPT ![at].hi = 0]
  /\ pc' = "clear_low"
  /\ UNCHANGED <<slaves, at, word, executed, disturbed, kept>>

\* mutant: only the high byte is cleared
ClearLowNothing ==
  /\ pc = "clear_low"
  /\ Proceed(at \in {0, Last})
  /\ UNCHANGED <<register, slaves, word, executed, disturbed, kept>>

(* After a command of the whole gateway the others wait for the next tick. *)
ClearLow ==
  /\ pc = "clear_low"
  /\ register' = [register EXCEPT ![at].lo = 0]
  /\ Proceed(at \in {0, Last})
  /\ UNCHANGED <<slaves, word, executed, disturbed, kept>>

checkCommand == ReadLow \/ ReadHigh \/ Skip \/ Execute \/ ClearHigh \/ ClearLow

Main == Publish \/ checkCommand

Next == Main \/ \E s \in Slaves : writeHoldings(s)

Spec == Init /\ [][Next]_vars

(* The 20 ms timer keeps firing; the mutex, which slaves take again and     *)
(* again, is given to the main thread in the end; a slave that holds it     *)
(* goes on.  Nobody has to send a request.                                  *)
Fairness ==
  /\ SF_vars(Publish)
  /\ WF_vars(checkCommand)
  /\ \A s \in Slaves : WF_vars(WriteHigh(s) \/ WriteLow(s) \/ Reply(s))

FairSpec == Spec /\ Fairness

----------------------------------------------------------------------------
(* Every variable has its type. *)
Bytes == {0, 3, 51, 52, 127, 231, 255}
TypeOK ==
  /\ register \in [Registers -> [hi : Bytes, lo : Bytes]]
  /\ sendMutex \in Slaves \cup {Free}
  /\ request \in Requests \cup {NoRequest}
  /\ written \in 0 .. 2 * Len(request.values)
  /\ pc \in {"publish", "low", "high", "execute", "clear_high", "clear_low"}
  /\ at \in Registers
  /\ word \in [hi : Bytes, lo : Bytes]
  /\ writes \in 0 .. MaxWrites
  /\ requested \in [Registers -> [Words -> Nat]]
  /\ executed \in [Registers -> [Words -> Nat]]
  /\ disturbed \in BOOLEAN
  /\ kept \in [Registers -> Words \cup {Empty}]

(* What the registers promise, as mailboxes. *)
Mailbox == INSTANCE CommandMailbox
ImplementsMailbox == Mailbox!Spec

(* No command is executed that no client wrote to that register, and none   *)
(* more often than it was written: neither bytes of two requests nor what   *)
(* an interrupted clearing leaves behind add up to a command.               *)
ExecutedWasRequested ==
  \A r \in Registers, c \in Words : executed[r][c] <= requested[r][c]

(* A request is lost only when it is written while the main thread clears   *)
(* the command before it, or has read that command's low byte already (and  *)
(* the two differ in that byte only: the calibration commands).  Otherwise  *)
(* the register holds it, whole, until it, and no other command, is         *)
(* executed or a client writes the register again.                          *)
KeptUntilExecuted ==
  \A r \in Registers : kept[r] # Empty => register[r] = kept[r]

(* Such a request is executed in the end, or replaced by a client: commands *)
(* of register 1000, which cut checkCommand short, delay it but, as long as *)
(* they stop coming (there are MaxWrites requests), not for ever.           *)
KeptIsExecuted ==
  \A r \in Registers :
    kept[r] \in Commands(r) ~> kept[r] = Empty
=============================================================================
