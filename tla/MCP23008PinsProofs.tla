------------------------- MODULE MCP23008PinsProofs -------------------------
(***************************************************************************)
(* Proofs about MCP23008Pins, for any set of expanders, of bits and of pin *)
(* objects: the caches of the multiplexer and of the expanders are right,  *)
(* so that every transaction reaches the device that it is meant for, and  *)
(* every line becomes what was asked of it, with no other state between.   *)
(***************************************************************************)
EXTENDS MCP23008Pins, SequenceTheorems, TLAPS

InCall == pc \in {"align", "aligned", "address", "data", "finish"}
InTransaction == pc \in {"address", "data", "finish"}

\* The transaction in progress is the one of the first call that is left, or
\* aligns the multiplexer for it.
CallInv ==
    /\ InCall => todo # <<>>
    /\ pc = "aligned" => control = {call.device}
    /\ InTransaction =>
          \/ pc # "finish" /\ transaction = [to |-> mux, data |-> {call.device}]
          \/ /\ transaction.to = call.device
             /\ transaction.data \subseteq Bits
             /\ control = {call.device}

ControlInv == control = m_control

CacheInv == registers = IF pc = "finish" THEN Cached ELSE cache

IInv == TypeOK /\ CallInv /\ ControlInv /\ CacheInv

USE DevicesAssumption DEF bus, expanders

LEMMA InitInv == Init => IInv
<1> SUFFICES ASSUME Init PROVE IInv
    OBVIOUS
<1>1. TypeOK
    BY DEF Init, BusInit, NoTransaction, TypeOK, RESET, Values, NoPin, Lines
<1>2. CallInv /\ ControlInv /\ CacheInv
    BY DEF Init, BusInit, CallInv, ControlInv, CacheInv, InCall, InTransaction
<1> QED
    BY <1>1, <1>2 DEF IInv

\* The call in progress is a driver call.
LEMMA CallType ==
    ASSUME IInv, InCall PROVE call \in Call /\ todo \in Seq(Call) /\ todo # <<>>
BY HeadTailProperties DEF IInv, TypeOK, CallInv, call

-----------------------------------------------------------------------------
(* Driver calls.                                                           *)

LEMMA BeginCallStep == ASSUME IInv, BeginCall PROVE IInv'
<1> DEFINE data == IF call.change = "read" THEN {} ELSE Written
<1>1. /\ pc \in {"align", "aligned"} /\ pc' = "address" /\ todo' = todo
      /\ UNCHANGED <<control, m_control, registers, cache, pin, wants>>
    BY DEF BeginCall, Align, Transact
<1>2. call \in Call /\ call' = call /\ InCall
    BY <1>1, CallType DEF InCall, call
<1>3. call.change # "read" => call.register \in Register
    BY <1>2 DEF Call, Change
<1>4. data \in SUBSET Bits
    BY <1>2, <1>3 DEF Written, IInv, TypeOK, Values, Register, Call
<1>5. CASE transaction' = [to |-> mux, data |-> {call.device}]
  <2>1. TypeOK'
      BY <1>1, <1>2, <1>5 DEF IInv, TypeOK, Call
  <2>2. CallInv'
      BY <1>1, <1>2, <1>5 DEF IInv, CallInv, InCall, InTransaction
  <2> QED
      BY <1>1, <2>1, <2>2 DEF IInv, ControlInv, CacheInv
<1>6. CASE transaction' = [to |-> call.device, data |-> data] /\ control = {call.device}
  <2> HIDE DEF data
  <2>1. TypeOK'
      BY <1>1, <1>2, <1>4, <1>6 DEF IInv, TypeOK, Call
  <2>2. CallInv'
      BY <1>1, <1>2, <1>4, <1>6 DEF IInv, CallInv, InCall, InTransaction
  <2> QED
      BY <1>1, <2>1, <2>2 DEF IInv, ControlInv, CacheInv
<1>7. CASE Align(call.device, data) /\ AlignmentNeeded(call.device)
  <2>1. Aligned(call.device) = {call.device}
      BY <1>2 DEF Aligned, IInv, TypeOK, Call
  <2> QED
      BY <1>5, <1>7, <2>1 DEF Align
<1>8. CASE Align(call.device, data) /\ ~AlignmentNeeded(call.device)
  <2>1. control = {call.device}
      BY <1>2, <1>8 DEF AlignmentNeeded, IInv, ControlInv, TypeOK, Call
  <2> QED
      BY <1>6, <1>8, <2>1 DEF Align
<1>9. CASE Transact(call.device, data)
    BY <1>6, <1>9 DEF Transact, IInv, CallInv
<1> QED
    BY <1>7, <1>8, <1>9 DEF BeginCall

LEMMA BusStep ==
    ASSUME IInv, Address \/ NotAcknowledged \/ SwitchChannels \/ ResetMultiplexer,
           UNCHANGED <<expanders, pin, todo, wants>>
    PROVE  IInv'
<1>1. call' = call
    BY DEF call
<1>2. CASE Address \/ NotAcknowledged
    BY <1>1, <1>2 DEF Address, NotAcknowledged, IInv, TypeOK, CallInv, ControlInv, CacheInv, InCall,
        InTransaction
<1>3. CASE SwitchChannels
  <2>1. InCall
      BY <1>3 DEF SwitchChannels, InCall
  <2>2. call.device \in Devices
      BY <2>1, CallType DEF Call
  <2>3. transaction.data = {call.device}
      BY <1>3, <2>2 DEF SwitchChannels, IInv, CallInv, InTransaction
  <2> QED
      BY <1>1, <1>3, <2>2, <2>3 DEF SwitchChannels, IInv, TypeOK, CallInv, ControlInv, CacheInv, InCall,
          InTransaction
<1>4. CASE ResetMultiplexer
    BY <1>1, <1>4 DEF ResetMultiplexer, IInv, TypeOK, CallInv, ControlInv, CacheInv, InCall,
        InTransaction
<1> QED
    BY <1>2, <1>3, <1>4

LEMMA TransferStep == ASSUME IInv, Transfer PROVE IInv'
<1> USE DEF Transfer
<1>1. /\ pc = "data" /\ pc' = "finish" /\ call' = call /\ Cached' = Cached
      /\ UNCHANGED <<control, m_control, transaction, cache, pin, todo, wants>>
    BY DEF call, Cached
<1>2. call \in Call
    BY <1>1, CallType DEF InCall
<1>3. transaction.to = call.device /\ transaction.data \in SUBSET Bits /\ control = {call.device}
    BY <1>1, <1>2 DEF IInv, CallInv, InTransaction, Call
<1>4. Reachable(transaction.to) = {call.device}
    BY <1>2, <1>3 DEF Reachable, Call
<1>5. call.change # "read" => call.register \in Register
    BY <1>2 DEF Call, Change
<1>6. registers = cache /\ cache \in [Devices -> Values]
    BY <1>1 DEF IInv, CacheInv, TypeOK
<1>7. registers' = Cached
    BY <1>2, <1>4, <1>5, <1>6 DEF Cached, Call
<1>8. Cached \in [Devices -> Values]
    BY <1>2, <1>3, <1>5, <1>6 DEF Cached, Call, Values, Register
<1>9. TypeOK'
    BY <1>1, <1>7, <1>8 DEF IInv, TypeOK
<1>10. CallInv'
    BY <1>1, <1>2, <1>3 DEF IInv, CallInv, InCall, InTransaction
<1> QED
    BY <1>1, <1>7, <1>9, <1>10 DEF IInv, ControlInv, CacheInv

LEMMA FinishStep == ASSUME IInv, Finish PROVE IInv'
<1> USE DEF Finish
<1>1. /\ pc = "finish" /\ pc' \in {"idle", "align"} /\ cache' = registers /\ registers' = registers
      /\ UNCHANGED <<control, m_control, transaction, pin, wants>>
    BY DEF IInv, CacheInv
<1>2. todo \in Seq(Call) /\ todo # <<>>
    BY <1>1, CallType DEF InCall
<1>3. todo' \in Seq(Call) /\ Len(todo') = Len(todo) - 1
    BY <1>2, HeadTailProperties
<1>4. pc' = "align" => todo' # <<>>
  <2>1. Len(todo) \in Nat \ {0}
      BY <1>2, EmptySeq
  <2>2. todo' = <<>> => Len(todo') = 0
      BY EmptySeq
  <2> QED
      BY <1>3, <2>1, <2>2
<1>5. TypeOK'
    BY <1>1, <1>3 DEF IInv, TypeOK
<1>6. CallInv'
    BY <1>1, <1>4 DEF CallInv, InCall, InTransaction
<1> QED
    BY <1>1, <1>5, <1>6 DEF IInv, ControlInv, CacheInv

-----------------------------------------------------------------------------
(* Operations of the pins.                                                 *)

PinType == [device : Devices, bit : Bits, initialized : BOOLEAN] \cup {NoPin}

LEMMA PinTypes ==
    ASSUME IInv
    PROVE  /\ pin \in [Pins -> PinType]
           /\ \A p \in Pins : [pin EXCEPT ![p] = NoPin] \in [Pins -> PinType]
           /\ \A p \in Pins : pin[p].device # none =>
                 /\ [pin EXCEPT ![p].initialized = TRUE] \in [Pins -> PinType]
                 /\ wants[pin[p].device][pin[p].bit] \in Lines
<1>1. pin \in [Pins -> PinType] /\ wants \in [Devices -> [Bits -> Lines]]
    BY DEF IInv, TypeOK, PinType
<1>2. \A p \in Pins : [pin EXCEPT ![p] = NoPin] \in [Pins -> PinType]
    BY <1>1 DEF PinType
<1>3. ASSUME NEW p \in Pins, pin[p].device # none
      PROVE  /\ [pin EXCEPT ![p].initialized = TRUE] \in [Pins -> PinType]
             /\ wants[pin[p].device][pin[p].bit] \in Lines
  <2>1. pin[p] \in PinType /\ pin[p] # NoPin
      BY <1>1, <1>3 DEF NoPin
  <2>2. pin[p] \in [device : Devices, bit : Bits, initialized : BOOLEAN]
      BY <2>1 DEF PinType
  <2>3. [pin[p] EXCEPT !.initialized = TRUE] \in PinType
      BY <2>2 DEF PinType
  <2>4. wants[pin[p].device][pin[p].bit] \in Lines
      BY <1>1, <2>2
  <2>5. [pin EXCEPT ![p].initialized = TRUE] \in [Pins -> PinType]
      BY <1>1, <2>3
  <2> QED
      BY <2>4, <2>5
<1> QED
    BY <1>1, <1>2, <1>3

\* What an operation on a line, which is left to the driver calls, keeps.
LEMMA BeginStep ==
    ASSUME IInv, NEW p \in Pins, NEW line \in Lines,
           NEW changes \in Seq(Change), changes # <<>>, Begin(p, changes, line),
           pin' \in [Pins -> PinType]
    PROVE  IInv'
<1> USE DEF Begin, PinType
<1>1. /\ pc = "idle" /\ pc' = "align"
      /\ UNCHANGED <<control, m_control, transaction, registers, cache>>
    OBVIOUS
<1>2. pin[p].device \in Devices /\ pin[p].bit \in Bits
    BY DEF IInv, TypeOK, NoPin
<1>3. DOMAIN changes = 1..Len(changes) /\ Len(changes) \in Nat \ {0}
    BY EmptySeq, LenProperties
<1>4. \A k \in 1..Len(changes) : changes[k] \in Change
    BY ElementOfSeq
<1>5. \A c \in Change : /\ c[1] \in Register \cup {"gpio"}
                        /\ c[2] \in {"set", "clear", "toggle", "read"}
                        /\ <<c[1], c[2]>> = c
    BY DEF Change
<1>6. todo' \in [1..Len(changes) -> Call]
    BY <1>2, <1>3, <1>4, <1>5 DEF Call
<1>7. todo' \in Seq(Call) /\ todo' # <<>>
    BY <1>3, <1>6
<1>8. wants' \in [Devices -> [Bits -> Lines]]
    BY <1>2 DEF IInv, TypeOK
<1>9. TypeOK'
    BY <1>1, <1>7, <1>8 DEF IInv, TypeOK
<1> QED
    BY <1>1, <1>7, <1>9 DEF IInv, CallInv, ControlInv, CacheInv, InCall, InTransaction

\* Every operation of a pin consists of well-formed driver calls.
LEMMA Changes ==
    /\ \A on \in BOOLEAN : SetOrClear(on) \in {"set", "clear"}
    /\ \A r \in Register, c \in {"set", "clear", "toggle"} : <<<<r, c>>>> \in Seq(Change) \ {<<>>}
    /\ \A r, s \in Register, c, d \in {"set", "clear", "toggle"} :
          <<<<r, c>>, <<s, d>>>> \in Seq(Change) \ {<<>>}
    /\ <<<<"gpio", "read">>>> \in Seq(Change) \ {<<>>}
    /\ \A p \in Pins : Disabled(p) \in Seq(Change) \ {<<>>}
BY DEF SetOrClear, Change, Disabled, Register

LEMMA PinStep == ASSUME IInv, PinNext PROVE IInv'
<1>1. pin \in [Pins -> PinType]
    BY PinTypes
<1>2. \A p \in Pins : [pin EXCEPT ![p] = NoPin] \in [Pins -> PinType]
    BY PinTypes
<1>3. \A p \in Pins : pin[p].device # none =>
          /\ [pin EXCEPT ![p].initialized = TRUE] \in [Pins -> PinType]
          /\ wants[pin[p].device][pin[p].bit] \in Lines
    BY PinTypes
<1>4. ASSUME NEW p \in Pins, NEW d \in Devices, NEW b \in Bits, Construct(p, d, b) PROVE IInv'
  <2>1. call' = call
      BY <1>4 DEF Construct, call
  <2>2. pin' \in [Pins -> PinType]
      BY <1>1, <1>4 DEF Construct, PinType
  <2> QED
      BY <1>4, <2>1, <2>2 DEF Construct, PinType, IInv, TypeOK, CallInv, ControlInv, CacheInv, InCall,
          InTransaction
<1>5. ASSUME NEW p \in Pins, Read(p) PROVE IInv'
  <2>1. wants[pin[p].device][pin[p].bit] \in Lines
      BY <1>3, <1>5 DEF Read
  <2> QED
      BY <1>1, <1>5, <2>1, BeginStep, Changes DEF Read
<1>6. ASSUME NEW p \in Pins, Destroy(p) PROVE IInv'
    BY <1>2, <1>6, BeginStep, Changes DEF Destroy, Lines
<1>7. ASSUME NEW p \in Pins, NEW q \in Pins, Move(p, q) PROVE IInv'
  <2>1. pin' \in [Pins -> PinType]
      BY <1>1, <1>7 DEF Move, PinType
  <2>2. CASE pin[p].device = none
    <3>1. call' = call
        BY <1>7, <2>2 DEF Move, call
    <3> QED
        BY <1>7, <2>1, <2>2, <3>1 DEF Move, PinType, IInv, TypeOK, CallInv, ControlInv, CacheInv, InCall,
            InTransaction
  <2>3. CASE pin[p].device # none
      BY <1>7, <2>1, <2>3, BeginStep, Changes DEF Move, Lines
  <2> QED
      BY <2>2, <2>3
<1>8. ASSUME NEW p \in InputPins, NEW on \in BOOLEAN, InitializeInput(p, on) \/ SetPullUp(p, on)
      PROVE  IInv'
  <2>1. p \in Pins
      BY DEF Pins
  <2>2. CASE InitializeInput(p, on)
    <3>1. pin' \in [Pins -> PinType]
        BY <1>3, <2>1, <2>2 DEF InitializeInput, Begin
    <3> QED
        BY <2>1, <2>2, <3>1, BeginStep, Changes DEF InitializeInput, Register, Lines
  <2>3. CASE SetPullUp(p, on)
      BY <1>1, <2>1, <2>3, BeginStep, Changes DEF SetPullUp, Register, Lines
  <2> QED
      BY <1>8, <2>2, <2>3
<1>9. ASSUME NEW p \in OpenDrainPins, NEW on \in BOOLEAN,
             InitializeOpenDrain(p, on) \/ TransitionOpenDrain(p, on)
      PROVE  IInv'
  <2>1. p \in Pins
      BY DEF Pins
  <2>2. CASE InitializeOpenDrain(p, on)
    <3>1. pin' \in [Pins -> PinType]
        BY <1>3, <2>1, <2>2 DEF InitializeOpenDrain, Begin
    <3> QED
        BY <2>1, <2>2, <3>1, BeginStep, Changes DEF InitializeOpenDrain, Register, Lines
  <2>3. CASE TransitionOpenDrain(p, on)
      BY <1>1, <2>1, <2>3, BeginStep, Changes DEF TransitionOpenDrain, Register, Lines
  <2> QED
      BY <1>9, <2>2, <2>3
<1>10. ASSUME NEW p \in PushPullPins, NEW on \in BOOLEAN,
              InitializePushPull(p, on) \/ TransitionPushPull(p, on)
       PROVE  IInv'
  <2>1. p \in Pins
      BY DEF Pins
  <2>2. CASE InitializePushPull(p, on)
    <3>1. pin' \in [Pins -> PinType]
        BY <1>3, <2>1, <2>2 DEF InitializePushPull, Begin
    <3> QED
        BY <2>1, <2>2, <3>1, BeginStep, Changes DEF InitializePushPull, Register, Lines
  <2>3. CASE TransitionPushPull(p, on)
      BY <1>1, <2>1, <2>3, BeginStep, Changes DEF TransitionPushPull, Register, Lines
  <2> QED
      BY <1>10, <2>2, <2>3
<1>11. ASSUME NEW p \in OpenDrainPins, ToggleOpenDrain(p) PROVE IInv'
    BY <1>1, <1>11, BeginStep, Changes DEF ToggleOpenDrain, Pins, Register, Lines
<1>12. ASSUME NEW p \in PushPullPins, TogglePushPull(p) PROVE IInv'
    BY <1>1, <1>12, BeginStep, Changes DEF TogglePushPull, Pins, Register, Lines
<1> QED
    BY <1>4, <1>5, <1>6, <1>7, <1>8, <1>9, <1>10, <1>11, <1>12 DEF PinNext

LEMMA ResetExpanderStep == ASSUME IInv, NEW d \in Devices, ResetExpander(d) PROVE IInv'
<1> USE DEF ResetExpander
<1>1. pc = "idle" /\ pc' = "idle" /\ registers = cache /\ registers' = cache'
    BY DEF IInv, CacheInv
<1>2. RESET \in Values /\ [b \in Bits |-> "released"] \in [Bits -> Lines]
    BY DEF RESET, Values, Lines
<1>3. /\ registers' \in [Devices -> Values] /\ cache' \in [Devices -> Values]
      /\ wants' \in [Devices -> [Bits -> Lines]]
    BY <1>2 DEF IInv, TypeOK
<1>4. pin' \in [Pins -> [device : Devices, bit : Bits, initialized : BOOLEAN] \cup {NoPin}]
  <2>1. \A p \in Pins : pin[p].device = d =>
            pin[p] \in [device : Devices, bit : Bits, initialized : BOOLEAN]
      BY DEF IInv, TypeOK, NoPin
  <2>2. \A p \in Pins : pin[p].device = d =>
            [pin[p] EXCEPT !.initialized = FALSE]
                \in [device : Devices, bit : Bits, initialized : BOOLEAN]
      BY <2>1
  <2> QED
      BY <2>2 DEF IInv, TypeOK
<1>5. TypeOK'
    BY <1>1, <1>3, <1>4 DEF IInv, TypeOK
<1> QED
    BY <1>1, <1>5 DEF IInv, CallInv, ControlInv, CacheInv, InCall, InTransaction

-----------------------------------------------------------------------------
LEMMA NextInv == IInv /\ [Next]_vars => IInv'
<1> SUFFICES ASSUME IInv, [Next]_vars PROVE IInv'
    OBVIOUS
<1>1. CASE UNCHANGED vars
    BY <1>1 DEF vars, IInv, TypeOK, CallInv, ControlInv, CacheInv, InCall, InTransaction, call, Cached
<1>2. CASE PinNext
    BY <1>2, PinStep
<1>3. CASE BeginCall \/ Transfer \/ Finish
    BY <1>3, BeginCallStep, TransferStep, FinishStep
<1>4. CASE /\ Address \/ NotAcknowledged \/ SwitchChannels \/ ResetMultiplexer
           /\ UNCHANGED <<expanders, pin, todo, wants>>
    BY <1>4, BusStep
<1>5. CASE \E d \in Devices : ResetExpander(d)
    BY <1>5, ResetExpanderStep
<1> QED
    BY <1>1, <1>2, <1>3, <1>4, <1>5 DEF Next

\* The inductive invariant holds.
THEOREM Invariance == Spec => []IInv
BY InitInv, NextInv, PTL DEF Spec

\* Every variable keeps its type.
THEOREM TypeCorrect == Spec => []TypeOK
<1>1. IInv => TypeOK
    BY DEF IInv
<1> QED
    BY <1>1, Invariance, PTL

\* Every transaction of I2C::Device reaches the one device it is meant for,
\* however many devices share the address behind the multiplexer.
THEOREM TargetAnswers == Spec => []OnlyTargetAnswers
<1>1. ASSUME IInv PROVE OnlyTargetAnswers
  <2>1. SUFFICES ASSUME InTransaction PROVE Reachable(transaction.to) = {transaction.to}
      BY DEF OnlyTargetAnswers, InTransaction
  <2>2. call.device \in Devices
      BY <1>1, <2>1, CallType DEF InCall, InTransaction, Call
  <2> QED
      BY <1>1, <2>1, <2>2 DEF IInv, CallInv, Reachable
<1> QED
    BY <1>1, Invariance, PTL

\* The registers that pins read, modify and write are those of the chips.
THEOREM CachesAreRight == Spec => []CachesMatch
<1>1. IInv => CachesMatch
    BY DEF IInv, CacheInv, CachesMatch
<1> QED
    BY <1>1, Invariance, PTL

-----------------------------------------------------------------------------
(***************************************************************************)
(* The lines.  What the calls that are left will make of a line is         *)
(* computed from the registers; an operation is right when that is what    *)
(* the program asked for, and a call is a step on the direct way to it.    *)
(***************************************************************************)

\* The calls that have not reached the registers yet.
Pending == IF pc = "finish" THEN Tail(todo) ELSE todo

Concerns(c, d, b) == c.device = d /\ c.bit = b

\* What a change of a register makes of a bit of a register.
Did(register, change, reg, was) ==
    IF register = reg THEN change = "set" \/ (change = "toggle" /\ ~was) ELSE was

\* A bit of a register before the pending calls, after the first, and after
\* the last of them.
Before(d, b, reg) == b \in registers[d][reg]

After1(d, b, reg) ==
    IF Len(Pending) >= 1 /\ Concerns(Pending[1], d, b)
    THEN Did(Pending[1].register, Pending[1].change, reg, Before(d, b, reg))
    ELSE Before(d, b, reg)

After2(d, b, reg) ==
    IF Len(Pending) >= 2 /\ Concerns(Pending[2], d, b)
    THEN Did(Pending[2].register, Pending[2].change, reg, After1(d, b, reg))
    ELSE After1(d, b, reg)

LineOf(iodir, gppu, olat) ==
    IF ~iodir THEN (IF olat THEN "high" ELSE "low")
    ELSE IF gppu THEN "pulled up" ELSE "released"

Line1(d, b) == LineOf(After1(d, b, "iodir"), After1(d, b, "gppu"), After1(d, b, "olat"))
Line2(d, b) == LineOf(After2(d, b, "iodir"), After2(d, b, "gppu"), After2(d, b, "olat"))

\* An operation is one call or two, and there is none between operations.
PendingInv ==
    /\ pc = "idle" => todo = <<>>
    /\ Len(todo) =< 2

\* What is written to a device is computed when the transaction begins, and
\* still what the cache says when it takes place.
DataInv ==
    InTransaction /\ transaction.to # mux /\ call.change # "read" => transaction.data = Written

\* Every call leaves a line alone or makes it what it was asked to be.
DirectInv == \A d \in Devices, b \in Bits :
    /\ Line1(d, b) \in {Line(d, b), wants[d][b]}
    /\ Line2(d, b) \in {Line1(d, b), wants[d][b]}

Has(p, d, b) == pin[p].device = d /\ pin[p].bit = b

OwnersInv == \A d \in Devices, b \in Bits, p, q \in Pins : Has(p, d, b) /\ Has(q, d, b) => p = q

\* How the last operation leaves the line of a pin of each class.  The bits
\* that a class does not write are as the class expects them.
Free(d, b) == After2(d, b, "iodir") /\ ~After2(d, b, "gppu") /\ wants[d][b] = "released"

AsInput(d, b) ==
    /\ After2(d, b, "iodir")
    /\ wants[d][b] = IF After2(d, b, "gppu") THEN "pulled up" ELSE "released"

AsOpenDrain(d, b) ==
    /\ ~After2(d, b, "gppu") /\ ~After2(d, b, "olat")
    /\ wants[d][b] = IF After2(d, b, "iodir") THEN "released" ELSE "low"

AsPushPull(d, b) ==
    /\ ~After2(d, b, "gppu") /\ ~After2(d, b, "iodir")
    /\ wants[d][b] = IF After2(d, b, "olat") THEN "high" ELSE "low"

Suits(p, initialized, d, b) ==
    /\ initialized = FALSE => Free(d, b)
    /\ initialized = TRUE /\ p \in InputPins => AsInput(d, b)
    /\ initialized = TRUE /\ p \in OpenDrainPins => AsOpenDrain(d, b)
    /\ initialized = TRUE /\ p \in PushPullPins => AsPushPull(d, b)

SettledInv == \A d \in Devices, b \in Bits :
    /\ (\A p \in Pins : ~Has(p, d, b)) => Free(d, b)
    /\ \A p \in Pins : Has(p, d, b) => Suits(p, pin[p].initialized, d, b)

LinesInv == PendingInv /\ DataInv /\ OwnersInv /\ DirectInv /\ SettledInv

-----------------------------------------------------------------------------
LEMMA InitLines == Init => LinesInv
<1> SUFFICES ASSUME Init PROVE LinesInv
    OBVIOUS
<1>1. pc = "idle" /\ todo = <<>> /\ Pending = <<>> /\ Len(todo) = 0 /\ Len(Pending) = 0
    BY DEF Init, BusInit, Pending
<1>2. ASSUME NEW d \in Devices, NEW b \in Bits
      PROVE  /\ Before(d, b, "iodir") /\ ~Before(d, b, "gppu") /\ ~Before(d, b, "olat")
             /\ wants[d][b] = "released"
    BY DEF Init, RESET, Before
<1>3. ASSUME NEW d \in Devices, NEW b \in Bits
      PROVE  /\ After1(d, b, "iodir") /\ ~After1(d, b, "gppu") /\ ~After1(d, b, "olat")
             /\ After2(d, b, "iodir") /\ ~After2(d, b, "gppu") /\ ~After2(d, b, "olat")
    BY <1>1, <1>2 DEF After1, After2
<1>4. DirectInv
  <2>1. ASSUME NEW d \in Devices, NEW b \in Bits
        PROVE  Line(d, b) = "released" /\ Line1(d, b) = "released" /\ Line2(d, b) = "released"
      BY <1>3 DEF Init, RESET, Line, Line1, Line2, LineOf
  <2> QED
      BY <2>1 DEF DirectInv
<1>5. \A p \in Pins, d \in Devices, b \in Bits : ~Has(p, d, b)
    BY DEF Init, NoPin, Has
<1>6. OwnersInv /\ SettledInv
    BY <1>2, <1>3, <1>5 DEF OwnersInv, SettledInv, Free
<1> QED
    BY <1>1, <1>4, <1>6 DEF LinesInv, PendingInv, DataInv, InTransaction

\* While neither the registers nor the pending calls change, no line does.
LEMMA SameLines ==
    ASSUME Pending' = Pending, registers' = registers, NEW d, NEW b
    PROVE  /\ \A reg : /\ Before(d, b, reg)' <=> Before(d, b, reg)
                       /\ After1(d, b, reg)' <=> After1(d, b, reg)
                       /\ After2(d, b, reg)' <=> After2(d, b, reg)
           /\ Line(d, b)' = Line(d, b)
           /\ Line1(d, b)' = Line1(d, b)
           /\ Line2(d, b)' = Line2(d, b)
BY DEF Before, After1, After2, Line, Line1, Line2

\* What a pin needs of its line depends on the line alone.
LEMMA SuitsSame ==
    ASSUME NEW d, NEW b, NEW p, NEW initialized,
           \A reg \in Register : After2(d, b, reg)' <=> After2(d, b, reg),
           wants'[d][b] = wants[d][b]
    PROVE  /\ Free(d, b)' <=> Free(d, b)
           /\ Suits(p, initialized, d, b)' <=> Suits(p, initialized, d, b)
<1>1. /\ After2(d, b, "iodir")' <=> After2(d, b, "iodir")
      /\ After2(d, b, "gppu")' <=> After2(d, b, "gppu")
      /\ After2(d, b, "olat")' <=> After2(d, b, "olat")
    BY DEF Register
<1>2. Free(d, b)' <=> Free(d, b)
    BY <1>1 DEF Free
<1>3. AsInput(d, b)' <=> AsInput(d, b)
    BY <1>1 DEF AsInput
<1>4. AsOpenDrain(d, b)' <=> AsOpenDrain(d, b)
    BY <1>1 DEF AsOpenDrain
<1>5. AsPushPull(d, b)' <=> AsPushPull(d, b)
    BY <1>1 DEF AsPushPull
<1> QED
    BY <1>2, <1>3, <1>4, <1>5 DEF Suits

\* A step that leaves the lines, the pins and what is asked of them alone.
LEMMA QuietLines ==
    ASSUME LinesInv, Pending' = Pending, registers' = registers, UNCHANGED <<pin, wants>>
    PROVE  OwnersInv' /\ DirectInv' /\ SettledInv'
<1>1. OwnersInv'
    BY DEF LinesInv, OwnersInv, Has
<1>2. DirectInv'
    BY SameLines DEF LinesInv, DirectInv
<1>3. SettledInv'
  <2>1. ASSUME NEW d \in Devices, NEW b \in Bits, NEW p, NEW initialized
        PROVE  /\ Free(d, b)' <=> Free(d, b)
               /\ Suits(p, initialized, d, b)' <=> Suits(p, initialized, d, b)
      BY SameLines, SuitsSame
  <2> QED
      BY <2>1 DEF LinesInv, SettledInv, Has
<1> QED
    BY <1>1, <1>2, <1>3

-----------------------------------------------------------------------------
(* Driver calls.                                                           *)

LEMMA BeginCallLines == ASSUME IInv, LinesInv, BeginCall PROVE LinesInv'
<1> DEFINE data == IF call.change = "read" THEN {} ELSE Written
<1>1. /\ pc \in {"align", "aligned"} /\ pc' = "address"
      /\ \/ transaction' = [to |-> mux, data |-> Aligned(call.device)]
         \/ transaction' = [to |-> call.device, data |-> data]
      /\ UNCHANGED <<registers, cache, pin, todo, wants>>
    BY DEF BeginCall, Align, Transact
<1>2. call' = call /\ Written' = Written /\ Pending' = Pending
    BY <1>1 DEF call, Written, Pending
<1>3. OwnersInv' /\ DirectInv' /\ SettledInv'
    BY <1>1, <1>2, QuietLines
<1>4. DataInv'
    BY <1>1, <1>2 DEF DataInv
<1>5. PendingInv'
    BY <1>1 DEF LinesInv, PendingInv
<1> QED
    BY <1>3, <1>4, <1>5 DEF LinesInv

LEMMA BusLines ==
    ASSUME IInv, LinesInv, Address \/ NotAcknowledged \/ SwitchChannels \/ ResetMultiplexer,
           UNCHANGED <<expanders, pin, todo, wants>>
    PROVE  LinesInv'
<1>1. /\ UNCHANGED <<registers, cache, pin, todo, wants, transaction>>
      /\ pc = "finish" <=> pc' = "finish"
      /\ pc = "idle" <=> pc' = "idle"
      /\ InTransaction' => InTransaction
    BY DEF Address, NotAcknowledged, SwitchChannels, ResetMultiplexer, InTransaction
<1>2. call' = call /\ Written' = Written /\ Pending' = Pending
    BY <1>1 DEF call, Written, Pending
<1>3. OwnersInv' /\ DirectInv' /\ SettledInv'
    BY <1>1, <1>2, QuietLines
<1>4. DataInv'
    BY <1>1, <1>2 DEF LinesInv, DataInv
<1>5. PendingInv'
    BY <1>1 DEF LinesInv, PendingInv
<1> QED
    BY <1>3, <1>4, <1>5 DEF LinesInv

LEMMA FinishLines == ASSUME IInv, LinesInv, Finish PROVE LinesInv'
<1>1. /\ pc = "finish" /\ pc' = (IF Len(todo) = 1 THEN "idle" ELSE "align") /\ todo' = Tail(todo)
      /\ UNCHANGED <<registers, pin, wants>>
    BY DEF Finish
<1>2. Pending' = Pending
    BY <1>1 DEF Pending
<1>3. OwnersInv' /\ DirectInv' /\ SettledInv'
    BY <1>1, <1>2, QuietLines
<1>4. DataInv'
    BY <1>1 DEF DataInv, InTransaction
<1>5. todo' \in Seq(Call) /\ Len(todo') = Len(todo) - 1 /\ Len(todo) \in Nat
    BY <1>1, CallType, HeadTailProperties, LenProperties DEF InCall
<1>6. PendingInv'
  <2>1. CASE Len(todo) = 1
    <3>1. Len(todo') = 0
        BY <1>5, <2>1
    <3>2. todo' = <<>>
        BY <1>5, <3>1, EmptySeq
    <3> QED
        BY <3>1, <3>2 DEF PendingInv
  <2>2. CASE Len(todo) # 1
    <3>1. Len(todo') =< 2
        BY <1>5 DEF LinesInv, PendingInv
    <3> QED
        BY <1>1, <2>2, <3>1 DEF PendingInv
  <2> QED
      BY <2>1, <2>2
<1> QED
    BY <1>3, <1>4, <1>6 DEF LinesInv

\* A transfer makes the registers what the first pending call makes of them.
LEMMA TransferBits ==
    ASSUME IInv, LinesInv, Transfer, NEW d \in Devices, NEW b \in Bits, NEW reg \in Register
    PROVE  /\ Before(d, b, reg)' <=> After1(d, b, reg)
           /\ After1(d, b, reg)' <=> After2(d, b, reg)
           /\ After2(d, b, reg)' <=> After2(d, b, reg)
<1>1. /\ pc = "data" /\ pc' = "finish" /\ transaction.to # mux /\ InTransaction
      /\ UNCHANGED <<control, m_control, transaction, cache, pin, todo, wants>>
    BY DEF Transfer, InTransaction
<1>2. call \in Call /\ todo \in Seq(Call) /\ todo # <<>>
    BY <1>1, CallType DEF InCall
<1>3. transaction.to = call.device /\ Reachable(transaction.to) = {call.device}
    BY <1>1, <1>2 DEF IInv, CallInv, InTransaction, Reachable, Call
<1>4. registers = cache /\ registers \in [Devices -> Values]
    BY <1>1 DEF IInv, CacheInv, TypeOK
<1>5. Pending = todo /\ Pending' = Tail(todo)
    BY <1>1 DEF Pending
<1>6. Len(todo) \in {1, 2} /\ call = todo[1]
  <2>1. Len(todo) \in Nat \ {0}
      BY <1>2, EmptySeq, LenProperties
  <2>2. Len(todo) =< 2
      BY DEF LinesInv, PendingInv
  <2>3. call = todo[1]
      BY <1>2, HeadTailProperties DEF call
  <2>4. \A n \in Nat \ {0} : n =< 2 => n \in {1, 2}
      OBVIOUS
  <2>5. Len(todo) \in {1, 2}
      BY <2>1, <2>2, <2>4
  <2> QED
      BY <2>3, <2>5
<1>7. /\ Len(Pending') = Len(todo) - 1
      /\ Len(todo) = 2 => Pending'[1] = todo[2]
  <2>1. Len(Tail(todo)) = Len(todo) - 1
      BY <1>2, HeadTailProperties
  <2>2. Len(todo) = 2 => Tail(todo)[1] = todo[2]
    <3>1. \A i \in 1..Len(Tail(todo)) : Tail(todo)[i] = todo[i + 1]
        BY <1>2, HeadTailProperties
    <3> QED
        BY <2>1, <3>1
  <2> QED
      BY <1>5, <2>1, <2>2
<1>8. After1(d, b, reg) <=>
          IF Concerns(call, d, b) THEN Did(call.register, call.change, reg, Before(d, b, reg))
          ELSE Before(d, b, reg)
    BY <1>5, <1>6 DEF After1
<1>9. Before(d, b, reg)' <=> After1(d, b, reg)
  <2>1. CASE call.change = "read"
    <3>1. registers' = registers /\ call.register \notin Register
        BY <1>2, <2>1 DEF Transfer, Call, Change, Register
    <3>2. Before(d, b, reg)' <=> Before(d, b, reg)
        BY <3>1 DEF Before
    <3>3. After1(d, b, reg) <=> Before(d, b, reg)
        BY <1>8, <3>1 DEF Did
    <3> QED
        BY <3>2, <3>3
  <2>2. CASE call.change # "read"
    <3>1. /\ call.register \in Register /\ call.change \in {"set", "clear", "toggle"}
          /\ call.device \in Devices
        BY <1>2, <2>2 DEF Call, Change
    <3>2. transaction.data = Written
        BY <1>1, <2>2 DEF LinesInv, DataInv
    <3>3. registers'[d] = IF d = call.device THEN [registers[d] EXCEPT ![call.register] = Written]
                          ELSE registers[d]
        BY <1>3, <2>2, <3>2 DEF Transfer
    <3>4. registers'[d][reg] = IF d = call.device /\ reg = call.register THEN Written
                               ELSE registers[d][reg]
        BY <1>4, <3>3 DEF Values, Register
    <3>5. b \in Written <=>
              IF b = call.bit
              THEN \/ call.change = "set"
                   \/ call.change = "toggle" /\ b \notin registers[call.device][call.register]
              ELSE b \in registers[call.device][call.register]
        BY <1>4, <3>1 DEF Written
    <3> QED
        BY <1>8, <3>4, <3>5 DEF Before, Did, Concerns
  <2> QED
      BY <2>1, <2>2
<1>10. After1(d, b, reg)' <=> After2(d, b, reg)
  <2>1. CASE Len(todo) = 1
    <3>1. Len(Pending') = 0 /\ Len(Pending) = 1
        BY <1>5, <1>7, <2>1
    <3>2. After1(d, b, reg)' <=> Before(d, b, reg)'
        BY <3>1 DEF After1
    <3>3. After2(d, b, reg) <=> After1(d, b, reg)
        BY <3>1 DEF After2
    <3> QED
        BY <1>9, <3>2, <3>3
  <2>2. CASE Len(todo) = 2
    <3>1. Len(Pending') = 1 /\ Pending'[1] = Pending[2] /\ Len(Pending) = 2
        BY <1>5, <1>7, <2>2
    <3> QED
        BY <1>9, <3>1 DEF After1, After2, Did
  <2> QED
      BY <1>6, <2>1, <2>2
<1>11. After2(d, b, reg)' <=> After1(d, b, reg)'
  <2>1. ~(Len(Pending') >= 2)
      BY <1>6, <1>7
  <2> QED
      BY <2>1 DEF After2
<1> QED
    BY <1>9, <1>10, <1>11

LEMMA LineBits ==
    ASSUME NEW d, NEW b
    PROVE  Line(d, b) = LineOf(Before(d, b, "iodir"), Before(d, b, "gppu"), Before(d, b, "olat"))
BY DEF Line, LineOf, Before

LEMMA TransferLine ==
    ASSUME IInv, LinesInv, Transfer, NEW d \in Devices, NEW b \in Bits
    PROVE  Line(d, b)' = Line1(d, b) /\ Line1(d, b)' = Line2(d, b) /\ Line2(d, b)' = Line2(d, b)
<1>1. {"iodir", "gppu", "olat"} \subseteq Register
    BY DEF Register
<1>2. \A reg \in Register : /\ Before(d, b, reg)' <=> After1(d, b, reg)
                            /\ After1(d, b, reg)' <=> After2(d, b, reg)
                            /\ After2(d, b, reg)' <=> After2(d, b, reg)
    BY TransferBits
<1>3. Line(d, b)' = LineOf(Before(d, b, "iodir"), Before(d, b, "gppu"), Before(d, b, "olat"))'
    BY DEF Line, LineOf, Before
<1>4. Line(d, b)' = Line1(d, b)
    BY <1>1, <1>2, <1>3 DEF Line1, LineOf
<1>5. Line1(d, b)' = Line2(d, b) /\ Line2(d, b)' = Line2(d, b)
    BY <1>1, <1>2 DEF Line1, Line2, LineOf
<1> QED
    BY <1>4, <1>5

LEMMA TransferLines == ASSUME IInv, LinesInv, Transfer PROVE LinesInv'
<1>1. /\ pc = "data" /\ pc' = "finish" /\ InTransaction
      /\ UNCHANGED <<transaction, cache, pin, todo, wants>>
    BY DEF Transfer, InTransaction
<1>2. PendingInv' /\ OwnersInv'
    BY <1>1 DEF LinesInv, PendingInv, OwnersInv, Has
<1>3. DataInv'
  <2>1. call' = call /\ Written' = Written
      BY <1>1 DEF call, Written
  <2> QED
      BY <1>1, <2>1 DEF LinesInv, DataInv
<1>4. DirectInv'
    BY <1>1, TransferLine DEF LinesInv, DirectInv
<1>5. SettledInv'
  <2>1. ASSUME NEW d \in Devices, NEW b \in Bits, NEW p, NEW initialized
        PROVE  /\ Free(d, b)' <=> Free(d, b)
               /\ Suits(p, initialized, d, b)' <=> Suits(p, initialized, d, b)
      BY <1>1, TransferBits, SuitsSame
  <2> QED
      BY <1>1, <2>1 DEF LinesInv, SettledInv, Has
<1> QED
    BY <1>2, <1>3, <1>4, <1>5 DEF LinesInv

-----------------------------------------------------------------------------
(* Operations of the pins.                                                 *)

\* What an operation will make of the bits of its own line, and of others.
LEMMA BeginBits ==
    ASSUME IInv, LinesInv, NEW p \in Pins, NEW changes \in Seq(Change), NEW line,
           Len(changes) \in {1, 2}, Begin(p, changes, line)
    PROVE  /\ pin[p].device \in Devices /\ pin[p].bit \in Bits
           /\ \A d, b : ~Has(p, d, b) => \A reg :
                 /\ After1(d, b, reg)' <=> Before(d, b, reg)
                 /\ After2(d, b, reg)' <=> Before(d, b, reg)
           /\ \A d, b : Has(p, d, b) => \A reg :
                 /\ After1(d, b, reg)' <=> Did(changes[1][1], changes[1][2], reg, Before(d, b, reg))
                 /\ Len(changes) = 1 => (After2(d, b, reg)' <=> After1(d, b, reg)')
                 /\ Len(changes) = 2 =>
                       (After2(d, b, reg)' <=>
                            Did(changes[2][1], changes[2][2], reg, After1(d, b, reg)'))
           /\ \A d, b, reg : Before(d, b, reg)' <=> Before(d, b, reg)
           /\ \A d, b, reg : After2(d, b, reg) <=> Before(d, b, reg)
           /\ \A d \in Devices, b \in Bits :
                 wants'[d][b] = IF Has(p, d, b) THEN line ELSE wants[d][b]
           /\ PendingInv' /\ DataInv'
<1>1. /\ pc = "idle" /\ pc' = "align" /\ registers' = registers
      /\ todo' = [k \in DOMAIN changes |->
                    [device |-> pin[p].device, bit |-> pin[p].bit,
                     register |-> changes[k][1], change |-> changes[k][2]]]
    BY DEF Begin
<1>2. pin[p].device \in Devices /\ pin[p].bit \in Bits
    BY DEF Begin, IInv, TypeOK, NoPin
<1>3. todo = <<>> /\ Pending = <<>> /\ Len(Pending) = 0
    BY <1>1 DEF LinesInv, PendingInv, Pending
<1>4. Pending' = todo'
    BY <1>1 DEF Pending
<1>5. DOMAIN changes = 1..Len(changes)
    BY LenProperties
<1>6. Len(todo') = Len(changes)
    BY <1>1, <1>5
<1>7. /\ todo'[1] = [device |-> pin[p].device, bit |-> pin[p].bit,
                     register |-> changes[1][1], change |-> changes[1][2]]
      /\ Len(changes) = 2 =>
            todo'[2] = [device |-> pin[p].device, bit |-> pin[p].bit,
                        register |-> changes[2][1], change |-> changes[2][2]]
    BY <1>1, <1>5
<1>8. \A d, b, reg : Before(d, b, reg)' <=> Before(d, b, reg)
    BY <1>1 DEF Before
<1>9. \A d, b, reg : After2(d, b, reg) <=> Before(d, b, reg)
    BY <1>3 DEF After1, After2
<1>10. ASSUME NEW d, NEW b, NEW reg
       PROVE  After1(d, b, reg)' <=>
                  IF Has(p, d, b) THEN Did(changes[1][1], changes[1][2], reg, Before(d, b, reg))
                  ELSE Before(d, b, reg)
  <2>1. Len(Pending') >= 1 /\ (Concerns(Pending'[1], d, b) <=> Has(p, d, b))
      BY <1>4, <1>6, <1>7 DEF Concerns, Has
  <2>2. Pending'[1].register = changes[1][1] /\ Pending'[1].change = changes[1][2]
      BY <1>4, <1>7
  <2> QED
      BY <1>8, <2>1, <2>2 DEF After1, Did
<1>11. ASSUME NEW d, NEW b, NEW reg
       PROVE  After2(d, b, reg)' <=>
                  IF Has(p, d, b) /\ Len(changes) = 2
                  THEN Did(changes[2][1], changes[2][2], reg, After1(d, b, reg)')
                  ELSE After1(d, b, reg)'
  <2>1. Len(Pending') >= 2 <=> Len(changes) = 2
      BY <1>4, <1>6
  <2>2. Len(changes) = 2 =>
            /\ Concerns(Pending'[2], d, b) <=> Has(p, d, b)
            /\ Pending'[2].register = changes[2][1] /\ Pending'[2].change = changes[2][2]
      BY <1>4, <1>7 DEF Concerns, Has
  <2> QED
      BY <2>1, <2>2 DEF After2, Did
<1>12. \A d \in Devices, b \in Bits : wants'[d][b] = IF Has(p, d, b) THEN line ELSE wants[d][b]
    BY <1>2 DEF Begin, IInv, TypeOK, Has
<1>13. PendingInv' /\ DataInv'
  <2>1. \A n \in {1, 2} : n =< 2
      OBVIOUS
  <2>2. Len(todo') =< 2
      BY <1>6, <2>1
  <2>3. PendingInv'
      BY <1>1, <2>2 DEF PendingInv
  <2>4. DataInv'
      BY <1>1 DEF DataInv, InTransaction
  <2> QED
      BY <2>3, <2>4
<1>14. \A d, b : ~Has(p, d, b) => \A reg :
          /\ After1(d, b, reg)' <=> Before(d, b, reg)
          /\ After2(d, b, reg)' <=> Before(d, b, reg)
    BY <1>10, <1>11
<1>15. \A d, b : Has(p, d, b) => \A reg :
          /\ After1(d, b, reg)' <=> Did(changes[1][1], changes[1][2], reg, Before(d, b, reg))
          /\ Len(changes) = 1 => (After2(d, b, reg)' <=> After1(d, b, reg)')
          /\ Len(changes) = 2 =>
                (After2(d, b, reg)' <=>
                     Did(changes[2][1], changes[2][2], reg, After1(d, b, reg)'))
    BY <1>10, <1>11
<1> QED
    BY <1>2, <1>8, <1>9, <1>12, <1>13, <1>14, <1>15

\* It is enough to look at the line of the operation and the pins that it
\* changes.
LEMMA BeginLines ==
    ASSUME IInv, LinesInv, NEW p \in Pins, NEW changes \in Seq(Change), NEW line,
           Len(changes) \in {1, 2}, Begin(p, changes, line),
           NEW d, NEW b, d = pin[p].device, b = pin[p].bit,
           Line1(d, b)' \in {Line(d, b), line}, Line2(d, b)' \in {Line1(d, b)', line},
           OwnersInv',
           (\A q \in Pins : ~Has(q, d, b)') => Free(d, b)',
           \A q \in Pins : Has(q, d, b)' => Suits(q, pin[q].initialized, d, b)',
           \A e \in Devices, c \in Bits : ~Has(p, e, c) =>
              /\ (\A q \in Pins : ~Has(q, e, c)') => \A q \in Pins : ~Has(q, e, c)
              /\ \A q \in Pins : Has(q, e, c)' => \E r \in Pins :
                    /\ Has(r, e, c) /\ pin'[q].initialized = pin[r].initialized
                    /\ q = r \/ SameClass(q, r)
    PROVE  LinesInv'
<1>1. /\ d \in Devices /\ b \in Bits
      /\ \A e, c : ~Has(p, e, c) => \A reg :
            /\ After1(e, c, reg)' <=> Before(e, c, reg)
            /\ After2(e, c, reg)' <=> Before(e, c, reg)
      /\ \A e, c, reg : Before(e, c, reg)' <=> Before(e, c, reg)
      /\ \A e, c, reg : After2(e, c, reg) <=> Before(e, c, reg)
      /\ \A e \in Devices, c \in Bits : wants'[e][c] = IF Has(p, e, c) THEN line ELSE wants[e][c]
      /\ PendingInv' /\ DataInv'
    BY BeginBits
<1>2. Has(p, d, b) /\ \A e, c : Has(p, e, c) => e = d /\ c = b
    BY DEF Has
<1>3. ASSUME NEW e \in Devices, NEW c \in Bits
      PROVE  Line(e, c)' = Line(e, c)
    BY DEF Begin, Line
<1>4. ASSUME NEW e \in Devices, NEW c \in Bits, ~Has(p, e, c)
      PROVE  Line1(e, c)' = Line(e, c)' /\ Line2(e, c)' = Line(e, c)'
  <2>1. Line(e, c) = LineOf(Before(e, c, "iodir"), Before(e, c, "gppu"), Before(e, c, "olat"))
      BY LineBits
  <2>2. Line1(e, c)' = Line(e, c)
      BY <1>1, <1>4, <2>1 DEF Line1, LineOf
  <2>3. Line2(e, c)' = Line(e, c)
      BY <1>1, <1>4, <2>1 DEF Line2, LineOf
  <2> QED
      BY <1>3, <2>2, <2>3
<1>5. DirectInv'
  <2>1. ASSUME NEW e \in Devices, NEW c \in Bits
        PROVE  /\ Line1(e, c)' \in {Line(e, c)', wants'[e][c]}
               /\ Line2(e, c)' \in {Line1(e, c)', wants'[e][c]}
    <3>1. CASE Has(p, e, c)
      <4>1. e = d /\ c = b /\ wants'[e][c] = line
          BY <1>1, <1>2, <3>1
      <4> QED
          BY <1>3, <4>1
    <3>2. CASE ~Has(p, e, c)
        BY <1>4, <3>2
    <3> QED
        BY <3>1, <3>2
  <2> QED
      BY <2>1 DEF DirectInv
<1>6. SettledInv'
  <2>1. ASSUME NEW e \in Devices, NEW c \in Bits
        PROVE  /\ (\A q \in Pins : ~Has(q, e, c)') => Free(e, c)'
               /\ \A q \in Pins : Has(q, e, c)' => Suits(q, pin[q].initialized, e, c)'
    <3>1. CASE Has(p, e, c)
      <4>1. e = d /\ c = b
          BY <1>2, <3>1
      <4> QED
          BY <4>1
    <3>2. CASE ~Has(p, e, c)
      <4>1. wants'[e][c] = wants[e][c]
            /\ \A reg \in Register : After2(e, c, reg)' <=> After2(e, c, reg)
          BY <1>1, <3>2
      <4>2. \A q, initialized : /\ Free(e, c)' <=> Free(e, c)
                                /\ Suits(q, initialized, e, c)' <=> Suits(q, initialized, e, c)
          BY <4>1, SuitsSame
      <4>3. (\A q \in Pins : ~Has(q, e, c)') => Free(e, c)'
          BY <3>2, <4>2 DEF LinesInv, SettledInv
      <4>4. ASSUME NEW q \in Pins, Has(q, e, c)' PROVE Suits(q, pin[q].initialized, e, c)'
        <5>1. PICK r \in Pins : /\ Has(r, e, c) /\ pin'[q].initialized = pin[r].initialized
                                /\ q = r \/ SameClass(q, r)
            BY <3>2, <4>4
        <5>2. Suits(r, pin[r].initialized, e, c)
            BY <5>1 DEF LinesInv, SettledInv
        <5>3. (q \in InputPins => r \in InputPins) /\ (q \in OpenDrainPins => r \in OpenDrainPins)
              /\ (q \in PushPullPins => r \in PushPullPins)
            BY <5>1, ClassesAssumption DEF SameClass
        <5>4. PICK i : i = pin[r].initialized
            OBVIOUS
        <5>5. Suits(q, i, e, c)
            BY <5>2, <5>3, <5>4 DEF Suits
        <5>6. Suits(q, i, e, c)'
            BY <4>2, <5>5
        <5>7. pin'[q].initialized = i
            BY <5>1, <5>4
        <5> QED
            BY <5>6, <5>7 DEF Suits
      <4> QED
          BY <4>3, <4>4
    <3> QED
        BY <3>1, <3>2
  <2> QED
      BY <2>1 DEF SettledInv
<1> QED
    BY <1>1, <1>5, <1>6 DEF LinesInv

\* A pin that has a line is the only one, and its line suits it.
LEMMA OwnLine ==
    ASSUME IInv, LinesInv, NEW p \in Pins, pin[p].device # none
    PROVE  /\ pin[p].device \in Devices /\ pin[p].bit \in Bits
           /\ pin[p].initialized \in BOOLEAN
           /\ Has(p, pin[p].device, pin[p].bit)
           /\ \A q \in Pins : Has(q, pin[p].device, pin[p].bit) => q = p
           /\ Suits(p, pin[p].initialized, pin[p].device, pin[p].bit)
<1>1. /\ pin[p].device \in Devices /\ pin[p].bit \in Bits
      /\ pin[p].initialized \in BOOLEAN
    BY DEF IInv, TypeOK, NoPin
<1>2. Has(p, pin[p].device, pin[p].bit)
    BY DEF Has
<1> QED
    BY <1>1, <1>2 DEF LinesInv, OwnersInv, SettledInv

\* No pin gets or loses a line; at most this one is initialized.
KeepsLines(p) == pin' = pin \/ pin' = [pin EXCEPT ![p].initialized = TRUE]

\* An operation of a pin that keeps its line.
LEMMA KeepLine ==
    ASSUME IInv, LinesInv, NEW p \in Pins, NEW changes \in Seq(Change), NEW line,
           Len(changes) \in {1, 2}, Begin(p, changes, line),
           NEW d, NEW b, d = pin[p].device, b = pin[p].bit,
           Line1(d, b)' \in {Line(d, b), line}, Line2(d, b)' \in {Line1(d, b)', line},
           KeepsLines(p), Suits(p, pin[p].initialized, d, b)'
    PROVE  LinesInv'
<1>1. pin \in [Pins -> PinType] /\ pin[p].device # none
    BY PinTypes DEF Begin
<1>2. \A q \in Pins : /\ pin'[q].device = pin[q].device /\ pin'[q].bit = pin[q].bit
                      /\ q # p => pin'[q] = pin[q]
  <2>1. pin[p] \in [device : Devices, bit : Bits, initialized : BOOLEAN]
      BY <1>1 DEF PinType, NoPin
  <2> QED
      BY <1>1, <2>1 DEF KeepsLines
<1>3. \A q, e, c : q \in Pins => (Has(q, e, c)' <=> Has(q, e, c))
    BY <1>2 DEF Has
<1>4. Has(p, d, b) /\ \A q \in Pins : Has(q, d, b) => q = p
    BY <1>1, OwnLine
<1>5. OwnersInv'
    BY <1>3 DEF LinesInv, OwnersInv
<1>6. \A q \in Pins : Has(q, d, b)' => Suits(q, pin[q].initialized, d, b)'
    BY <1>3, <1>4
<1>7. \A e \in Devices, c \in Bits : ~Has(p, e, c) =>
          /\ (\A q \in Pins : ~Has(q, e, c)') => \A q \in Pins : ~Has(q, e, c)
          /\ \A q \in Pins : Has(q, e, c)' => \E r \in Pins :
                /\ Has(r, e, c) /\ pin'[q].initialized = pin[r].initialized
                /\ q = r \/ SameClass(q, r)
  <2>1. ASSUME NEW e \in Devices, NEW c \in Bits, NEW q \in Pins, ~Has(p, e, c), Has(q, e, c)'
        PROVE  Has(q, e, c) /\ pin'[q].initialized = pin[q].initialized
    <3>1. Has(q, e, c) /\ q # p
        BY <1>3, <2>1
    <3> QED
        BY <1>2, <3>1
  <2> QED
      BY <1>3, <2>1
<1>8. (\A q \in Pins : ~Has(q, d, b)') => Free(d, b)'
    BY <1>3, <1>4
<1> QED
    BY <1>5, <1>6, <1>7, <1>8, BeginLines

\* What an operation makes of the bits of its line, and the line of them.
LEMMA OwnBits ==
    ASSUME IInv, LinesInv, NEW p \in Pins, NEW changes \in Seq(Change), NEW line,
           Len(changes) \in {1, 2}, Begin(p, changes, line),
           NEW d, NEW b, d = pin[p].device, b = pin[p].bit
    PROVE  /\ \A reg :
                 /\ After1(d, b, reg)' <=> Did(changes[1][1], changes[1][2], reg, After2(d, b, reg))
                 /\ Len(changes) = 1 => (After2(d, b, reg)' <=> After1(d, b, reg)')
                 /\ Len(changes) = 2 =>
                       (After2(d, b, reg)' <=>
                            Did(changes[2][1], changes[2][2], reg, After1(d, b, reg)'))
           /\ wants'[d][b] = line
           /\ Line(d, b) = Line2(d, b)
<1>1. Has(p, d, b)
    BY DEF Has
<1>2. d \in Devices /\ b \in Bits
    BY BeginBits
<1>3. \A reg :
          /\ After1(d, b, reg)' <=> Did(changes[1][1], changes[1][2], reg, Before(d, b, reg))
          /\ Len(changes) = 1 => (After2(d, b, reg)' <=> After1(d, b, reg)')
          /\ Len(changes) = 2 =>
                (After2(d, b, reg)' <=>
                     Did(changes[2][1], changes[2][2], reg, After1(d, b, reg)'))
          /\ After2(d, b, reg) <=> Before(d, b, reg)
    BY <1>1, BeginBits
<1>4. wants'[d][b] = line
    BY <1>1, <1>2, BeginBits
<1>5. Line(d, b) = Line2(d, b)
    BY <1>3, LineBits DEF Line2, LineOf
<1> QED
    BY <1>3, <1>4, <1>5 DEF Did

LEMMA InitializeInputLines ==
    ASSUME IInv, LinesInv, NEW p \in InputPins, NEW on \in BOOLEAN, InitializeInput(p, on)
    PROVE  LinesInv'
<1>1. p \in Pins /\ p \notin OpenDrainPins /\ p \notin PushPullPins /\ pin[p].device # none
    BY ClassesAssumption DEF Pins, InitializeInput, Begin
<1>2. PICK d, b : d = pin[p].device /\ b = pin[p].bit
    OBVIOUS
<1>3. PICK line : line = IF on THEN "pulled up" ELSE "released"
    OBVIOUS
<1>4. Suits(p, pin[p].initialized, d, b) /\ pin[p].initialized \in BOOLEAN
    BY <1>1, <1>2, OwnLine
<1>5. PICK i, g, o \in BOOLEAN : /\ i <=> After2(d, b, "iodir")
                                 /\ g <=> After2(d, b, "gppu")
                                 /\ o <=> After2(d, b, "olat")
    OBVIOUS
<1>6. i
    BY <1>1, <1>2, <1>4, <1>5 DEF Suits, Free, AsInput
<1>7. PICK changes : changes = <<<<"iodir", "set">>, <<"gppu", SetOrClear(on)>>>>
    OBVIOUS
<1>8. /\ changes \in Seq(Change) /\ Len(changes) = 2
      /\ changes[1][1] = "iodir" /\ changes[1][2] = "set"
      /\ changes[2][1] = "gppu" /\ changes[2][2] = SetOrClear(on)
    BY <1>7 DEF Change, Register, SetOrClear
<1>9. Begin(p, changes, line)
    BY <1>2, <1>3, <1>7 DEF InitializeInput
<1>10. /\ \A reg : /\ After1(d, b, reg)' <=> Did("iodir", "set", reg, After2(d, b, reg))
                   /\ After2(d, b, reg)' <=> Did("gppu", SetOrClear(on), reg, After1(d, b, reg)')
       /\ wants'[d][b] = line
       /\ Line(d, b) = Line2(d, b)
    BY <1>1, <1>2, <1>8, <1>9, OwnBits
<1>11. /\ After1(d, b, "iodir")' <=> TRUE
       /\ After1(d, b, "gppu")' <=> g
       /\ After1(d, b, "olat")' <=> o
    BY <1>5, <1>10 DEF Did, SetOrClear
<1>12. /\ After2(d, b, "iodir")' <=> TRUE
       /\ After2(d, b, "gppu")' <=> on
       /\ After2(d, b, "olat")' <=> o
    BY <1>10, <1>11 DEF Did, SetOrClear
<1>13. Line(d, b) = LineOf(i, g, o)
    BY <1>5, <1>10 DEF Line2, LineOf
<1>14. Line1(d, b)' \in {Line(d, b), line}
    BY <1>2, <1>3, <1>6, <1>11, <1>13 DEF Line1, LineOf
<1>15. Line2(d, b)' \in {Line1(d, b)', line}
    BY <1>2, <1>3, <1>6, <1>11, <1>12 DEF Line1, Line2, LineOf
<1>16. AsInput(d, b)'
    BY <1>2, <1>3, <1>6, <1>10, <1>12 DEF AsInput
<1>17. KeepsLines(p) /\ pin'[p].initialized = TRUE
  <2>1. pin' = [pin EXCEPT ![p].initialized = TRUE]
      BY DEF InitializeInput
  <2>2. pin \in [Pins -> PinType] /\ pin[p] # NoPin
      BY <1>1, PinTypes DEF NoPin
  <2>3. pin'[p].initialized = TRUE
      BY <1>1, <2>1, <2>2 DEF PinType
  <2> QED
      BY <2>1, <2>3 DEF KeepsLines
<1>18. Suits(p, pin[p].initialized, d, b)'
    BY <1>1, <1>16, <1>17 DEF Suits
<1> QED
    BY <1>1, <1>2, <1>8, <1>9, <1>14, <1>15, <1>17, <1>18, KeepLine

LEMMA SetPullUpLines ==
    ASSUME IInv, LinesInv, NEW p \in InputPins, NEW on \in BOOLEAN, SetPullUp(p, on)
    PROVE  LinesInv'
<1>1. p \in Pins /\ p \notin OpenDrainPins /\ p \notin PushPullPins /\ pin[p].device # none
    BY ClassesAssumption DEF Pins, SetPullUp, Begin
<1>2. PICK d, b : d = pin[p].device /\ b = pin[p].bit
    OBVIOUS
<1>3. PICK line : line = IF on THEN "pulled up" ELSE "released"
    OBVIOUS
<1>4. Suits(p, pin[p].initialized, d, b) /\ pin[p].initialized \in BOOLEAN
    BY <1>1, <1>2, OwnLine
<1>5. PICK i, g, o \in BOOLEAN : /\ i <=> After2(d, b, "iodir")
                                 /\ g <=> After2(d, b, "gppu")
                                 /\ o <=> After2(d, b, "olat")
    OBVIOUS
<1>6. i
    BY <1>1, <1>2, <1>4, <1>5 DEF Suits, Free, AsInput, SetPullUp
<1>7. PICK changes : changes = <<<<"gppu", SetOrClear(on)>>>>
    OBVIOUS
<1>8. /\ changes \in Seq(Change) /\ Len(changes) = 1
      /\ changes[1][1] = "gppu" /\ changes[1][2] = SetOrClear(on)
    BY <1>7 DEF Change, Register, SetOrClear
<1>9. Begin(p, changes, line)
    BY <1>2, <1>3, <1>7 DEF SetPullUp
<1>10. /\ \A reg : /\ After1(d, b, reg)' <=> Did("gppu", SetOrClear(on), reg, After2(d, b, reg))
                   /\ After2(d, b, reg)' <=> After1(d, b, reg)'
       /\ wants'[d][b] = line
       /\ Line(d, b) = Line2(d, b)
    BY <1>1, <1>2, <1>8, <1>9, OwnBits
<1>11. /\ After1(d, b, "iodir")' <=> i
       /\ After1(d, b, "gppu")' <=> on
       /\ After1(d, b, "olat")' <=> o
    BY <1>5, <1>10 DEF Did, SetOrClear
<1>12. /\ After2(d, b, "iodir")' <=> i
       /\ After2(d, b, "gppu")' <=> on
       /\ After2(d, b, "olat")' <=> o
    BY <1>10, <1>11 DEF Did, SetOrClear
<1>13. Line(d, b) = LineOf(i, g, o)
    BY <1>5, <1>10 DEF Line2, LineOf
<1>14. Line1(d, b)' \in {Line(d, b), line}
    BY <1>2, <1>3, <1>6, <1>11, <1>13 DEF Line1, LineOf
<1>15. Line2(d, b)' \in {Line1(d, b)', line}
    BY <1>2, <1>3, <1>6, <1>11, <1>12 DEF Line1, Line2, LineOf
<1>16. AsInput(d, b)'
    BY <1>2, <1>3, <1>6, <1>10, <1>12 DEF AsInput
<1>17. KeepsLines(p) /\ pin'[p].initialized = TRUE
    BY DEF KeepsLines, SetPullUp
<1>18. Suits(p, pin[p].initialized, d, b)'
    BY <1>1, <1>16, <1>17 DEF Suits
<1> QED
    BY <1>1, <1>2, <1>8, <1>9, <1>14, <1>15, <1>17, <1>18, KeepLine

LEMMA InitializeOpenDrainLines ==
    ASSUME IInv, LinesInv, NEW p \in OpenDrainPins, NEW on \in BOOLEAN, InitializeOpenDrain(p, on)
    PROVE  LinesInv'
<1>1. p \in Pins /\ p \notin InputPins /\ p \notin PushPullPins /\ pin[p].device # none
    BY ClassesAssumption DEF Pins, InitializeOpenDrain, Begin
<1>2. PICK d, b : d = pin[p].device /\ b = pin[p].bit
    OBVIOUS
<1>3. PICK line : line = IF on THEN "released" ELSE "low"
    OBVIOUS
<1>4. Suits(p, pin[p].initialized, d, b) /\ pin[p].initialized \in BOOLEAN
    BY <1>1, <1>2, OwnLine
<1>5. PICK i, g, o \in BOOLEAN : /\ i <=> After2(d, b, "iodir")
                                 /\ g <=> After2(d, b, "gppu")
                                 /\ o <=> After2(d, b, "olat")
    OBVIOUS
<1>6. ~g /\ (~i => ~o)
    BY <1>1, <1>2, <1>4, <1>5 DEF Suits, Free, AsOpenDrain
<1>7. PICK changes : changes = <<<<"olat", "clear">>, <<"iodir", SetOrClear(on)>>>>
    OBVIOUS
<1>8. /\ changes \in Seq(Change) /\ Len(changes) = 2
      /\ changes[1][1] = "olat" /\ changes[1][2] = "clear"
      /\ changes[2][1] = "iodir" /\ changes[2][2] = SetOrClear(on)
    BY <1>7 DEF Change, Register, SetOrClear
<1>9. Begin(p, changes, line)
    BY <1>2, <1>3, <1>7 DEF InitializeOpenDrain
<1>10. /\ \A reg : /\ After1(d, b, reg)' <=> Did("olat", "clear", reg, After2(d, b, reg))
                   /\ After2(d, b, reg)' <=> Did("iodir", SetOrClear(on), reg, After1(d, b, reg)')
       /\ wants'[d][b] = line
       /\ Line(d, b) = Line2(d, b)
    BY <1>1, <1>2, <1>8, <1>9, OwnBits
<1>11. /\ After1(d, b, "iodir")' <=> i
       /\ After1(d, b, "gppu")' <=> g
       /\ After1(d, b, "olat")' <=> FALSE
    BY <1>5, <1>10 DEF Did, SetOrClear
<1>12. /\ After2(d, b, "iodir")' <=> on
       /\ After2(d, b, "gppu")' <=> g
       /\ After2(d, b, "olat")' <=> FALSE
    BY <1>10, <1>11 DEF Did, SetOrClear
<1>13. Line(d, b) = LineOf(i, g, o)
    BY <1>5, <1>10 DEF Line2, LineOf
<1>14. Line1(d, b)' \in {Line(d, b), line}
    BY <1>2, <1>3, <1>6, <1>11, <1>13 DEF Line1, LineOf
<1>15. Line2(d, b)' \in {Line1(d, b)', line}
    BY <1>2, <1>3, <1>6, <1>11, <1>12 DEF Line1, Line2, LineOf
<1>16. AsOpenDrain(d, b)'
    BY <1>2, <1>3, <1>6, <1>10, <1>12 DEF AsOpenDrain
<1>17. KeepsLines(p) /\ pin'[p].initialized = TRUE
  <2>1. pin' = [pin EXCEPT ![p].initialized = TRUE]
      BY DEF InitializeOpenDrain
  <2>2. pin \in [Pins -> PinType] /\ pin[p] # NoPin
      BY <1>1, PinTypes DEF NoPin
  <2>3. pin'[p].initialized = TRUE
      BY <1>1, <2>1, <2>2 DEF PinType
  <2> QED
      BY <2>1, <2>3 DEF KeepsLines
<1>18. Suits(p, pin[p].initialized, d, b)'
    BY <1>1, <1>16, <1>17 DEF Suits
<1> QED
    BY <1>1, <1>2, <1>8, <1>9, <1>14, <1>15, <1>17, <1>18, KeepLine

LEMMA TransitionOpenDrainLines ==
    ASSUME IInv, LinesInv, NEW p \in OpenDrainPins, NEW on \in BOOLEAN, TransitionOpenDrain(p, on)
    PROVE  LinesInv'
<1>1. p \in Pins /\ p \notin InputPins /\ p \notin PushPullPins /\ pin[p].device # none
    BY ClassesAssumption DEF Pins, TransitionOpenDrain, Begin
<1>2. PICK d, b : d = pin[p].device /\ b = pin[p].bit
    OBVIOUS
<1>3. PICK line : line = IF on THEN "released" ELSE "low"
    OBVIOUS
<1>4. Suits(p, pin[p].initialized, d, b) /\ pin[p].initialized \in BOOLEAN
    BY <1>1, <1>2, OwnLine
<1>5. PICK i, g, o \in BOOLEAN : /\ i <=> After2(d, b, "iodir")
                                 /\ g <=> After2(d, b, "gppu")
                                 /\ o <=> After2(d, b, "olat")
    OBVIOUS
<1>6. ~g /\ ~o
    BY <1>1, <1>2, <1>4, <1>5 DEF Suits, Free, AsOpenDrain, TransitionOpenDrain
<1>7. PICK changes : changes = <<<<"iodir", SetOrClear(on)>>>>
    OBVIOUS
<1>8. /\ changes \in Seq(Change) /\ Len(changes) = 1
      /\ changes[1][1] = "iodir" /\ changes[1][2] = SetOrClear(on)
    BY <1>7 DEF Change, Register, SetOrClear
<1>9. Begin(p, changes, line)
    BY <1>2, <1>3, <1>7 DEF TransitionOpenDrain
<1>10. /\ \A reg : /\ After1(d, b, reg)' <=> Did("iodir", SetOrClear(on), reg, After2(d, b, reg))
                   /\ After2(d, b, reg)' <=> After1(d, b, reg)'
       /\ wants'[d][b] = line
       /\ Line(d, b) = Line2(d, b)
    BY <1>1, <1>2, <1>8, <1>9, OwnBits
<1>11. /\ After1(d, b, "iodir")' <=> on
       /\ After1(d, b, "gppu")' <=> g
       /\ After1(d, b, "olat")' <=> o
    BY <1>5, <1>10 DEF Did, SetOrClear
<1>12. /\ After2(d, b, "iodir")' <=> on
       /\ After2(d, b, "gppu")' <=> g
       /\ After2(d, b, "olat")' <=> o
    BY <1>10, <1>11 DEF Did, SetOrClear
<1>13. Line(d, b) = LineOf(i, g, o)
    BY <1>5, <1>10 DEF Line2, LineOf
<1>14. Line1(d, b)' \in {Line(d, b), line}
    BY <1>2, <1>3, <1>6, <1>11, <1>13 DEF Line1, LineOf
<1>15. Line2(d, b)' \in {Line1(d, b)', line}
    BY <1>2, <1>3, <1>6, <1>11, <1>12 DEF Line1, Line2, LineOf
<1>16. AsOpenDrain(d, b)'
    BY <1>2, <1>3, <1>6, <1>10, <1>12 DEF AsOpenDrain
<1>17. KeepsLines(p) /\ pin'[p].initialized = TRUE
    BY DEF KeepsLines, TransitionOpenDrain
<1>18. Suits(p, pin[p].initialized, d, b)'
    BY <1>1, <1>16, <1>17 DEF Suits
<1> QED
    BY <1>1, <1>2, <1>8, <1>9, <1>14, <1>15, <1>17, <1>18, KeepLine

LEMMA ToggleOpenDrainLines ==
    ASSUME IInv, LinesInv, NEW p \in OpenDrainPins, ToggleOpenDrain(p)
    PROVE  LinesInv'
<1>1. p \in Pins /\ p \notin InputPins /\ p \notin PushPullPins /\ pin[p].device # none
    BY ClassesAssumption DEF Pins, ToggleOpenDrain, Begin
<1>2. PICK d, b : d = pin[p].device /\ b = pin[p].bit
    OBVIOUS
<1>3. PICK line : line = IF wants[pin[p].device][pin[p].bit] = "low" THEN "released" ELSE "low"
    OBVIOUS
<1>4. Suits(p, pin[p].initialized, d, b) /\ pin[p].initialized \in BOOLEAN
    BY <1>1, <1>2, OwnLine
<1>5. PICK i, g, o \in BOOLEAN : /\ i <=> After2(d, b, "iodir")
                                 /\ g <=> After2(d, b, "gppu")
                                 /\ o <=> After2(d, b, "olat")
    OBVIOUS
<1>6. ~g /\ ~o /\ wants[d][b] = IF i THEN "released" ELSE "low"
    BY <1>1, <1>2, <1>4, <1>5 DEF Suits, Free, AsOpenDrain, ToggleOpenDrain
<1>7. PICK changes : changes = <<<<"iodir", "toggle">>>>
    OBVIOUS
<1>8. /\ changes \in Seq(Change) /\ Len(changes) = 1
      /\ changes[1][1] = "iodir" /\ changes[1][2] = "toggle"
    BY <1>7 DEF Change, Register, SetOrClear
<1>9. Begin(p, changes, line)
    BY <1>2, <1>3, <1>7 DEF ToggleOpenDrain
<1>10. /\ \A reg : /\ After1(d, b, reg)' <=> Did("iodir", "toggle", reg, After2(d, b, reg))
                   /\ After2(d, b, reg)' <=> After1(d, b, reg)'
       /\ wants'[d][b] = line
       /\ Line(d, b) = Line2(d, b)
    BY <1>1, <1>2, <1>8, <1>9, OwnBits
<1>11. /\ After1(d, b, "iodir")' <=> ~i
       /\ After1(d, b, "gppu")' <=> g
       /\ After1(d, b, "olat")' <=> o
    BY <1>5, <1>10 DEF Did, SetOrClear
<1>12. /\ After2(d, b, "iodir")' <=> ~i
       /\ After2(d, b, "gppu")' <=> g
       /\ After2(d, b, "olat")' <=> o
    BY <1>10, <1>11 DEF Did, SetOrClear
<1>13. Line(d, b) = LineOf(i, g, o)
    BY <1>5, <1>10 DEF Line2, LineOf
<1>14. Line1(d, b)' \in {Line(d, b), line}
    BY <1>2, <1>3, <1>6, <1>11, <1>13 DEF Line1, LineOf
<1>15. Line2(d, b)' \in {Line1(d, b)', line}
    BY <1>2, <1>3, <1>6, <1>11, <1>12 DEF Line1, Line2, LineOf
<1>16. AsOpenDrain(d, b)'
    BY <1>2, <1>3, <1>6, <1>10, <1>12 DEF AsOpenDrain
<1>17. KeepsLines(p) /\ pin'[p].initialized = TRUE
    BY DEF KeepsLines, ToggleOpenDrain
<1>18. Suits(p, pin[p].initialized, d, b)'
    BY <1>1, <1>16, <1>17 DEF Suits
<1> QED
    BY <1>1, <1>2, <1>8, <1>9, <1>14, <1>15, <1>17, <1>18, KeepLine

LEMMA InitializePushPullLines ==
    ASSUME IInv, LinesInv, NEW p \in PushPullPins, NEW on \in BOOLEAN, InitializePushPull(p, on)
    PROVE  LinesInv'
<1>1. p \in Pins /\ p \notin InputPins /\ p \notin OpenDrainPins /\ pin[p].device # none
    BY ClassesAssumption DEF Pins, InitializePushPull, Begin
<1>2. PICK d, b : d = pin[p].device /\ b = pin[p].bit
    OBVIOUS
<1>3. PICK line : line = IF on THEN "high" ELSE "low"
    OBVIOUS
<1>4. Suits(p, pin[p].initialized, d, b) /\ pin[p].initialized \in BOOLEAN
    BY <1>1, <1>2, OwnLine
<1>5. PICK i, g, o \in BOOLEAN : /\ i <=> After2(d, b, "iodir")
                                 /\ g <=> After2(d, b, "gppu")
                                 /\ o <=> After2(d, b, "olat")
    OBVIOUS
<1>6. ~g
    BY <1>1, <1>2, <1>4, <1>5 DEF Suits, Free, AsPushPull
<1>7. PICK changes : changes = <<<<"olat", SetOrClear(on)>>, <<"iodir", "clear">>>>
    OBVIOUS
<1>8. /\ changes \in Seq(Change) /\ Len(changes) = 2
      /\ changes[1][1] = "olat" /\ changes[1][2] = SetOrClear(on)
      /\ changes[2][1] = "iodir" /\ changes[2][2] = "clear"
    BY <1>7 DEF Change, Register, SetOrClear
<1>9. Begin(p, changes, line)
    BY <1>2, <1>3, <1>7 DEF InitializePushPull
<1>10. /\ \A reg : /\ After1(d, b, reg)' <=> Did("olat", SetOrClear(on), reg, After2(d, b, reg))
                   /\ After2(d, b, reg)' <=> Did("iodir", "clear", reg, After1(d, b, reg)')
       /\ wants'[d][b] = line
       /\ Line(d, b) = Line2(d, b)
    BY <1>1, <1>2, <1>8, <1>9, OwnBits
<1>11. /\ After1(d, b, "iodir")' <=> i
       /\ After1(d, b, "gppu")' <=> g
       /\ After1(d, b, "olat")' <=> on
    BY <1>5, <1>10 DEF Did, SetOrClear
<1>12. /\ After2(d, b, "iodir")' <=> FALSE
       /\ After2(d, b, "gppu")' <=> g
       /\ After2(d, b, "olat")' <=> on
    BY <1>10, <1>11 DEF Did, SetOrClear
<1>13. Line(d, b) = LineOf(i, g, o)
    BY <1>5, <1>10 DEF Line2, LineOf
<1>14. Line1(d, b)' \in {Line(d, b), line}
    BY <1>2, <1>3, <1>6, <1>11, <1>13 DEF Line1, LineOf
<1>15. Line2(d, b)' \in {Line1(d, b)', line}
    BY <1>2, <1>3, <1>6, <1>11, <1>12 DEF Line1, Line2, LineOf
<1>16. AsPushPull(d, b)'
    BY <1>2, <1>3, <1>6, <1>10, <1>12 DEF AsPushPull
<1>17. KeepsLines(p) /\ pin'[p].initialized = TRUE
  <2>1. pin' = [pin EXCEPT ![p].initialized = TRUE]
      BY DEF InitializePushPull
  <2>2. pin \in [Pins -> PinType] /\ pin[p] # NoPin
      BY <1>1, PinTypes DEF NoPin
  <2>3. pin'[p].initialized = TRUE
      BY <1>1, <2>1, <2>2 DEF PinType
  <2> QED
      BY <2>1, <2>3 DEF KeepsLines
<1>18. Suits(p, pin[p].initialized, d, b)'
    BY <1>1, <1>16, <1>17 DEF Suits
<1> QED
    BY <1>1, <1>2, <1>8, <1>9, <1>14, <1>15, <1>17, <1>18, KeepLine

LEMMA TransitionPushPullLines ==
    ASSUME IInv, LinesInv, NEW p \in PushPullPins, NEW on \in BOOLEAN, TransitionPushPull(p, on)
    PROVE  LinesInv'
<1>1. p \in Pins /\ p \notin InputPins /\ p \notin OpenDrainPins /\ pin[p].device # none
    BY ClassesAssumption DEF Pins, TransitionPushPull, Begin
<1>2. PICK d, b : d = pin[p].device /\ b = pin[p].bit
    OBVIOUS
<1>3. PICK line : line = IF on THEN "high" ELSE "low"
    OBVIOUS
<1>4. Suits(p, pin[p].initialized, d, b) /\ pin[p].initialized \in BOOLEAN
    BY <1>1, <1>2, OwnLine
<1>5. PICK i, g, o \in BOOLEAN : /\ i <=> After2(d, b, "iodir")
                                 /\ g <=> After2(d, b, "gppu")
                                 /\ o <=> After2(d, b, "olat")
    OBVIOUS
<1>6. ~g /\ ~i
    BY <1>1, <1>2, <1>4, <1>5 DEF Suits, Free, AsPushPull, TransitionPushPull
<1>7. PICK changes : changes = <<<<"olat", SetOrClear(on)>>>>
    OBVIOUS
<1>8. /\ changes \in Seq(Change) /\ Len(changes) = 1
      /\ changes[1][1] = "olat" /\ changes[1][2] = SetOrClear(on)
    BY <1>7 DEF Change, Register, SetOrClear
<1>9. Begin(p, changes, line)
    BY <1>2, <1>3, <1>7 DEF TransitionPushPull
<1>10. /\ \A reg : /\ After1(d, b, reg)' <=> Did("olat", SetOrClear(on), reg, After2(d, b, reg))
                   /\ After2(d, b, reg)' <=> After1(d, b, reg)'
       /\ wants'[d][b] = line
       /\ Line(d, b) = Line2(d, b)
    BY <1>1, <1>2, <1>8, <1>9, OwnBits
<1>11. /\ After1(d, b, "iodir")' <=> i
       /\ After1(d, b, "gppu")' <=> g
       /\ After1(d, b, "olat")' <=> on
    BY <1>5, <1>10 DEF Did, SetOrClear
<1>12. /\ After2(d, b, "iodir")' <=> i
       /\ After2(d, b, "gppu")' <=> g
       /\ After2(d, b, "olat")' <=> on
    BY <1>10, <1>11 DEF Did, SetOrClear
<1>13. Line(d, b) = LineOf(i, g, o)
    BY <1>5, <1>10 DEF Line2, LineOf
<1>14. Line1(d, b)' \in {Line(d, b), line}
    BY <1>2, <1>3, <1>6, <1>11, <1>13 DEF Line1, LineOf
<1>15. Line2(d, b)' \in {Line1(d, b)', line}
    BY <1>2, <1>3, <1>6, <1>11, <1>12 DEF Line1, Line2, LineOf
<1>16. AsPushPull(d, b)'
    BY <1>2, <1>3, <1>6, <1>10, <1>12 DEF AsPushPull
<1>17. KeepsLines(p) /\ pin'[p].initialized = TRUE
    BY DEF KeepsLines, TransitionPushPull
<1>18. Suits(p, pin[p].initialized, d, b)'
    BY <1>1, <1>16, <1>17 DEF Suits
<1> QED
    BY <1>1, <1>2, <1>8, <1>9, <1>14, <1>15, <1>17, <1>18, KeepLine

LEMMA TogglePushPullLines ==
    ASSUME IInv, LinesInv, NEW p \in PushPullPins, TogglePushPull(p)
    PROVE  LinesInv'
<1>1. p \in Pins /\ p \notin InputPins /\ p \notin OpenDrainPins /\ pin[p].device # none
    BY ClassesAssumption DEF Pins, TogglePushPull, Begin
<1>2. PICK d, b : d = pin[p].device /\ b = pin[p].bit
    OBVIOUS
<1>3. PICK line : line = IF wants[pin[p].device][pin[p].bit] = "low" THEN "high" ELSE "low"
    OBVIOUS
<1>4. Suits(p, pin[p].initialized, d, b) /\ pin[p].initialized \in BOOLEAN
    BY <1>1, <1>2, OwnLine
<1>5. PICK i, g, o \in BOOLEAN : /\ i <=> After2(d, b, "iodir")
                                 /\ g <=> After2(d, b, "gppu")
                                 /\ o <=> After2(d, b, "olat")
    OBVIOUS
<1>6. ~g /\ ~i /\ wants[d][b] = IF o THEN "high" ELSE "low"
    BY <1>1, <1>2, <1>4, <1>5 DEF Suits, Free, AsPushPull, TogglePushPull
<1>7. PICK changes : changes = <<<<"olat", "toggle">>>>
    OBVIOUS
<1>8. /\ changes \in Seq(Change) /\ Len(changes) = 1
      /\ changes[1][1] = "olat" /\ changes[1][2] = "toggle"
    BY <1>7 DEF Change, Register, SetOrClear
<1>9. Begin(p, changes, line)
    BY <1>2, <1>3, <1>7 DEF TogglePushPull
<1>10. /\ \A reg : /\ After1(d, b, reg)' <=> Did("olat", "toggle", reg, After2(d, b, reg))
                   /\ After2(d, b, reg)' <=> After1(d, b, reg)'
       /\ wants'[d][b] = line
       /\ Line(d, b) = Line2(d, b)
    BY <1>1, <1>2, <1>8, <1>9, OwnBits
<1>11. /\ After1(d, b, "iodir")' <=> i
       /\ After1(d, b, "gppu")' <=> g
       /\ After1(d, b, "olat")' <=> ~o
    BY <1>5, <1>10 DEF Did, SetOrClear
<1>12. /\ After2(d, b, "iodir")' <=> i
       /\ After2(d, b, "gppu")' <=> g
       /\ After2(d, b, "olat")' <=> ~o
    BY <1>10, <1>11 DEF Did, SetOrClear
<1>13. Line(d, b) = LineOf(i, g, o)
    BY <1>5, <1>10 DEF Line2, LineOf
<1>14. Line1(d, b)' \in {Line(d, b), line}
    BY <1>2, <1>3, <1>6, <1>11, <1>13 DEF Line1, LineOf
<1>15. Line2(d, b)' \in {Line1(d, b)', line}
    BY <1>2, <1>3, <1>6, <1>11, <1>12 DEF Line1, Line2, LineOf
<1>16. AsPushPull(d, b)'
    BY <1>2, <1>3, <1>6, <1>10, <1>12 DEF AsPushPull
<1>17. KeepsLines(p) /\ pin'[p].initialized = TRUE
    BY DEF KeepsLines, TogglePushPull
<1>18. Suits(p, pin[p].initialized, d, b)'
    BY <1>1, <1>16, <1>17 DEF Suits
<1> QED
    BY <1>1, <1>2, <1>8, <1>9, <1>14, <1>15, <1>17, <1>18, KeepLine

LEMMA ReadLines == ASSUME IInv, LinesInv, NEW p \in Pins, Read(p) PROVE LinesInv'
<1>1. PICK d, b : d = pin[p].device /\ b = pin[p].bit
    OBVIOUS
<1>2. PICK line : line = wants[d][b]
    OBVIOUS
<1>3. pin[p].device # none /\ KeepsLines(p) /\ pin' = pin
    BY DEF Read, KeepsLines
<1>4. Suits(p, pin[p].initialized, d, b)
    BY <1>1, <1>3, OwnLine
<1>5. PICK changes : changes = <<<<"gpio", "read">>>>
    OBVIOUS
<1>6. /\ changes \in Seq(Change) /\ Len(changes) = 1
      /\ changes[1][1] = "gpio" /\ changes[1][2] = "read"
    BY <1>5 DEF Change
<1>7. Begin(p, changes, line)
    BY <1>1, <1>2, <1>5 DEF Read
<1>8. /\ \A reg : /\ After1(d, b, reg)' <=> Did("gpio", "read", reg, After2(d, b, reg))
                  /\ After2(d, b, reg)' <=> After1(d, b, reg)'
      /\ wants'[d][b] = line
      /\ Line(d, b) = Line2(d, b)
    BY <1>1, <1>6, <1>7, OwnBits
<1>9. \A reg \in Register : /\ After1(d, b, reg)' <=> After2(d, b, reg)
                            /\ After2(d, b, reg)' <=> After2(d, b, reg)
    BY <1>8 DEF Did, Register
<1>10. Line1(d, b)' = Line(d, b) /\ Line2(d, b)' = Line1(d, b)'
    BY <1>8, <1>9 DEF Line1, Line2, LineOf, Register
<1>11. Suits(p, pin[p].initialized, d, b)'
  <2>1. PICK i : i = pin[p].initialized
      OBVIOUS
  <2>2. Suits(p, i, d, b)'
      BY <1>2, <1>4, <1>8, <1>9, <2>1, SuitsSame
  <2> QED
      BY <1>3, <2>1, <2>2 DEF Suits
<1> QED
    BY <1>1, <1>3, <1>6, <1>7, <1>10, <1>11, KeepLine

\* disable() releases the line, whatever the class of the pin and whether it
\* was initialized.
LEMMA DisabledLine ==
    ASSUME IInv, LinesInv, NEW p \in Pins, Begin(p, Disabled(p), "released"),
           NEW d, NEW b, d = pin[p].device, b = pin[p].bit
    PROVE  /\ Disabled(p) \in Seq(Change) /\ Len(Disabled(p)) \in {1, 2}
           /\ Line1(d, b)' \in {Line(d, b), "released"}
           /\ Line2(d, b)' \in {Line1(d, b)', "released"}
           /\ Free(d, b)'
<1>1. pin[p].device # none
    BY DEF Begin
<1>2. Suits(p, pin[p].initialized, d, b) /\ pin[p].initialized \in BOOLEAN
    BY <1>1, OwnLine
<1>3. PICK i, g, o \in BOOLEAN : /\ i <=> After2(d, b, "iodir")
                                 /\ g <=> After2(d, b, "gppu")
                                 /\ o <=> After2(d, b, "olat")
    OBVIOUS
<1>4. PICK changes : changes = Disabled(p)
    OBVIOUS
<1>5. p \in InputPins \/ p \in OpenDrainPins \/ p \in PushPullPins
    BY DEF Pins
<1>6. /\ changes \in Seq(Change) /\ Len(changes) = 1
      /\ p \in InputPins => changes[1][1] = "gppu" /\ changes[1][2] = "clear"
      /\ p \notin InputPins => changes[1][1] = "iodir" /\ changes[1][2] = "set"
    BY <1>4 DEF Disabled, Change, Register
<1>7. Begin(p, changes, "released")
    BY <1>4
<1>8. /\ \A reg : /\ After1(d, b, reg)' <=>
                         Did(changes[1][1], changes[1][2], reg, After2(d, b, reg))
                  /\ After2(d, b, reg)' <=> After1(d, b, reg)'
      /\ wants'[d][b] = "released"
      /\ Line(d, b) = Line2(d, b)
    BY <1>6, <1>7, OwnBits
<1>9. IF p \in InputPins THEN i ELSE ~g
    BY <1>2, <1>3, <1>5, ClassesAssumption DEF Suits, Free, AsInput, AsOpenDrain, AsPushPull
<1>10. After1(d, b, "iodir")' /\ ~After1(d, b, "gppu")'
    BY <1>3, <1>6, <1>8, <1>9 DEF Did
<1>11. After2(d, b, "iodir")' /\ ~After2(d, b, "gppu")'
    BY <1>8, <1>10
<1>12. Free(d, b)'
    BY <1>8, <1>11 DEF Free
<1>13. Line1(d, b)' = "released"
    BY <1>10 DEF Line1, LineOf
<1>14. Line2(d, b)' = "released"
    BY <1>11 DEF Line2, LineOf
<1> QED
    BY <1>4, <1>6, <1>12, <1>13, <1>14

LEMMA DestroyLines == ASSUME IInv, LinesInv, NEW p \in Pins, Destroy(p) PROVE LinesInv'
<1>1. Begin(p, Disabled(p), "released") /\ pin' = [pin EXCEPT ![p] = NoPin]
    BY DEF Destroy
<1>2. PICK d, b : d = pin[p].device /\ b = pin[p].bit
    OBVIOUS
<1>3. pin[p].device # none /\ pin \in [Pins -> PinType]
    BY <1>1, PinTypes DEF Begin
<1>4. ASSUME NEW q \in Pins, NEW e \in Devices, NEW c \in Bits
      PROVE  /\ Has(q, e, c)' <=> q # p /\ Has(q, e, c)
             /\ q # p => pin'[q] = pin[q]
    BY <1>1, <1>3 DEF Has, NoPin
<1>5. d \in Devices /\ b \in Bits /\ \A q \in Pins : Has(q, d, b) => q = p
    BY <1>2, <1>3, OwnLine
<1>6. OwnersInv'
    BY <1>4 DEF LinesInv, OwnersInv
<1>7. Free(d, b)' /\ \A q \in Pins : ~Has(q, d, b)'
    BY <1>1, <1>2, <1>4, <1>5, DisabledLine
<1>8. ASSUME NEW e \in Devices, NEW c \in Bits, ~Has(p, e, c)
      PROVE  /\ (\A q \in Pins : ~Has(q, e, c)') => \A q \in Pins : ~Has(q, e, c)
             /\ \A q \in Pins : Has(q, e, c)' => \E r \in Pins :
                   /\ Has(r, e, c) /\ pin'[q].initialized = pin[r].initialized
                   /\ q = r \/ SameClass(q, r)
    BY <1>4, <1>8
<1>9. PICK changes : changes = Disabled(p)
    OBVIOUS
<1>10. PICK line : line = "released"
    OBVIOUS
<1>11. /\ changes \in Seq(Change) /\ Len(changes) \in {1, 2} /\ Begin(p, changes, line)
       /\ Line1(d, b)' \in {Line(d, b), line}
       /\ Line2(d, b)' \in {Line1(d, b)', line}
    BY <1>1, <1>2, <1>9, <1>10, DisabledLine
<1> QED
    BY <1>2, <1>6, <1>7, <1>8, <1>11, BeginLines

\* Pins get and lose lines, and no operation begins.
LEMMA PinsMove ==
    ASSUME IInv, LinesInv, UNCHANGED <<pc, registers, cache, transaction, todo, wants>>, OwnersInv',
           \A e \in Devices, c \in Bits :
              /\ (\A q \in Pins : ~Has(q, e, c)') => Free(e, c)
              /\ \A q \in Pins : \A i :
                    Has(q, e, c)' /\ i = pin'[q].initialized => Suits(q, i, e, c)
    PROVE  LinesInv'
<1>1. Pending' = Pending /\ call' = call /\ Written' = Written
    BY DEF Pending, call, Written
<1>2. PendingInv' /\ DataInv'
    BY <1>1 DEF LinesInv, PendingInv, DataInv, InTransaction
<1>3. DirectInv'
    BY <1>1, SameLines DEF LinesInv, DirectInv
<1>4. ASSUME NEW e \in Devices, NEW c \in Bits, NEW q, NEW i
      PROVE  /\ Free(e, c)' <=> Free(e, c)
             /\ Suits(q, i, e, c)' <=> Suits(q, i, e, c)
    BY <1>1, SameLines, SuitsSame
<1>5. ASSUME NEW e \in Devices, NEW c \in Bits, NEW q \in Pins, Has(q, e, c)'
      PROVE  Suits(q, pin[q].initialized, e, c)'
  <2>1. PICK i : i = pin'[q].initialized
      OBVIOUS
  <2>2. Suits(q, i, e, c)'
      BY <1>4, <1>5, <2>1
  <2> QED
      BY <2>1, <2>2 DEF Suits
<1>6. SettledInv'
    BY <1>4, <1>5 DEF SettledInv
<1> QED
    BY <1>2, <1>3, <1>6 DEF LinesInv

LEMMA ConstructLines ==
    ASSUME IInv, LinesInv, NEW p \in Pins, NEW d \in Devices, NEW b \in Bits, Construct(p, d, b)
    PROVE  LinesInv'
<1>1. pin' = [pin EXCEPT ![p] = [device |-> d, bit |-> b, initialized |-> FALSE]]
    BY DEF Construct
<1>2. pin[p].device = none /\ pin \in [Pins -> PinType] /\ \A q \in Pins : ~Has(q, d, b)
    BY PinTypes DEF Construct, Has
<1>3. ASSUME NEW q \in Pins, NEW e \in Devices, NEW c \in Bits
      PROVE  /\ Has(q, e, c)' <=> IF q = p THEN e = d /\ c = b ELSE Has(q, e, c)
             /\ q # p => pin'[q] = pin[q]
             /\ q = p => pin'[q].initialized = FALSE /\ ~Has(q, e, c)
    BY <1>1, <1>2 DEF Has
<1>4. OwnersInv'
  <2>1. ASSUME NEW q \in Pins, NEW r \in Pins, NEW e \in Devices, NEW c \in Bits,
               Has(q, e, c)', Has(r, e, c)'
        PROVE  q = r
    <3>1. CASE e = d /\ c = b
        BY <1>2, <1>3, <2>1, <3>1
    <3>2. CASE ~(e = d /\ c = b)
        BY <1>3, <2>1, <3>2 DEF LinesInv, OwnersInv
    <3> QED
        BY <3>1, <3>2
  <2> QED
      BY <2>1 DEF OwnersInv
<1>5. ASSUME NEW e \in Devices, NEW c \in Bits
      PROVE  /\ (\A q \in Pins : ~Has(q, e, c)') => Free(e, c)
             /\ \A q \in Pins : \A i :
                   Has(q, e, c)' /\ i = pin'[q].initialized => Suits(q, i, e, c)
  <2>1. (\A q \in Pins : ~Has(q, e, c)') => Free(e, c)
      BY <1>3 DEF LinesInv, SettledInv
  <2>2. ASSUME NEW q \in Pins, NEW i, Has(q, e, c)', i = pin'[q].initialized PROVE Suits(q, i, e, c)
    <3>1. CASE q = p
      <4>1. e = d /\ c = b /\ i = FALSE
          BY <1>3, <2>2, <3>1
      <4>2. Free(e, c)
          BY <1>2, <4>1 DEF LinesInv, SettledInv
      <4> QED
          BY <4>1, <4>2 DEF Suits
    <3>2. CASE q # p
        BY <1>3, <2>2, <3>2 DEF LinesInv, SettledInv
    <3> QED
        BY <3>1, <3>2
  <2> QED
      BY <2>1, <2>2
<1> QED
    BY <1>4, <1>5, PinsMove DEF Construct

LEMMA MoveLines ==
    ASSUME IInv, LinesInv, NEW p \in Pins, NEW q \in Pins, Move(p, q) PROVE LinesInv'
<1>1. p # q /\ SameClass(p, q) /\ pin' = [pin EXCEPT ![p] = pin[q], ![q] = NoPin]
    BY DEF Move
<1>2. pin \in [Pins -> PinType]
    BY PinTypes
<1>3. ASSUME NEW x \in Pins, NEW e \in Devices, NEW c \in Bits
      PROVE  /\ Has(x, e, c)' <=> IF x = p THEN Has(q, e, c) ELSE x # q /\ Has(x, e, c)
             /\ x = p => pin'[x] = pin[q]
             /\ x # p /\ x # q => pin'[x] = pin[x]
    BY <1>1, <1>2 DEF Has, NoPin
<1>4. OwnersInv'
    BY <1>3 DEF LinesInv, OwnersInv
<1>5. ASSUME NEW e \in Devices, NEW c \in Bits, ~Has(p, e, c)
      PROVE  /\ (\A x \in Pins : ~Has(x, e, c)') => \A x \in Pins : ~Has(x, e, c)
             /\ \A x \in Pins : Has(x, e, c)' => \E r \in Pins :
                   /\ Has(r, e, c) /\ pin'[x].initialized = pin[r].initialized
                   /\ x = r \/ SameClass(x, r)
  <2>1. (\A x \in Pins : ~Has(x, e, c)') => \A x \in Pins : ~Has(x, e, c)
      BY <1>3, <1>5
  <2>2. ASSUME NEW x \in Pins, Has(x, e, c)'
        PROVE  \E r \in Pins : /\ Has(r, e, c) /\ pin'[x].initialized = pin[r].initialized
                               /\ x = r \/ SameClass(x, r)
    <3>1. CASE x = p
        BY <1>1, <1>3, <2>2, <3>1
    <3>2. CASE x # p
        BY <1>3, <2>2, <3>2
    <3> QED
        BY <3>1, <3>2
  <2> QED
      BY <2>1, <2>2
<1>6. CASE pin[p].device = none
  <2>1. \A e \in Devices, c \in Bits : ~Has(p, e, c)
      BY <1>6 DEF Has
  <2>2. ASSUME NEW e \in Devices, NEW c \in Bits
        PROVE  /\ (\A x \in Pins : ~Has(x, e, c)') => Free(e, c)
               /\ \A x \in Pins : \A i :
                     Has(x, e, c)' /\ i = pin'[x].initialized => Suits(x, i, e, c)
    <3>1. (\A x \in Pins : ~Has(x, e, c)') => Free(e, c)
        BY <1>5, <2>1 DEF LinesInv, SettledInv
    <3>2. ASSUME NEW x \in Pins, NEW i, Has(x, e, c)', i = pin'[x].initialized
          PROVE  Suits(x, i, e, c)
      <4>1. PICK r \in Pins : /\ Has(r, e, c) /\ pin'[x].initialized = pin[r].initialized
                              /\ x = r \/ SameClass(x, r)
          BY <1>5, <2>1, <3>2
      <4>2. Suits(r, pin[r].initialized, e, c)
          BY <4>1 DEF LinesInv, SettledInv
      <4>3. (x \in InputPins => r \in InputPins) /\ (x \in OpenDrainPins => r \in OpenDrainPins)
            /\ (x \in PushPullPins => r \in PushPullPins)
          BY <4>1, ClassesAssumption DEF SameClass
      <4> QED
          BY <3>2, <4>1, <4>2, <4>3 DEF Suits
    <3> QED
        BY <3>1, <3>2
  <2> QED
      BY <1>4, <1>6, <2>2, PinsMove DEF Move
<1>7. CASE pin[p].device # none
  <2>1. Begin(p, Disabled(p), "released")
      BY <1>7 DEF Move
  <2>2. PICK d, b : d = pin[p].device /\ b = pin[p].bit
      OBVIOUS
  <2>3. d \in Devices /\ b \in Bits /\ Has(p, d, b) /\ \A x \in Pins : Has(x, d, b) => x = p
      BY <1>7, <2>2, OwnLine
  <2>4. Free(d, b)'
      BY <2>1, <2>2, DisabledLine
  <2>5. \A x \in Pins : ~Has(x, d, b)'
      BY <1>1, <1>3, <2>3
  <2>6. PICK changes : changes = Disabled(p)
      OBVIOUS
  <2>7. PICK line : line = "released"
      OBVIOUS
  <2>8. /\ changes \in Seq(Change) /\ Len(changes) \in {1, 2} /\ Begin(p, changes, line)
        /\ Line1(d, b)' \in {Line(d, b), line}
        /\ Line2(d, b)' \in {Line1(d, b)', line}
      BY <2>1, <2>2, <2>6, <2>7, DisabledLine
  <2> QED
      BY <1>4, <1>5, <2>2, <2>4, <2>5, <2>8, BeginLines
<1> QED
    BY <1>6, <1>7

LEMMA ResetExpanderLines ==
    ASSUME IInv, LinesInv, NEW d \in Devices, ResetExpander(d) PROVE LinesInv'
<1>1. /\ pc = "idle" /\ pc' = "idle" /\ todo = <<>> /\ todo' = <<>>
      /\ UNCHANGED transaction
    BY DEF ResetExpander, LinesInv, PendingInv
<1>2. Len(Pending) = 0 /\ Len(Pending') = 0 /\ Len(todo') = 0
    BY <1>1 DEF Pending
<1>3. PendingInv' /\ DataInv'
    BY <1>1, <1>2 DEF PendingInv, DataInv, InTransaction
<1>4. \A e, b, reg : /\ After1(e, b, reg)' <=> Before(e, b, reg)'
                     /\ After2(e, b, reg)' <=> Before(e, b, reg)'
                     /\ After2(e, b, reg) <=> Before(e, b, reg)
    BY <1>2 DEF After1, After2
<1>5. ASSUME NEW e \in Devices, NEW b \in Bits
      PROVE  Line1(e, b)' = Line(e, b)' /\ Line2(e, b)' = Line(e, b)'
  <2>1. Line(e, b)' = LineOf(Before(e, b, "iodir"), Before(e, b, "gppu"), Before(e, b, "olat"))'
      BY DEF Line, LineOf, Before
  <2> QED
      BY <1>4, <2>1 DEF Line1, Line2, LineOf
<1>6. DirectInv'
    BY <1>5 DEF DirectInv
<1>7. pin \in [Pins -> PinType] /\ pin' = [p \in Pins |-> IF pin[p].device = d
                                                         THEN [pin[p] EXCEPT !.initialized = FALSE]
                                                         ELSE pin[p]]
    BY PinTypes DEF ResetExpander
<1>8. ASSUME NEW p \in Pins
      PROVE  /\ pin'[p].device = pin[p].device /\ pin'[p].bit = pin[p].bit
             /\ pin[p].device # d => pin'[p] = pin[p]
             /\ pin[p].device = d => pin'[p].initialized = FALSE
  <2>1. CASE pin[p].device = d
    <3>1. pin[p] \in [device : Devices, bit : Bits, initialized : BOOLEAN]
        BY <1>7, <2>1 DEF PinType, NoPin
    <3> QED
        BY <1>7, <2>1, <3>1
  <2>2. CASE pin[p].device # d
      BY <1>7, <2>2
  <2> QED
      BY <2>1, <2>2
<1>9. ASSUME NEW p \in Pins, NEW e \in Devices, NEW b \in Bits
      PROVE  Has(p, e, b)' <=> Has(p, e, b)
    BY <1>8 DEF Has
<1>10. OwnersInv'
    BY <1>9 DEF LinesInv, OwnersInv
<1>11. ASSUME NEW e \in Devices, NEW b \in Bits
       PROVE  /\ (\A q \in Pins : ~Has(q, e, b)') => Free(e, b)'
              /\ \A q \in Pins : Has(q, e, b)' => Suits(q, pin[q].initialized, e, b)'
  <2>1. CASE e = d
    <3>1. /\ Before(e, b, "iodir")' /\ ~Before(e, b, "gppu")' /\ ~Before(e, b, "olat")'
          /\ wants'[e][b] = "released"
        BY <2>1 DEF ResetExpander, Before, RESET, IInv, TypeOK
    <3>2. Free(e, b)'
        BY <1>4, <3>1 DEF Free
    <3>3. \A q \in Pins : Has(q, e, b)' => pin'[q].initialized = FALSE
        BY <1>8, <1>9, <2>1 DEF Has
    <3> QED
        BY <3>2, <3>3 DEF Suits
  <2>2. CASE e # d
    <3>1. \A reg : Before(e, b, reg)' <=> Before(e, b, reg)
        BY <2>2 DEF ResetExpander, Before, IInv, TypeOK
    <3>2. wants'[e][b] = wants[e][b]
        BY <2>2 DEF ResetExpander, IInv, TypeOK
    <3>3. ASSUME NEW q, NEW i
          PROVE  /\ Free(e, b)' <=> Free(e, b)
                 /\ Suits(q, i, e, b)' <=> Suits(q, i, e, b)
        BY <1>4, <3>1, <3>2, SuitsSame
    <3>4. (\A q \in Pins : ~Has(q, e, b)') => Free(e, b)'
        BY <1>9, <3>3 DEF LinesInv, SettledInv
    <3>5. ASSUME NEW q \in Pins, Has(q, e, b)' PROVE Suits(q, pin[q].initialized, e, b)'
      <4>1. Has(q, e, b) /\ pin'[q] = pin[q]
          BY <1>8, <1>9, <2>2, <3>5 DEF Has
      <4>2. PICK i : i = pin[q].initialized
          OBVIOUS
      <4>3. Suits(q, i, e, b)
          BY <4>1, <4>2 DEF LinesInv, SettledInv
      <4>4. Suits(q, i, e, b)'
          BY <3>3, <4>3
      <4>5. pin'[q].initialized = i
          BY <4>1, <4>2
      <4> QED
          BY <4>4, <4>5 DEF Suits
    <3> QED
        BY <3>4, <3>5
  <2> QED
      BY <2>1, <2>2
<1>12. SettledInv'
    BY <1>11 DEF SettledInv
<1> QED
    BY <1>3, <1>6, <1>10, <1>12 DEF LinesInv

-----------------------------------------------------------------------------
LEMMA NextLines == IInv /\ LinesInv /\ [Next]_vars => LinesInv'
<1> SUFFICES ASSUME IInv, LinesInv, [Next]_vars PROVE LinesInv'
    OBVIOUS
<1>1. CASE UNCHANGED vars
  <2>1. Pending' = Pending /\ call' = call /\ Written' = Written
      BY <1>1 DEF vars, Pending, call, Written
  <2>2. PendingInv' /\ DataInv'
      BY <1>1, <2>1 DEF vars, LinesInv, PendingInv, DataInv, InTransaction
  <2> QED
      BY <1>1, <2>1, <2>2, QuietLines DEF vars, LinesInv
<1>2. CASE PinNext
  <2>1. CASE \E p \in Pins : \/ \E d \in Devices, b \in Bits : Construct(p, d, b)
                             \/ Read(p) \/ Destroy(p) \/ \E q \in Pins : Move(p, q)
      BY <2>1, ConstructLines, ReadLines, DestroyLines, MoveLines
  <2>2. CASE \E on \in BOOLEAN, p \in InputPins : InitializeInput(p, on) \/ SetPullUp(p, on)
      BY <2>2, InitializeInputLines, SetPullUpLines
  <2>3. CASE \E on \in BOOLEAN, p \in OpenDrainPins :
                InitializeOpenDrain(p, on) \/ TransitionOpenDrain(p, on)
      BY <2>3, InitializeOpenDrainLines, TransitionOpenDrainLines
  <2>4. CASE \E on \in BOOLEAN, p \in PushPullPins :
                InitializePushPull(p, on) \/ TransitionPushPull(p, on)
      BY <2>4, InitializePushPullLines, TransitionPushPullLines
  <2>5. CASE \E p \in OpenDrainPins : ToggleOpenDrain(p)
      BY <2>5, ToggleOpenDrainLines
  <2>6. CASE \E p \in PushPullPins : TogglePushPull(p)
      BY <2>6, TogglePushPullLines
  <2> QED
      BY <1>2, <2>1, <2>2, <2>3, <2>4, <2>5, <2>6 DEF PinNext
<1>3. CASE BeginCall \/ Transfer \/ Finish
    BY <1>3, BeginCallLines, TransferLines, FinishLines
<1>4. CASE /\ Address \/ NotAcknowledged \/ SwitchChannels \/ ResetMultiplexer
           /\ UNCHANGED <<expanders, pin, todo, wants>>
    BY <1>4, BusLines
<1>5. CASE \E d \in Devices : ResetExpander(d)
    BY <1>5, ResetExpanderLines
<1> QED
    BY <1>1, <1>2, <1>3, <1>4, <1>5 DEF Next

\* The inductive invariant about the lines holds.
THEOREM LinesAreInvariant == Spec => [](IInv /\ LinesInv)
<1>1. Init => IInv /\ LinesInv
    BY InitInv, InitLines
<1>2. IInv /\ LinesInv /\ [Next]_vars => (IInv /\ LinesInv)'
    BY NextInv, NextLines
<1> QED
    BY <1>1, <1>2, PTL DEF Spec

\* Between operations every line is what its pin object was asked to make
\* of it last, or released if no pin object has it.
THEOREM LinesAreAsAsked == Spec => []LinesFollowPins
<1>1. ASSUME IInv, LinesInv PROVE LinesFollowPins
  <2>1. SUFFICES ASSUME pc = "idle", NEW d \in Devices, NEW b \in Bits
                 PROVE  Line(d, b) = wants[d][b]
      BY DEF LinesFollowPins
  <2>2. Pending = <<>> /\ Len(Pending) = 0
      BY <1>1, <2>1 DEF LinesInv, PendingInv, Pending
  <2>3. \A reg : After2(d, b, reg) <=> Before(d, b, reg)
      BY <2>2 DEF After1, After2
  <2>4. Line(d, b) = Line2(d, b)
      BY <2>3, LineBits DEF Line2, LineOf
  <2>5. (\A p \in Pins : ~Has(p, d, b)) => Free(d, b)
      BY <1>1 DEF LinesInv, SettledInv
  <2>6. Free(d, b) => Line2(d, b) = wants[d][b]
      BY DEF Free, Line2, LineOf
  <2>7. AsInput(d, b) => Line2(d, b) = wants[d][b]
      BY DEF AsInput, Line2, LineOf
  <2>8. AsOpenDrain(d, b) => Line2(d, b) = wants[d][b]
      BY DEF AsOpenDrain, Line2, LineOf
  <2>9. AsPushPull(d, b) => Line2(d, b) = wants[d][b]
      BY DEF AsPushPull, Line2, LineOf
  <2>10. ASSUME NEW p \in Pins, Has(p, d, b) PROVE Line2(d, b) = wants[d][b]
    <3>1. Suits(p, pin[p].initialized, d, b) /\ pin[p].device # none
        BY <1>1, <2>10 DEF LinesInv, SettledInv, Has
    <3>2. pin[p].initialized \in BOOLEAN
        BY <1>1, <3>1, OwnLine
    <3>3. p \in InputPins \/ p \in OpenDrainPins \/ p \in PushPullPins
        BY DEF Pins
    <3> QED
        BY <2>6, <2>7, <2>8, <2>9, <3>1, <3>2, <3>3 DEF Suits
  <2> QED
      BY <2>4, <2>5, <2>6, <2>10
<1> QED
    BY <1>1, LinesAreInvariant, PTL

\* No operation of a pin makes a line anything on the way to what was asked,
\* nor touches the line of another pin.
THEOREM LinesChangeDirectly == Spec => LinesDoNotGlitch
<1> DEFINE Direct == \A d \in Devices, b \in Bits :
        Line(d, b)' # Line(d, b) => Line(d, b)' = wants'[d][b]
<1>1. ASSUME IInv, LinesInv, [Next]_vars PROVE Direct
  <2>1. CASE Transfer
    <3>1. wants' = wants
        BY <2>1 DEF Transfer
    <3> QED
        BY <1>1, <2>1, <3>1, TransferLine DEF LinesInv, DirectInv
  <2>2. CASE \E d \in Devices : ResetExpander(d)
    <3>1. PICK d \in Devices : ResetExpander(d)
        BY <2>2
    <3>2. ASSUME NEW e \in Devices, NEW b \in Bits
          PROVE  Line(e, b)' # Line(e, b) => Line(e, b)' = wants'[e][b]
      <4>1. CASE e = d
          BY <1>1, <3>1, <4>1 DEF ResetExpander, Line, RESET, IInv, TypeOK
      <4>2. CASE e # d
          BY <1>1, <3>1, <4>2 DEF ResetExpander, Line, IInv, TypeOK
      <4> QED
          BY <4>1, <4>2
    <3> QED
        BY <3>2
  <2>3. CASE registers' = registers
      BY <2>3 DEF Line
  <2>4. PinNext => registers' = registers
      BY DEF PinNext, Construct, Read, Destroy, Move, Begin, InitializeInput, SetPullUp,
          InitializeOpenDrain, TransitionOpenDrain, InitializePushPull, TransitionPushPull,
          ToggleOpenDrain, TogglePushPull
  <2>5. BeginCall \/ Finish => registers' = registers
      BY DEF BeginCall, Finish
  <2>6. (UNCHANGED <<expanders, pin, todo, wants>>) \/ UNCHANGED vars => registers' = registers
      BY DEF vars
  <2> QED
      BY <1>1, <2>1, <2>2, <2>3, <2>4, <2>5, <2>6 DEF Next
<1>2. IInv /\ LinesInv /\ [Next]_vars => [Direct]_vars
    BY <1>1
<1> QED
    BY <1>2, LinesAreInvariant, PTL DEF Spec, LinesDoNotGlitch
=============================================================================
