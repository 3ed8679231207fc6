---------------------------- MODULE MCP23008Pins ----------------------------
(***************************************************************************)
(* GPIO pins on MCP23008 I/O expanders that share an I2C bus behind a      *)
(* multiplexer (I2CBus): Internally_Pulled_Up_Input_Pin, Open_Drain_IO_Pin *)
(* and Push_Pull_IO_Pin.                                                   *)
(*                                                                         *)
(* A pin operation is a few calls of the expander's Caching_Driver, each   *)
(* of which reads a cached register, changes one bit and writes the        *)
(* register, for eight pins at once.  A register is the set of its bits    *)
(* that are 1.  What the pins should look like electrically ("wants") is   *)
(* kept beside the model of the code, and compared with what the registers *)
(* of the chips make of them after every step.                             *)
(***************************************************************************)
EXTENDS I2CBus, Sequences

CONSTANTS
    Bits,
    InputPins, OpenDrainPins, PushPullPins    \* pin objects, by their class

\* An object has one class.
ASSUME ClassesAssumption ==
    /\ InputPins \cap OpenDrainPins = {}
    /\ InputPins \cap PushPullPins = {}
    /\ OpenDrainPins \cap PushPullPins = {}

Pins == InputPins \cup OpenDrainPins \cup PushPullPins
Register == {"iodir", "gppu", "olat"}

VARIABLES
    registers,    \* of the chips
    cache,        \* m_iodir, m_gppu and m_olat of the Caching_Drivers
    pin,          \* m_caching_driver, m_mask, and whether it is initialized
    todo,         \* the driver calls left in the operation in progress
    wants         \* what the program asked of every line

expanders == <<registers, cache>>
vars == <<bus, pc, expanders, pin, todo, wants>>

RESET == [iodir |-> Bits, gppu |-> {}, olat |-> {}]
NoPin == [device |-> none, bit |-> none, initialized |-> FALSE]

Init ==
    /\ BusInit
    /\ registers = [d \in Devices |-> RESET]
    /\ cache = [d \in Devices |-> RESET]
    /\ pin = [p \in Pins |-> NoPin]
    /\ todo = <<>>
    /\ wants = [d \in Devices |-> [b \in Bits |-> "released"]]

\* A line is driven, pulled up, or neither.
Line(d, b) ==
    LET r == registers[d] IN
    IF b \notin r.iodir THEN (IF b \in r.olat THEN "high" ELSE "low")
    ELSE IF b \in r.gppu THEN "pulled up" ELSE "released"

-----------------------------------------------------------------------------
(* Driver calls.                                                           *)

call == Head(todo)

\* What a call writes: the cached register with the bit set, clear or flipped.
Written ==
    LET r == cache[call.device][call.register] IN
    IF call.change = "set" \/ (call.change = "toggle" /\ call.bit \notin r)
    THEN r \cup {call.bit} ELSE r \ {call.bit}

BeginCall ==
    /\ todo # <<>>
    /\ LET data == IF call.change = "read" THEN {} ELSE Written
       IN Align(call.device, data) \/ Transact(call.device, data)
    /\ UNCHANGED <<expanders, pin, todo, wants>>

\* Driver::write_iodir(), write_gppu(), write_olat(), read_gpio(): the register
\* byte and the data byte, which every device that was addressed takes.
Transfer ==
    /\ pc = "data"
    /\ transaction.to # mux
    /\ registers' = IF call.change = "read" THEN registers
                    ELSE [d \in Devices |->
                            IF d \in Reachable(transaction.to)
                            THEN [registers[d] EXCEPT ![call.register] = transaction.data]
                            ELSE registers[d]]
    /\ pc' = "finish"
    /\ UNCHANGED <<bus, cache, pin, todo, wants>>

\* A mutant: the cache keeps the value from before the write.
Cached_Not == cache

\* Caching_Driver::write_iodir(), write_gppu(), write_olat()
Cached ==
    IF call.change = "read" THEN cache
    ELSE [cache EXCEPT ![call.device][call.register] = transaction.data]

Finish ==
    /\ pc = "finish"
    /\ cache' = Cached
    /\ todo' = Tail(todo)
    /\ pc' = IF Len(todo) = 1 THEN "idle" ELSE "align"
    /\ UNCHANGED <<bus, registers, pin, wants>>

-----------------------------------------------------------------------------
(* Operations of the pins.                                                 *)

\* The calls of an operation on the line of a pin, and what it should do.
Begin(p, changes, line) ==
    LET d == pin[p].device
        b == pin[p].bit
    IN
    /\ pc = "idle"
    /\ d # none
    /\ todo' = [k \in DOMAIN changes |->
                  [device |-> d, bit |-> b, register |-> changes[k][1], change |-> changes[k][2]]]
    /\ wants' = [wants EXCEPT ![d][b] = line]
    /\ pc' = "align"
    /\ UNCHANGED <<bus, expanders>>

SetOrClear(condition) == IF condition THEN "set" ELSE "clear"

\* Pin( caching_driver, mask ), assigned to a variable that holds no pin.
\* No other pin object has the line.
Construct(p, d, b) ==
    /\ pc = "idle"
    /\ pin[p].device = none
    /\ \A q \in Pins : pin[q].device # d \/ pin[q].bit # b
    /\ pin' = [pin EXCEPT ![p] = [device |-> d, bit |-> b, initialized |-> FALSE]]
    /\ UNCHANGED <<bus, pc, expanders, todo, wants>>

InitializeInput(p, pull_up) ==
    /\ Begin(p, <<<<"iodir", "set">>, <<"gppu", SetOrClear(pull_up)>>>>,
             IF pull_up THEN "pulled up" ELSE "released")
    /\ pin' = [pin EXCEPT ![p].initialized = TRUE]

SetPullUp(p, pull_up) ==
    /\ pin[p].initialized
    /\ Begin(p, <<<<"gppu", SetOrClear(pull_up)>>>>, IF pull_up THEN "pulled up" ELSE "released")
    /\ UNCHANGED pin

\* A mutant: the pin becomes an output before its output latch is cleared.
InitializeOpenDrain_DirectionFirst(p, high) ==
    /\ Begin(p, <<<<"iodir", SetOrClear(high)>>, <<"olat", "clear">>>>,
             IF high THEN "released" ELSE "low")
    /\ pin' = [pin EXCEPT ![p].initialized = TRUE]

InitializeOpenDrain(p, high) ==
    /\ Begin(p, <<<<"olat", "clear">>, <<"iodir", SetOrClear(high)>>>>,
             IF high THEN "released" ELSE "low")
    /\ pin' = [pin EXCEPT ![p].initialized = TRUE]

TransitionOpenDrain(p, high) ==
    /\ pin[p].initialized
    /\ Begin(p, <<<<"iodir", SetOrClear(high)>>>>, IF high THEN "released" ELSE "low")
    /\ UNCHANGED pin

ToggleOpenDrain(p) ==
    /\ pin[p].initialized
    /\ Begin(p, <<<<"iodir", "toggle">>>>,
             IF wants[pin[p].device][pin[p].bit] = "low" THEN "released" ELSE "low")
    /\ UNCHANGED pin

InitializePushPull(p, high) ==
    /\ Begin(p, <<<<"olat", SetOrClear(high)>>, <<"iodir", "clear">>>>,
             IF high THEN "high" ELSE "low")
    /\ pin' = [pin EXCEPT ![p].initialized = TRUE]

TransitionPushPull(p, high) ==
    /\ pin[p].initialized
    /\ Begin(p, <<<<"olat", SetOrClear(high)>>>>, IF high THEN "high" ELSE "low")
    /\ UNCHANGED pin

TogglePushPull(p) ==
    /\ pin[p].initialized
    /\ Begin(p, <<<<"olat", "toggle">>>>,
             IF wants[pin[p].device][pin[p].bit] = "low" THEN "high" ELSE "low")
    /\ UNCHANGED pin

\* is_low(), is_high()
Read(p) ==
    /\ pin[p].device # none
    /\ Begin(p, <<<<"gpio", "read">>>>, wants[pin[p].device][pin[p].bit])
    /\ UNCHANGED pin

\* A mutant: a pin that was an output stays one.
Disabled_LeavesOutput(p) == <<<<"gppu", "clear">>>>

\* disable()
Disabled(p) == IF p \in InputPins THEN <<<<"gppu", "clear">>>> ELSE <<<<"iodir", "set">>>>

\* The destructor.
Destroy(p) ==
    /\ Begin(p, Disabled(p), "released")
    /\ pin' = [pin EXCEPT ![p] = NoPin]

SameClass(p, q) == \E class \in {InputPins, OpenDrainPins, PushPullPins} : {p, q} \subseteq class

\* The move assignment p = std::move( q ), which disables p first; nothing
\* reads p while it does.
Move(p, q) ==
    /\ p # q
    /\ SameClass(p, q)
    /\ pin[q].device # none
    /\ IF pin[p].device = none
       THEN pc = "idle" /\ UNCHANGED <<bus, pc, expanders, todo, wants>>
       ELSE Begin(p, Disabled(p), "released")
    /\ pin' = [pin EXCEPT ![p] = pin[q], ![q] = NoPin]

\* The program resets a chip and calls reset_cache(); its pins have to be
\* initialized again.
ResetExpander(d) ==
    /\ pc = "idle"
    /\ registers' = [registers EXCEPT ![d] = RESET]
    /\ cache' = [cache EXCEPT ![d] = RESET]
    /\ wants' = [wants EXCEPT ![d] = [b \in Bits |-> "released"]]
    /\ pin' = [p \in Pins |-> IF pin[p].device = d THEN [pin[p] EXCEPT !.initialized = FALSE]
                                                   ELSE pin[p]]
    /\ UNCHANGED <<bus, pc, todo>>

PinNext ==
    \/ \E p \in Pins :
        \/ \E d \in Devices, b \in Bits : Construct(p, d, b)
        \/ Read(p)
        \/ Destroy(p)
        \/ \E q \in Pins : Move(p, q)
    \/ \E on \in BOOLEAN :
        \/ \E p \in InputPins : InitializeInput(p, on) \/ SetPullUp(p, on)
        \/ \E p \in OpenDrainPins : InitializeOpenDrain(p, on) \/ TransitionOpenDrain(p, on)
        \/ \E p \in PushPullPins : InitializePushPull(p, on) \/ TransitionPushPull(p, on)
    \/ \E p \in OpenDrainPins : ToggleOpenDrain(p)
    \/ \E p \in PushPullPins : TogglePushPull(p)

Next ==
    \/ PinNext
    \/ BeginCall \/ Transfer \/ Finish
    \/ (Address \/ NotAcknowledged \/ SwitchChannels \/ ResetMultiplexer)
           /\ UNCHANGED <<expanders, pin, todo, wants>>
    \/ \E d \in Devices : ResetExpander(d)

Spec == Init /\ [][Next]_vars

-----------------------------------------------------------------------------
Values == [iodir : SUBSET Bits, gppu : SUBSET Bits, olat : SUBSET Bits]
Lines == {"low", "high", "pulled up", "released"}
Change == (Register \X {"set", "clear", "toggle"}) \cup {<<"gpio", "read">>}
Call == {c \in [device : Devices, bit : Bits, register : Register \cup {"gpio"},
                change : {"set", "clear", "toggle", "read"}] : <<c.register, c.change>> \in Change}

TypeOK ==
    /\ control \subseteq Devices
    /\ m_control \subseteq Devices
    /\ transaction \in [to : {mux}, data : SUBSET Devices]
                          \cup [to : Devices \cup {none}, data : SUBSET Bits]
    /\ pc \in {"idle", "align", "aligned", "address", "data", "finish", "fatal"}
    /\ registers \in [Devices -> Values]
    /\ cache \in [Devices -> Values]
    /\ pin \in [Pins -> [device : Devices, bit : Bits, initialized : BOOLEAN] \cup {NoPin}]
    /\ todo \in Seq(Call)
    /\ wants \in [Devices -> [Bits -> Lines]]

(* The cached registers, from which every operation computes what it       *)
(* writes, are those of the chips, except during the write itself; a write *)
(* that fails leaves no trace in the cache.                                *)
CachesMatch == pc # "finish" => cache = registers

(* Between operations every line is as its pin object was last asked to    *)
(* make it, and a line without a pin object is released, over any number   *)
(* of pin objects of different classes that have the line in turn.         *)
LinesFollowPins ==
    pc = "idle" => \A d \in Devices, b \in Bits : Line(d, b) = wants[d][b]

(* No glitches: an operation changes its own line only, and changes it     *)
(* directly to what it was asked for, in whatever order it writes the      *)
(* registers.  An open-drain pin is never driven high, not even for the    *)
(* time between two writes.                                                *)
LinesDoNotGlitch ==
    [][\A d \in Devices, b \in Bits :
         Line(d, b)' # Line(d, b) => Line(d, b)' = wants'[d][b]]_vars
=============================================================================
