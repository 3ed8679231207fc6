# picolibrary: specification and verification

TLA+ models of [picolibrary](../src/README.md), a header-mostly C++ library for microcontrollers:
a driver and socket layer for the WIZnet W5500 network chip, a circular buffer that interrupt
handlers share with the main program, a hierarchical state machine, I/O expanders on an I2C bus,
and supporting value types.

Every definition that models code is traced to its lines in `PROJECT.json` ("map"). The paths in
this text are below `src/include/picolibrary/` unless they begin otherwise.

## 1. The system

The library has no threads and allocates no memory. Two things make it concurrent all the same:
**interrupt handlers**, which run between any two machine instructions of the main program, and
**devices**, whose registers change between any two transactions on the bus that reads them.
Errors are values (`Result`) or end the program (`trap_fatal_error()`). Socket, server and pin
objects own a piece of hardware and can be moved, so that the history of an object is the history
of several C++ variables.

| component | state | operations | interacts with | what is hard |
| --- | --- | --- | --- | --- |
| W5500 network stack (`wiznet/w5500/ip/network_stack.h`, `wiznet/w5500/ip.h`) | status of every hardware socket, the count of available ones, detached flags | initialize, allocate, deallocate, detach, make_*; port allocators | sockets (friends, by `Network_Stack_*_Key`), driver | long sequences of calls on several objects; a count and a table that must agree; ports derived from registers |
| TCP client (`wiznet/w5500/ip/tcp.h`) | life cycle state, socket id, is_transmitting | bind, connect, transmit, receive, shutdown, close, move | stack, chip | the chip changes state between two reads; SEND and its SEND_OK interrupt; 16 bit pointers that wrap around |
| TCP server (same file) | life cycle state, list of sockets and which of them are lent, round robin index | bind, listen, accept, close, move | stack, handlers | backlog allocation, fairness and completeness of the scan, closing with handlers connected |
| TCP server connection handler (same file) | life cycle state, pointer to its server, socket id, is_transmitting | transmit, receive, shutdown, close, move | server or (detached) stack | gives its socket back to whichever of the two owns it now |
| UDP socket (`wiznet/w5500/ip/udp.h`) | life cycle state, socket id, is_transmitting | bind, transmit, receive, close, move | stack, chip | as the client |
| W5500 driver (`wiznet/w5500.h`) | none | one SPI transaction per register; `read_non_atomic()` | SPI | a 16 bit register that changes between its bytes |
| interrupt (`interrupt.h`) | saved enable state | `Critical_Section_Guard` | circular buffer | nested critical sections |
| circular buffer (`circular_buffer.h`) | read and write index, size, storage | push, emplace, pop, clear, size, each also `_from_interrupt` | interrupt | `++m_size` interrupted; the order of storage, index and size |
| hierarchical state machine (`hsm.h`, `event.h`) | current state; a union of target state, superstate and initial pseudostate | execute_topmost_initial_transition, dispatch, is_in | handlers of the program | order of exits and entries between any two states, nested initial transitions |
| state machine (`state_machine.h`) | current state; a union of initial pseudostate and target | execute_initial_transition, dispatch, is_in | handlers of the program | one word for two purposes; exit before entry |
| I2C (`i2c.h`) | none | start, stop, address, read, write; ping, scan; `Bus_Control_Guard`, `Device` with register and block transfers | multiplexer aligner | a device that does not acknowledge, or that is left driving the bus |
| TCA9548A (`texas_instruments/tca9548a.h`) | cached Control register | `Caching_Driver`, `Bus_Multiplexer_Aligner` | I2C | a cache that decides whether to write at all |
| MCP23008, MCP23S08 (`microchip/mcp23x08.h`, ...) | cached registers | `Caching_Driver`; three pin classes; frames of the MCP23S08 | I2C or SPI | one register for eight pins; glitches between two writes; what a former pin leaves behind |
| SPI (`spi.h`) | none (the controller keeps a configuration) | configure, `Device_Selection_Guard`, exchange | W5500, MCP23S08, MCP3008 | devices with different clocks on one controller |
| MCP3008 (`microchip/mcp3008.h`) | none | sample | SPI | where the ten bits are in the answer |
| asynchronous serial (`asynchronous_serial.h`) | buffer, and in it the transmitter | construct, move, assign, put | streams | a stream refers to its own member by address |
| streams and formatters (`stream.h`, `format.h`, and the formatters of errors, events and addresses) | error bits | put, print, flush | devices of the program | a device that fails in the middle; digits written backwards to an array that is used again |
| debouncers (`debounce.h`) | the last samples, the debounced state | debounce | | two data structures for one function |
| fixed capacity vector (`fixed_capacity_vector.h`) | raw storage, size | construct, assign, move, push_back, pop_back, resize, erase, at | TCP server | lifetimes of elements, assignment to itself, the capacity |
| CRC (`crc.h`) | polynomial and parameters, tables | calculate, in five ways | `algorithm.h` | a preprocessed initial remainder, reflection, tables in chunks |
| PID781, GPIO, indicators, ADC, arrays, results, address values, utilities, testing | little or none | | | see `PROJECT.json` "components" for why they are left out |

What makes each component correct:

* **stack and sockets**: a hardware socket belongs to one object or is available; the count is
  exact; a socket starts clean; a port is held exactly as long as a socket uses it; connections
  survive the close of their server; accept() misses no connection and starves none. What the
  program configured stays configured.
* **data path**: bytes arrive once and in order in both directions, none after NOT_CONNECTED, which
  after the peer's FIN comes after the last byte; SEND commands do not overlap and a transmission
  ends.
* **drivers and buses**: a write changes one register and a read returns it, whatever else is on
  the bus; a 16 bit read returns a value that the register really had; a transfer leaves the bus
  free.
* **circular buffer**: a FIFO queue, wherever an interrupt comes; an answer of size() stays good
  enough; the interrupt enable state is restored.
* **state machines**: entry and exit actions nest and leave common superstates alone; the state
  that is_in() names is the one that was entered.
* **expander pins**: the caches are right, a transaction reaches its device, a line changes only
  as its own pin asks, and directly.
* **library**: a vector is a bounded sequence whose elements live exactly as long as they are in
  it; the CRC calculators agree with the division of polynomials; print() puts the text or the
  part of it before a failure; the debouncers agree with their definition.

The hazards, each at its line and with the properties that watch it, are in `PROJECT.json`.

## 2. Modules

```
W5500Sockets ------ W5500TcpClient ---.
      |------------ W5500TcpServer ----+-- W5500NetworkStack -- MCW5500NetworkStack
      '------------ W5500UdpSocket ---'            |
                                        W5500NetworkStackProofs
BufferPointers ---- W5500Stream ------ W5500StreamProofs
      |------------ W5500Datagrams --- W5500DatagramsProofs
      '------------ BufferPointersProofs (extended by both)

W5500Registers -- SPIBus .. RegisterFile    --.
W5500Configuration                            |-- MCBuses
I2CWire                                       |
W5500NonAtomicRead --------------------------'
W5500NonAtomicRead, W5500Configuration, I2CWire, SPIBus -- BusesProofs

CircularBuffer .. Fifo                      --.
FixedCapacityVector .. BoundedSequence        |
CRC     Debounce     Format -- OutputStream   |-- MCLibrary
AsynchronousSerial      StateMachine        --'
CircularBuffer, FixedCapacityVector, CRC, StateMachine, AsynchronousSerial, Debounce -- LibraryProofs

HSM -- HSMProofs
I2CBus -- MCP23008Pins -- MCMCP23008Pins
               '---------- MCP23008PinsProofs
```

A line is EXTENDS; the dots are INSTANCE (the module on the left implements the one on the right).
MCW5500NetworkStack and MCMCP23008Pins hold symmetry sets and a bound. MCBuses and MCLibrary put
together components that share no state, so that one run can check them: the variable `subject`
names the one that a behaviour is about, and the others rest in one initial state.

### The W5500 and its sockets

**W5500Sockets** is the pool: `status`, `available` and `detached` are `m_socket_status`,
`m_sockets_available_for_allocation` and `m_tcp_server_connection_handler_is_detached`; `sn_mr`,
`sn_port`, `sn_opt`, `sn_imr` and `sn_sr` are the registers that calls write (the option registers
are one value, because they are copied and reset together). `held` is not in the code: it is what
a port allocator that remembers its ports would hold, so that a port returned twice, never, or too
early shows although the provided allocators scan registers. `fault` is a failed expectation
inside the library. `ChipStep` is the chip: connections are made, dropped and closed at any
moment.

**W5500TcpClient, W5500TcpServer, W5500UdpSocket** have one action per public call. Calls do not
interleave, the library has one caller; `accept()`, which reads one socket after another, is one
step per socket (`call` holds its locals), so the chip moves between the reads. Assignments to a
variable that holds a socket close it first, as the move assignments do. The history variable
`passed` counts the accepted connections that went ahead of a waiting one. **W5500NetworkStack**
composes them and states the properties that relate objects, pool and chip.

**BufferPointers** is the arithmetic of the pointers SN_TX_WR, SN_RX_RD and those that the chip
keeps: how they wrap, how far one is ahead of another, and which cell of a buffer one names.
PointersAssumption says that the size of a buffer divides the range of the pointers and is smaller,
as 1 to 16 KiB of a 16 bit register are.

**W5500Stream** is the data path of one hardware socket, shared by `Client` and
`Server_Connection_Handler`. A call is cut wherever it reads what the chip changes (SN_SR, SN_IR,
SN_TX_FSR, SN_RX_RSR) or gives a command. The k-th byte of a stream is the number k. The socket
object is closed and the next one opened on the same hardware socket; RECYCLER says by whom the
socket was reset in between (`Network_Stack::deallocate_socket()` or
`Server::deallocate_socket()`). `not_connected` records every NOT_CONNECTED that receive() returns,
with the SN_SR that it had read: in SOCK_CLOSE_WAIT it looks at SN_RX_RSR first, in SOCK_CLOSED it
does not (wiznet/w5500/ip/tcp.h:673, 1211), and in the other states of a close it returns
WOULD_BLOCK.

**W5500Datagrams** is the data path of a UDP socket, cut in the same way. A header of eight bytes
is two cells of the buffer (source, size), a byte of data is tagged with its datagram and its
place in it. The chip answers a SEND with a datagram on the wire or with a timeout, and drops what
arrives and does not fit.

**W5500Configuration** is the rest of the network stack: initialize(), the calls that change one
field of MR and IMR by reading the register and writing it back, the getters, and the interrupt
context. `asked` is what the program configured, `unserved` the interrupts that were raised and
that it has not read; the chip raises interrupts and changes the link between any two steps.

**W5500NonAtomicRead** is the read of a register in two bytes, repeated until two reads agree,
while the chip may change the register before each byte.

### Drivers and buses

**W5500Registers** is the register map of `w5500.h`: offset, width and block of each register, the
accessors there are, and the frame of each access. Bit fields are left to the modules that use
them. **SPIBus** exchanges those frames, the ones of two MCP23S08 and those of an MCP3008, byte by
byte on one bus; a chip understands a byte only when it alone is selected and the controller is
configured for it, and otherwise the line reads as junk. What the chips make of a frame is in
their cells (`memory`). **RegisterFile** is what the drivers promise, stated without any bus:
registers that are independent, and calls that read or write one.

**I2CWire** makes a script of conditions, address bytes and data bytes out of every call of
`I2C::Device`, ping() and scan(), and lets devices with register pointers of 0, 1 or 2 bytes act
on it. A device may be missing, may answer to one operation only, and may refuse any byte.

**I2CBus** is a bus with a multiplexer: a transaction is addressed, carried out and finished, and
any device may fail to acknowledge, which is fatal. **MCP23008Pins** adds the expanders and the
pins: an operation of a pin is a list of driver calls, each of which reads a cached register,
writes the register of whatever device answers, and then the cache. `wants` is not in the code: it
is what the program asked of each line, compared with what the chips' registers make of it.

### The library

**CircularBuffer** cuts push() and pop() of the main program at each access to shared state, with
the load and the store of `++m_size` as two steps, and lets interrupt handlers, which are atomic
for the main program, run between any two steps while interrupts are enabled. **Fifo** is what it
promises.

**FixedCapacityVector** has the raw storage, cell by cell: a cell is raw, holds a value, or holds
an element that was moved from; a construction in a cell that is not raw or a destruction in one
that is makes the vector `broken`. `vector_call` is the last call with its answer.
**BoundedSequence** is what it promises, as operations on sequences.

**CRC** runs the five calculators side by side on the same message; integers are sequences of
bits, so that shifts, tables and reflection are what the code does with them. The reference,
`Divided`, is a division of polynomials in one piece. **Format** is what the formatters put, run
by run, from arrays that are filled backwards and used again; **OutputStream** is `print()` and
the error bits, with a device that may refuse any character. The reference, `Written`, finds
digits by their position. **Debounce** feeds both debouncers the same samples; the reference is
over the history of samples.

**AsynchronousSerial** keeps for every stream the buffer that it refers to and the transmitter in
its buffer; `meant` is the transmitter that the program handed over. **StateMachine** is the flat
state machine, one step per call of a handler, with any answer a handler can give.

**HSM** takes any tree of states; one step is one call of a handler or one decision between calls.
The order of the calls in a transition (`Transition`) follows transition_from() and `Path`; the
union is overwritten where handlers defer.

## 3. Runs

| run | instance | question | states |
| --- | --- | --- | --- |
| stack | 2 hardware sockets, 2 client, 2 UDP, 2 handler variables, 1 server, 1 port | sharing, leaks, counts, leftovers, ports | 553 000 |
| stack_servers | 2 sockets and 2 servers or 3 sockets and 1 server, 2 handlers, 2 ports | close, make again, move, detach; the scan of accept() | 1 567 000 |
| stack_moved_server | 2 sockets, 2 servers, 1 handler | *violation*: a server is moved under its handler | |
| stream | buffers of 2, pointers modulo 4, 4 bytes out, 3 in, 2 connections | the data path of a client | 417 000 |
| stream_handler | 2 bytes out, 1 in, 2 connections | *violation*: SEND_OK of the last connection | |
| datagrams | buffers of 4, pointers modulo 8, 2 datagrams out, 2 in, of 1 or 2 bytes, 2 endpoints, 2 socket objects | the data path of a UDP socket | 1 746 000 |
| hsm | every tree of 4 states | transitions, dispatch, is_in | 100 000 |
| hsm_is_in | every tree of 2 states | *violation*: is_in() of the current state | |
| expander_pins | 2 expanders, 2 bits, 4 pins of 3 classes | caches, alignment, glitches | 1 269 000 |
| buses | all registers, 2 W5500 sockets and 2 calls on SPI; bytes of 3 values for a growing 16 bit register; 3 devices, 5 addresses, blocks of 1 and 2 and 2 calls on I2C; 2 interrupts | registers through frames, 16 bit reads, transfers, configuration | 720 000 |
| library | buffer of 4, vectors of 3, CRC of 4 and 8 bits, integers of 8 digits, 3 streams, 3 samples, 3 states | refinement of a FIFO queue and of bounded sequences, reference definitions | 180 000 |
| serial_moved | 3 streams, 2 transmitters | *violation*: a stream is constructed by a move | |

What the properties say, where the name does not:

* stack: *OneOwnerPerSocket* includes that `available` counts exactly the sockets nobody owns;
  *PortsBalance* that `held` are the ports of the sockets in use, each held once, and none twice
  by two objects; *ObjectsMatchChip* that an object's life cycle state and its socket's registers
  agree.
* stack_servers: *HandlersMatchServers* that a handler's server has lent the handler's socket, to
  nobody else, and that no expectation fails; *AcceptFindsWaiting* that a scan which returns
  nothing has passed by no connection that waited all the time; *AcceptIsFair* that a waiting
  connection is overtaken by fewer connections than the server has sockets;
  *ConnectionsOutliveServer* that close() of a server leaves the connections it lent.
* stream: *WireIsPrefix* and *DeliveredAsArrived* that each direction is a prefix of what was
  given to it; DeliveredAsArrived also that receive() gives no byte after it has returned
  NOT_CONNECTED, and that what it returns so in SOCK_CLOSE_WAIT comes after all of the data. It does
  not say that of SOCK_CLOSED: when a connection ends by a reset or a timeout, or by the program's
  own shutdown(), receive() returns NOT_CONNECTED although bytes may be unread in the chip, and they
  are lost. The documentation does not promise them: NOT_CONNECTED means that the socket is not
  connected, and the sequence that begins with shutdown() is for a socket "that has finished sending
  and receiving data" (ip/tcp.h:209). *IsTransmittingIsTrue*, here and in datagrams, is about programs that clear
  SEND_OK or TIMEOUT only when they have found it set (section 6).
* buses: *IsRegisterFile* is an action property: every step is one of RegisterFile, or none.

Why the bounds are enough:

* *Sockets*: two objects compete for one socket, one object waits for another's release, and a
  backlog takes one socket more than the server has; three sockets are needed only where the round
  robin must be able to skip a socket between two others, and there one server has them all
  (OneServerOfThree). One port in `stack` makes every bind a conflict or a reuse. MEMORY and
  BufferSizes give one or two sockets in stack, and two or three in stack_servers.
* *Stream*: the pointers wrap around (POINTERS = 4) after two buffers, the place in the buffer
  after one; four bytes make both happen in a connection, and a second connection starts at any
  pointer. MaxTransmitted, MaxArrived and MaxConnections are the only bounds on behaviour.
* *Datagrams*: a buffer holds one datagram of two bytes with its header, or one of one byte with a
  cell to spare, so that headers and data lie across its end; reads with room for one byte of two
  truncate. Two datagrams per socket object and direction show whether one spoils the next; the
  second socket object starts at any pointer and with whatever interrupt flag the first one had.
  DataSizes, MaxTransmitted, MaxArrived and MaxSockets are bounds on behaviour.
* *NonAtomicRead*: three values of a byte have a carry, a value between two others, and a return
  to an old low byte with a new high byte.
* *SPIBus*: every register of every chip is there, with two W5500 sockets, one of which has a
  number that is more than one bit, and a buffer offset with two different bytes. The bytes of a
  pattern are different, so that a wrong order shows. Two calls (MaxCalls), the first of which may
  be a write and to another chip, are what it takes to disturb a register and see it.
* *I2CWire*: one device for each width of the register pointer, registers that differ in either
  byte of their address, one address that nobody has, blocks of one and two; two calls
  (MaxTransfers), so that the second one meets what the first one left.
* *W5500Configuration*: two interrupts and two fields of MR: one to change and one to disturb. Its
  state space is finite without a bound.
* *CircularBuffer*: at capacity 4 the indices wrap around with 0 to 4 elements in any position;
  two values tell a swapped or repeated element apart. The state space is finite without any
  bound.
* *FixedCapacityVector*: capacity 3 has a first, a middle and a last element to erase; argument
  sequences and sizes go one past the capacity. Two vectors, and their assignment to themselves,
  are all that a call relates. It has no bound.
* *CRC*: bytes of 4 bits in nibbles of 2, registers of one byte and of two, all reflections,
  asymmetric polynomials, messages of 0 to 2 bytes (MaxBytes). *Format*: every integer of eight
  digits in every base; dumps with no row, a row that is short, a full one and rows after a longer
  one. *Debounce*: three samples, so that the ring of the one wraps around and the integer of the
  other has digits to spare; MaxSamples = 6 is two rounds.
* *Serial, StateMachine*: a stream to move from, one to move to, and one that must not notice;
  three states for a source, a target and a former state. Neither has a bound.
* *HSM*: four states have every shape that transition_from() distinguishes: source above, below,
  equal to the current state; target above, below, equal to or beside the source; and a common
  superstate.
* *Pins*: two expanders with one address make a wrong alignment visible, two bits a disturbed
  neighbour; two open-drain variables allow moves, and one of each other class lets classes
  succeed each other on a line.

**Symmetry** is used where the members of a set are interchangeable in specification and
properties: clients, UDP sockets, handlers and ports in stack; handlers, servers and ports in
stack_servers; devices, bits and open-drain pins in expander_pins. Socket ids are numbers that the
code orders, so they are never symmetric. Runs with liveness properties use no symmetry.
`handler.server` has an initial value that breaks no symmetry because Init allows each.

**Deadlock** is checked in stack, stack_servers, hsm, hsm_is_in and serial_moved. It is not in
stream, datagrams, buses and library (after the last call, byte, connection or sample that a bound
allows nothing happens, and in the last two a failed expectation ends the program), nor in
expander_pins (a device that does not acknowledge ends the program), nor in the violation runs of
models that stop at a fault or a bound.

**Fairness.** buses: the driver does not stop inside a 16 bit read (WF of ReadHigh and ReadLow);
nothing is assumed of the chip except that the register only grows while no command is given, and
the register is bounded. hsm: a handler that is called returns (WF of HandlerStep); no event need
ever be dispatched. stream: calls run to their end and the chip sends, completes and acknowledges
(WF); the program keeps calling transmit() (SF of `SomeTransmit`: the API is non-blocking and
reports WOULD_BLOCK, so a program that wants to send polls; strong, because the call is possible
only between other calls). datagrams: the same, with a chip that sends a datagram or gives it up
(WF of their disjunction: neither outcome is promised). The other runs state no fairness and no
liveness.

## 4. Where code and documentation disagree

1. `is_in( state )` is false for the current state itself; its documentation says it is true of
   the currently active state or one of its superstates. `Path::discover()` never compares `begin`
   with `end`, which transition_from(), its other caller, relies on. Run hsm_is_in; run hsm checks
   that the rest of the promise holds (ActiveStatesAreEntered).
2. `Server::deallocate_socket()` does not clear SN_IR, as `Network_Stack::deallocate_socket()`
   does. A SEND_OK left by one connection makes the next handler on that hardware socket, during
   its first SEND, report is_transmitting() false, and transmit() start another SEND on top of it.
   Run stream_handler; run stream shows that a client is not affected.
3. Moving a server that has handlers leaves them with a pointer to the moved-from object; close()
   of such a handler fails the expectation in `Server::deallocate_socket()`. Run
   stack_moved_server. The passing runs exclude these moves (MoveWithHandlers = FALSE).
4. The move constructor of `Asynchronous_Serial::Reliable_Unbuffered_Output_Stream` sets the new
   stream's buffer but does not move `m_buffer` into it, as the move assignment does: the
   transmitter stays behind, and what the new stream puts goes to a default constructed one. Run
   serial_moved; run library checks that the streams still keep to buffers of their own
   (BuffersAreOwn).

## 5. Proofs

Checked by TLAPS for every value of the constants that the named ASSUMEs admit: any number of
sockets, servers, pins, any size of buffers and pointers. Every inductive invariant was checked by
TLC on the instance of the run before it was proved. Each module states its invariant as a
conjunction of named parts, shows that Init establishes it and, action by action, that a step
keeps it, and derives the properties of the runs from it.

**W5500NetworkStackProofs** are about W5500NetworkStack, for any sockets, objects and ports. All its
theorems have the hypothesis ~MoveWithHandlers, which is what finding 3 is about: a program that
moves a server under its handlers breaks HandlersMatchServers, as run stack_moved_server shows.

* *OwnersInv* says of every object which sockets it may rely on: those of a client, of a UDP socket
  (ClientsOwn, UdpSocketsOwn), of a server with its list (ServersOwn, ServerLists) and of a handler,
  attached or detached (HandlersOwn), are its own; what a server has lent is in use by its handlers
  (LentAreUsed), every allocated socket has an owner (AllocatedAreOwned), the number that the stack
  keeps is the number of free sockets (Pool, with the counting lemmas of FiniteSetTheorems), and a
  call that is under way keeps what it has read (CallInProgress). OneOwnerPerSocket alone is not
  inductive: it does not say that a lent socket stays in its server's list, on which close() of
  server and handler rely.
* *RegistersInv* adds to every owner the registers that its socket has, and to every port the
  sockets that use it. FreeSocketsAreReset, PortsBalance and ObjectsMatchChip follow, and from the
  same invariant the action property ConnectionsOutliveServer: every step of close() of a server
  leaves alone the sockets that it has lent.
* *AcceptInv* is about the scan of accept(). ScanFinds: what waited when the scan began still waits,
  and is none of the sockets that the scan has looked at. TurnsInv: only waiting connections are
  passed (WaitingWhenPassed), and the times that one has been passed plus the steps that it lies
  ahead of the round robin index are less than the length of the list (PassedInTurn).
  AcceptFindsWaiting and AcceptIsFair follow, for lists of any length.

**BufferPointersProofs** are the lemmas about pointers that wrap (sums, distances, places), stated
once: nonlinear facts about `%` that the solver finds only in small steps.

**W5500StreamProofs** (StreamIsInvariant, WireGetsWhatWasAccepted, ProgramGetsWhatArrived,
TransmissionsAreTold). The pointers wrap, so no pointer says where in the stream it is. StreamInv
gives every pointer its position by its distance from SN_TX_WR or SN_RX_WR, none of them more than
the size of the buffer, and says of every cell between two pointers that it holds the byte of its
position (MemoryInv, ArrivedInv). CommandInv says that only the driver lets the distance of the
transmit pointers grow, so that what a call has read of SN_TX_FSR still fits when it writes; FinInv
that nothing is left to read once a call has returned NOT_CONNECTED in SOCK_CLOSE_WAIT, and that
once one has returned it in SOCK_CLOSED no call is about to read. TransmissionsAreTold
has an invariant of its own (SendOkInv) and the hypothesis RECYCLER = "Network_Stack": for sockets
that a server recycles the property is false (finding 2), and run stream_handler shows it. The other
theorems hold for both.

**W5500DatagramsProofs** (DatagramsAreInvariant, DatagramsAreSentWhole, ProgramGetsDatagrams,
TransmissionsAreTold). What lies behind SN_RX_RD is a row of frames, each at its position, one for
each datagram that arrived and was not read, header and data (LayoutInv); what lies before SN_TX_WR
is at most the one datagram that transmit() wrote, and the chip sends it before another is written
(TransmitInv). ReceivedAsArrived follows from the frame at SN_RX_RD (ReceiveInv), also for reads
that truncate.

**HSMProofs** (TypeCorrect, TransitionsLeadToTheirTargets, CallsNestAlways,
ActiveStatesAreEnteredAlways, CommonSuperstatesStayAlways) hold for any states, any hierarchy of
them and any depth; StatesAssumption and DepthAssumption only say that top and null are no states
and that there is a depth.

* A hierarchy is a tree: what holds of top, and of each state of whose superstate it holds, holds of
  all states (IsTree). So the recursive function `Superstates` exists and gives every state a chain
  that ends at top, and from each of its places on a chain is the chain of that place
  (ChainsEndAlike). What a chain has twice it would have forever, so a chain repeats nothing.
* Whatever the ends of a transition are, the calls that Transition() plans are the exits of the
  first m states of one chain followed by the entries, outermost first, of the first n of another
  (Plan), and they meet there: what is above the m is above the n (Leads). TransitionIsPlan shows
  this for all that transition_from() distinguishes: target and source the same, one above the
  other, and neither, where the two paths are compared from their ends.
* HSMInv keeps it while the calls are made: the states entered are a place and all that is above it,
  and the calls that are left lead from there to the target (CallsInv); between transitions they are
  the current state and its superstates (CurrentInv), and dispatch() and a transition only look at
  active states (DispatchInv, SourceInv). CallsNest alone is not inductive: it says nothing of the
  calls to come. CommonSuperstatesStay follows from what Leads says of the states that both
  ends have: they are above the place where the chains meet (Stays).
* The library's induction theorems take an operator, which no installed prover can instantiate.
  WFMin takes a set, and with it every nonempty set of naturals has a least element (Smallest);
  induction over the hierarchy, the chains and the paths is induction over sets of naturals.

**MCP23008PinsProofs** (TypeCorrect, TargetAnswers, CachesAreRight; LinesAreInvariant,
LinesAreAsAsked, LinesChangeDirectly) for any sets of expanders, bits and pins. The cache of the
multiplexer equals its register in every state (ControlInv); the caches of the expanders equal
theirs except between a write and the assignment to the cache, when they are one assignment behind
(CacheInv); and a transaction is either the alignment to the device of the call in progress or goes
to that device with no other channel enabled (CallInv). A NACK ends the program before the cache is
written, which is why a failed write cannot enter it. For the lines, LinesInv computes what the
calls that are left will make of every bit: what they make of a line in the end is what was asked
of it and has the form its pin object's class expects (SettledInv: an open-drain pin relies on an
output latch that is 0, and every class on a pull-up that its predecessor has left off), and every
single call leaves the line alone or makes it that (DirectInv). ClassesAssumption says that an
object has one class.

**BusesProofs** are four independent parts.

* *ReadTypeCorrect, ReadIsSound* (W5500NonAtomicRead): assumes only that a byte has a value and
  that None is not a register value. The high bytes at the four moments at which two successive
  reads look at the register are in ascending order; when the reads agree, first and third are
  equal, so is the second, and the first read was the register's value at its low byte. The
  inductive invariant keeps the register at the last high byte (LowInv) and at the low byte of
  `previous` (PreviousInv), and that `seen` has every value since the call (SeenInv).
  ResultWasSeen is an action property, hence the history variables.
* *ConfigurationIsKept* (W5500Configuration): every register holds what was asked for, or the
  read-modify-write in progress is about to write that (UpdateInv, AskedInv).
* *BusIsGivenBack* (I2CWire): in what is left of a script a step after which a device drives SDA (an
  address for reading, a read with ACK) is followed by a read; the scripts of pings have no such
  step, and ping() inserts the read where a device has acknowledged to be read (ScriptInv). Hence a
  device that drives SDA is read next (DrivingInv).
* *TransfersAreWhole* (I2CWire), for devices at different addresses, each with any registers and a
  register pointer of zero, one or two bytes (without one it has a single register), and for any
  block sizes: what is left of the script is the rest of the call's script (IsRest), and its length
  says how far the call is. For a read or write that is what the device has received since it was
  addressed, where its pointer is, and which registers have been read into the buffer (ReadCallInv)
  or written (WriteCallInv); for ping() and scan(), which of the addresses have been asked and what
  they have answered (PingsInv). StepsOfRead and StepsOfWrite say what the concatenations that make
  up a script have at each place. A call whose script is used up has therefore moved the whole
  block, and no register outside it has changed.
* *RegistersAreIndependent* (SPIBus): the bus implements RegisterFile, for any of the eight sockets,
  any bytes and noise, and any places in the buffers that do not overlap (SpiAssumption). The tables
  of the driver put their registers side by side (CommonTable, SocketTable, each joined from the
  tables of the structs), and the block that a header names tells a common register from one of a
  socket and from a buffer (BlocksTell): no two registers share a cell (CellsAreDisjoint). Whatever
  the shape of its frame, the chip takes from the header the place of the register that the driver
  means (FrameFits, HeaderFits, SampleFrameIs). The invariant says how far the call has come: the
  controller suits the one selected chip (BusInv), the chip has received the frame up to here
  (FrameInv), every byte after the header was read from or written to its cell (CellInv), and the
  bits of a sample are where sample() looks for them (SampleInv). A call whose frame is complete has
  therefore read or written the whole register (CallIsDone), and no other one (OthersStay).

**LibraryProofs** are six independent parts.

* *BufferTypeCorrect, CellsMatch, AnswerStays, GuardIsTransparent* (CircularBuffer) for any
  capacity. CellsMatchSize is not inductive: nothing in it says that interrupts cannot change
  m_size between its load and its store, or where the write index is. The strengthening adds who
  may do what (RoleInv), that interrupts are off between guard and restore (GuardInv), that the
  main program's remaining calls are covered by m_size (CreditInv, which gives AnswerStaysGood),
  that the loaded size is current (LoadedInv), and that the write index is where the cells in use
  end (IndexInv).
* *ImplementsFifo*: the buffer implements Fifo, for any capacity, any values and each use case. The
  queue that the buffer stands for has an element from the step at which m_size counts it
  (`StoreSize` of a push, `PushFromInterrupt`) to the step at which it is destroyed (`Destroy`,
  `PopFromInterrupt`, `ClearFromInterrupt`); those five are steps of Fifo, and all others leave it
  alone (QuietSteps). IInv says that the cells of the queue hold values (ElementsInv), and that a
  push writes another cell; ValueInv, that a pop of the main program destroys the value that it
  has taken, which holds although interrupts may push between the two.
* *AnswersAreThoseSampled* (Debounce) for any number of samples: the integer of the one debouncer
  is the last samples, with the last one at its end (ShiftedInv), the ring of the other the same
  samples with the last one before m_samples_i (RingInv), and both answers are the signal at the
  last sample at which it had been the same for SAMPLES samples (AnswersInv).
* *OneStateEntered* (StateMachine) for any set of states and any answers of the handlers.
  OneStateIsEntered needs that the word shared by initial pseudostate and target holds a state
  whenever enter() reads it (TargetInv), that only a machine with a current state exits one
  (SourceInv), and that between exit and entry no state is entered (EnteredInv).
* *BuffersStayOwn* (AsynchronousSerial) for any number of streams and transmitters: BuffersAreOwn
  is inductive once the functions have their types. That it holds in spite of finding 4 is the
  point: the move constructor loses the transmitter, it does not share it.
* *LifetimesHoldAlways, BoundedSequenceImplemented* (FixedCapacityVector) for any vectors, elements
  and capacity, the capacity 0 among them; VectorAssumption says that a raw cell can be told from an
  element. The fold by which a loop over the storage is written is a recursive function over sets
  of indices: FoldExists constructs it, by induction over the number of cells, and FoldSteps
  computes it once a row of intermediate values is given. With these, DestroyEachIs,
  ConstructEachIs, FillEachIs and MoveDownEachIs say what each of the four loops leaves in the
  storage, and that no construction meets an element and no destruction a raw cell. The invariant
  is that each vector holds a sequence: its elements in the first cells, raw cells behind them,
  nothing broken (HoldsSequence). Every call turns that vector into the one that holds the sequence
  of BoundedSequence (FilledIs, ShrunkIs, ErasedIs, MovedIs, ...), an assignment to itself leaves
  it, and a call that would need more room only stops the program.
* *ChecksAreThoseOfTheDivision* (CRC) for any polynomials and initial remainders of registers of any
  number of bytes (PolynomialsAssumption, RemaindersAssumption; the code's registers are unsigned
  integers of whole bytes), bytes of any two nibbles (DigitsAssumption), all reflections and any
  message. BitSteps is the loop of the calculator that works bit by bit. Its register is what is
  left of the dividend when its first bits are divided away: the k-th subtraction of the division
  and the k-th step of the loop see the same bits (SubtractedUnder, DividedIs). The steps are linear
  in the register and the bits together (BitStepsAreLinear), so that a table indexed by the highest
  bits of the register does as many steps at once as a chunk has bits (AugmentedStepIs), and a
  calculator that adds a chunk at the top of its register instead of shifting it in is ahead of the
  others by a register of zeros (DirectStaysAhead, which is what preprocess_initial_remainder()
  makes of the first remainder). reflect() shifts only until the highest bit that is set has come
  out, and is yet the reversal of any value (ReflectIs). The inductive invariant says of all five
  registers at once what they are after the bytes of the message (RemainderInv). Each loop is a
  row of intermediate values, constructed by FoldExists as for the vector (BitStepsRow,
  AugmentedStepsRow, SubtractionsRow, ...), and two loops agree when their rows do (RowsAgree).

The inductive invariants include the type invariants. GuardRestores of CircularBuffer and the type
invariants are proved where they are listed and need no run.

Only model-checked:

* liveness (CallReturns, CallsReturn, TransmissionEnds of both data paths), which needs ENABLED;
* PrintsTheText, which relates what formatters put, byte by byte and up to an error of the stream, to
  the text that they mean. Its text of a number is a recursion over the value (Decimal), so that the
  proof would be an induction over data for each kind of formatter.

## 6. Not modelled

* Members that do not compile when they are used, so that they have no behaviour: insert(),
  emplace() and erase() of a range of `Fixed_Capacity_Vector` (`--end()` of a pointer that is not
  an lvalue, `begin()` of a parameter named `begin`, fixed_capacity_vector.h:809, 1208), and the
  move assignment of the W5500 `Network_Stack` (a member that does not exist,
  wiznet/w5500/ip/network_stack.h:150).
* A program that gives clear_interrupts() a SEND_OK, or for UDP a TIMEOUT, which it has not just
  found set, but before its last transmit() (wiznet/w5500/ip/tcp.h:354, 991; udp.h:331): the socket
  takes its transmission for ended while the chip still works on it. Nothing documents such a call
  as wrong or right. What is checked and proved of the data paths is about programs that do not
  make it (the guard of ClearInterrupts, which the code does not have).
* Hierarchies of more than eight states on a path (hsm.h:666), and queries of a hierarchy by a
  handler that has already asked for a transition (hsm.h:704: target and superstate share a word).
* Reads of empty blocks (i2c.h:735), which address a device for reading and stop without a NACK:
  excluded by BlockSizesAssumption.
* The interrupt registers of the expanders as cached registers: no code of the library combines
  them. SPIBus has them as registers.
* An unresponsive or lying chip: the expectations that blame the device
  (NONRESPONSIVE_DEVICE_ERROR, `wait for SN_CR = 0`) are taken to hold.
* The error bits of a serial stream after its move assignment, which the code does not assign.
* PID781 (a stateless encoder), GPIO and indicators, ADC (no state), the array, and the testing
  facilities.
* A server that is destroyed without close() does what close() does; a handler that survives the
  network stack is outside the contract of the library.

## 7. Plan

Done: the modules above, in the order pool, sockets, stack; data paths; driver read; circular
buffer; state machines; pins; buses; library. Proofs of every safety property that a run checks,
but PrintsTheText.

Next:

1. PrintsTheText for the formatters without recursion (binary, hexadecimal and dumps), from
   FoldExists, as for the loops of the vector and of the CRC calculators.
