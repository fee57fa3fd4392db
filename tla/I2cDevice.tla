----------------------------- MODULE I2cDevice -----------------------------
(***************************************************************************)
(* The I2C device as its clients see it: open, transfers, close            *)
(* (drivers/i2c/i2c_bitbang.c), and the register reads of                  *)
(* drivers/device/bno055/bno055.c on top. The system is cooperative:       *)
(* clients may yield between calls of the device and not inside one.       *)
(* Driver clients drop a refused open and try again. Two calls disturb the *)
(* client that holds the device, and nothing in the code keeps them away:  *)
(* a refused open with mode 1 resets the bus before it returns, and        *)
(* read_reg ignores the refusal, transfers and closes. Both are modelled   *)
(* whenever a client may make them; the history variable crossed tells     *)
(* from when to when the properties have to except what they do.           *)
(***************************************************************************)
EXTENDS I2cBus

CONSTANTS
  Client,    \* tasks
  Wanted,    \* the registers a client may ask for
  Counts     \* and how many bytes in one transfer

ASSUME I2cDeviceAssumption == Wanted \subseteq Byte /\ Counts \subseteq Nat \ {0}

VARIABLES
  bus,    \* the lines and the chip
  busy,   \* data->busy; data->mutex is free between calls
  step,   \* the call each client makes next
  want,   \* the register and the count of its transaction
  got,    \* the bytes its last transaction returned
  crossed, spoilt  \* history, see Crossed

vars == <<bus, busy, step, want, got, crossed, spoilt>>

Steps == {"open", "select", "restart", "address", "read", "close"}

\* i2c_driver_init
Init ==
  /\ bus = BusIdle /\ busy = FALSE
  /\ step = [c \in Client |-> "open"]
  /\ want = [c \in Client |-> [reg |-> CHOOSE r \in Wanted : TRUE, count |-> 0]]
  /\ got = [c \in Client |-> <<>>]
  /\ crossed = {} /\ spoilt = {}

\* Nobody holds the device, both lines are released and the chip waits for a
\* START, its register pointer anywhere.
Rested ==
  /\ ~busy /\ \A c \in Client : step[c] = "open"
  /\ \E r \in Byte : bus = [BusIdle EXCEPT !.chip.reg = r]

\* crossed: the kinds of calls that have disturbed the client holding the device
\* since the bus was last at rest. spoilt: the clients whose last bytes were
\* read in such a time.
Crossed(kinds) == crossed' = IF Rested' THEN {} ELSE crossed \cup kinds
ReadBy(c, kinds) ==
  spoilt' = IF crossed \cup kinds = {} THEN spoilt \ {c} ELSE spoilt \cup {c}

\* i2c_driver_open: busy or not, it goes on to send START.
OpenBus(mode) == Start(IF mode = 1 THEN ResetBus(bus) ELSE bus)
OpenResult_IgnoresBusy(mode) == OpenBus(mode).val                   \* mutant
OpenResult(mode) == IF busy THEN -1 ELSE OpenBus(mode).val

Open(c, mode, reg, count) ==
  /\ step[c] = "open"
  /\ bus' = OpenBus(mode).bus
  /\ busy' = TRUE
  /\ IF OpenResult(mode) = 0
     THEN /\ step' = [step EXCEPT ![c] = "select"]
          /\ want' = [want EXCEPT ![c] = [reg |-> reg, count |-> count]]
     ELSE UNCHANGED <<step, want>>
  /\ Crossed(IF busy /\ mode = 1 THEN {"reset"} ELSE {})
  /\ UNCHANGED <<got, spoilt>>

\* The transfers of read_reg_buf: the register's number, a repeated start, the
\* read address, the bytes.
Transfer(c, from, to, bytes) ==
  /\ step[c] = from
  /\ bus' = Write(bus, bytes)
  /\ step' = [step EXCEPT ![c] = to]
  /\ UNCHANGED <<busy, want, got>>
  /\ Crossed({}) /\ UNCHANGED spoilt

Select(c) == Transfer(c, "select", "restart", <<2 * Address, want[c].reg>>)
RepeatStart(c) == Transfer(c, "restart", "address", <<>>)
AddressRead(c) == Transfer(c, "address", "read", <<2 * Address + 1>>)

ReadBytes(c) ==
  /\ step[c] = "read"
  /\ LET r == Read(bus, want[c].count)
     IN  bus' = r.bus /\ got' = [got EXCEPT ![c] = r.val]
  /\ step' = [step EXCEPT ![c] = "close"]
  /\ UNCHANGED <<busy, want>>
  /\ Crossed({}) /\ ReadBy(c, {})

\* i2c_driver_close: it does not ask who opened the device.
Close(c) ==
  /\ step[c] = "close"
  /\ bus' = Stop(bus)
  /\ busy' = FALSE
  /\ step' = [step EXCEPT ![c] = "open"]
  /\ UNCHANGED <<want, got>>
  /\ Crossed({}) /\ UNCHANGED spoilt

\* read_reg from open to close: in a cooperative system it is one step. It goes
\* on when its open is refused, and closes the device then too.
ReadReg(c, reg) ==
  /\ step[c] = "open"
  /\ LET addressed == Write(Write(Write(OpenBus(0).bus, <<2 * Address, reg>>), <<>>),
                            <<2 * Address + 1>>)
         r == Read(addressed, 1)
     IN  bus' = Stop(r.bus) /\ got' = [got EXCEPT ![c] = r.val]
  /\ busy' = FALSE
  /\ want' = [want EXCEPT ![c] = [reg |-> reg, count |-> 1]]
  /\ UNCHANGED step
  /\ LET kinds == IF busy THEN {"read_reg"} ELSE {}
     IN  Crossed(kinds) /\ ReadBy(c, kinds)

Next ==
  \E c \in Client :
    \/ \E mode \in {0, 1}, reg \in Wanted, count \in Counts : Open(c, mode, reg, count)
    \/ Select(c) \/ RepeatStart(c) \/ AddressRead(c) \/ ReadBytes(c) \/ Close(c)
    \/ \E reg \in Wanted : ReadReg(c, reg)

Spec == Init /\ [][Next]_vars

-----------------------------------------------------------------------------
\* One client at a time is between an open that succeeded and its close, and
\* busy is set then ("lock it for exclusive usage"): opens, resets and failed
\* STARTs of others do not take the device away, only a read_reg does. And busy
\* is set only then: a refused open leaves no claim behind, unless a call has
\* disturbed the bus.
Owned ==
  LET owners == {c \in Client : step[c] # "open"}
  IN  /\ "read_reg" \notin crossed =>
           (\A c, d \in owners : c = d) /\ (owners # {} => busy)
      /\ crossed = {} => (busy => owners # {})

\* A free device means a free bus: both lines released and the chip waiting
\* for a START. A refused open, which pulls both lines low, leaves nothing that
\* the owner's close does not undo, unless it also reset the bus.
FreeMeansIdle ==
  crossed = {} /\ ~busy =>
    bus.sda = 1 /\ bus.scl = 1 /\ bus.chip.mode = "idle" /\ bus.chip.drive = 1

\* What a client reads is the contents of the registers it asked for, whatever
\* other clients tried to open with mode 0 in the middle of its transaction:
\* their START falls between two transfers, where SCL is low, and is no START.
\* Only bytes read after a reset or a read_reg in the middle may be others.
ReadsOwnRegisters ==
  \A c \in Client : c \notin spoilt /\ got[c] # <<>> /\ step[c] \in {"open", "close"} =>
    got[c] = [k \in 1..want[c].count |-> Register[(want[c].reg + k - 1) % 2^Bits]]
=============================================================================
