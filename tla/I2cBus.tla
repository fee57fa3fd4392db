------------------------------- MODULE I2cBus -------------------------------
(***************************************************************************)
(* The two-wire bus of drivers/i2c/i2c_bitbang.c, edge by edge, with one   *)
(* chip on it. The master drives latches on open-drain lines: a line is    *)
(* high when nobody pulls it low. The chip (external: a BNO055 as          *)
(* drivers/device/bno055 uses it) has a register pointer that a write sets *)
(* and every byte it sends advances. A transfer is a function from the bus *)
(* to the bus and a result. Bytes have Bits bits, 8 in the code. No chip   *)
(* has the address of ones, which I2C reserves: i2c_reset_bus sends it.    *)
(***************************************************************************)
EXTENDS Integers, Sequences

CONSTANTS
  Bits,      \* bits of a byte; an address has one less
  Address,   \* the chip's address
  Register   \* the contents of the chip's registers, from 0 on

Byte == 0..(2^Bits - 1)

ASSUME I2cBusAssumption ==
  /\ Bits \in Nat \ {0, 1} /\ Address \in 0..(2^(Bits - 1) - 2)
  /\ Register \in [Byte -> Byte]

BitOf(v, k) == (v \div 2^(Bits - 1 - k)) % 2

\* mode: what the chip takes the byte for; n: clock pulses of the byte so far.
ChipIdle == [mode |-> "idle", n |-> 0, byte |-> 0, reg |-> 0, drive |-> 1]
BusIdle == [sda |-> 1, scl |-> 1, chip |-> ChipIdle]

Sda(bus) == IF bus.sda = 1 /\ bus.chip.drive = 1 THEN 1 ELSE 0

----------------------------------------------------------------- \* the chip
ChipStart(chip) == [chip EXCEPT !.mode = "addr", !.n = 0, !.byte = 0, !.drive = 1]
ChipStop(chip) == [chip EXCEPT !.mode = "idle", !.n = 0, !.byte = 0, !.drive = 1]

\* SCL rises: a bit of the byte, then the acknowledge.
ChipRise(chip, sda) ==
  IF chip.mode = "idle" THEN chip
  ELSE [chip EXCEPT !.n = @ + 1,
          !.byte = IF chip.mode = "send"
                   THEN IF chip.n = Bits THEN sda ELSE @
                   ELSE IF chip.n < Bits THEN 2 * @ + sda ELSE @]

Mine(chip) == chip.mode # "addr" \/ chip.byte \div 2 = Address

\* The byte is over: what the next one is.
ChipNext(chip) ==
  LET send(reg) == [chip EXCEPT !.mode = "send", !.n = 0, !.byte = 0, !.reg = reg,
                                !.drive = BitOf(Register[reg], 0)]
      take(mode, reg) == [chip EXCEPT !.mode = mode, !.n = 0, !.byte = 0, !.reg = reg, !.drive = 1]
  IN  CASE chip.mode = "send" /\ chip.byte = 1 -> ChipStop(chip)
        [] chip.mode = "send" /\ chip.byte = 0 -> send((chip.reg + 1) % 2^Bits)
        [] chip.mode = "addr" /\ chip.byte % 2 = 1 -> send(chip.reg)
        [] chip.mode = "addr" /\ chip.byte % 2 = 0 -> take("reg", chip.reg)
        [] chip.mode = "reg" -> take("data", chip.byte)
        [] OTHER -> take("data", chip.reg)

\* SCL falls: the chip drives its next bit, acknowledges, or goes on.
ChipFall(chip) ==
  IF chip.mode = "idle" \/ chip.n = 0 THEN chip
  ELSE IF chip.n > Bits THEN ChipNext(chip)
  ELSE IF chip.mode = "send"
       THEN [chip EXCEPT !.drive = IF chip.n < Bits THEN BitOf(Register[chip.reg], chip.n) ELSE 1]
  ELSE IF chip.n < Bits THEN chip
  ELSE IF Mine(chip) THEN [chip EXCEPT !.drive = 0] ELSE ChipStop(chip)

--------------------------------------------------------------- \* the master
\* gpio_sda: a change while SCL is high is a START or a STOP.
SetSda(bus, val) ==
  LET moved == [bus EXCEPT !.sda = val]
  IN  IF bus.scl = 1 /\ Sda(bus) # Sda(moved)
      THEN [moved EXCEPT !.chip = IF Sda(moved) = 0 THEN ChipStart(@) ELSE ChipStop(@)]
      ELSE moved

\* gpio_scl. The chip does not stretch the clock.
SetScl(bus, val) ==
  [bus EXCEPT !.scl = val,
     !.chip = IF bus.scl = val THEN @
              ELSE IF val = 1 THEN ChipRise(@, Sda(bus)) ELSE ChipFall(@)]

Lost(bus) == [bus |-> bus, val |-> -1]
Done(bus, val) == [bus |-> bus, val |-> val]

\* i2c_start
Start(bus) ==
  IF Sda(bus) = 0 THEN Lost(bus) ELSE Done(SetScl(SetSda(bus, 0), 0), 0)

\* i2c_restart
Restart(bus) ==
  LET released == SetScl(SetSda(bus, 1), 1)
  IN  IF Sda(released) = 0 THEN Lost(released)
      ELSE Done(SetScl(SetSda(released, 0), 0), 0)

\* i2c_stop; its callers ignore the result.
Stop_LeavesLow(bus) == SetScl(SetSda(bus, 0), 1)                     \* mutant
Stop(bus) == SetSda(SetScl(SetSda(bus, 0), 1), 1)

\* i2c_write_bit: lost arbitration leaves the clock high.
WriteBit(bus, bit) ==
  LET high == SetScl(SetSda(bus, bit), 1)
  IN  IF bit = 1 /\ Sda(high) = 0 THEN Lost(high) ELSE Done(SetScl(high, 0), 0)

\* i2c_read_bit
ReadBit_LeavesHigh(bus) ==                                          \* mutant
  LET high == SetScl(SetSda(bus, 1), 1) IN Done(high, Sda(high))
ReadBit(bus) ==
  LET high == SetScl(SetSda(bus, 1), 1) IN Done(SetScl(high, 0), Sda(high))

\* i2c_write_byte: the result is the acknowledge bit.
Sent(bus, byte) ==
  LET sent[k \in 0..Bits] ==
        IF k = 0 THEN Done(bus, 0)
        ELSE IF sent[k - 1].val < 0 THEN sent[k - 1]
        ELSE WriteBit(sent[k - 1].bus, BitOf(byte, k - 1))
  IN  sent[Bits]
WriteByte(bus, byte) ==
  LET sent == Sent(bus, byte) IN IF sent.val < 0 THEN sent ELSE ReadBit(sent.bus)

\* i2c_read_byte: an unsigned char, so a lost arbitration is a byte of ones.
Received(bus) ==
  LET got[k \in 0..Bits] ==
        IF k = 0 THEN Done(bus, 0)
        ELSE LET bit == ReadBit(got[k - 1].bus)
             IN  Done(bit.bus, 2 * got[k - 1].val + bit.val)
  IN  got[Bits]
ReadByte(bus, nack) ==
  LET byte == Received(bus)
      ack == WriteBit(byte.bus, nack)
  IN  Done(ack.bus, IF ack.val < 0 THEN 2^Bits - 1 ELSE byte.val)

\* i2c_reset_bus: a clock pulse is cut short when a one is held low.
Pulsed(bus) ==
  LET pulsed[k \in 0..(Bits + 1)] ==
        IF k = 0 THEN bus ELSE WriteBit(pulsed[k - 1], 1).bus
  IN  pulsed[Bits + 1]
ResetBus(bus) == Stop(Restart(Pulsed(Start(bus).bus)).bus)

\* i2c_driver_write: it stops at a lost arbitration, not at a missing
\* acknowledge; no bytes is a repeated start.
Written(bus, bytes) ==
  LET written[k \in 0..Len(bytes)] ==
        IF k = 0 THEN Done(bus, 0)
        ELSE IF written[k - 1].val < 0 THEN written[k - 1]
        ELSE WriteByte(written[k - 1].bus, bytes[k])
  IN  written[Len(bytes)]
Write(bus, bytes) ==
  IF bytes = <<>> THEN Restart(bus).bus ELSE Written(bus, bytes).bus

\* i2c_driver_read of count > 0 bytes: all but the last are acknowledged.
Read(bus, count) ==
  LET read[k \in 0..count] ==
        IF k = 0 THEN Done(bus, <<>>)
        ELSE LET byte == ReadByte(read[k - 1].bus, IF k = count THEN 1 ELSE 0)
             IN  Done(byte.bus, Append(read[k - 1].val, byte.val))
  IN  read[count]
=============================================================================
