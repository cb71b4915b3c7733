------------------------------- MODULE I2cBus -------------------------------
(***************************************************************************)
(* components/codec/utility/i2c_bus.c: the one I2C port that both codec    *)
(* chips hang on.  i2c_bus is the static pointer of the port: "null",      *)
(* "live", or "freed" when the creation failed: its memory is given back   *)
(* and the pointer kept, so that the next creation finds a bus.            *)
(* driver tells whether ESP-IDF has one for the port.                      *)
(*                                                                         *)
(* All transactions are issued by one task at a time (the main task at     *)
(* boot, then the command task), so that the lock never blocks and is left *)
(* out.  A chip is a function from its registers to their contents.        *)
(***************************************************************************)
VARIABLES i2c_bus, driver

busVars == <<i2c_bus, driver>>

BusTypeOK == i2c_bus \in {"null", "live", "freed"} /\ driver \in {"none", "installed"}

Installed == driver = "installed"

\* Memory and drivers after a reset of the ESP32.
BusDown == i2c_bus = "null" /\ driver = "none"

-----------------------------------------------------------------------------
\* i2c_bus_create: a pointer that is not NULL is returned as it is ...
BusFound == i2c_bus # "null" /\ UNCHANGED busVars

\* ... otherwise the port is configured and its driver installed ...
BusCreated == i2c_bus = "null" /\ i2c_bus' = "live" /\ driver' = "installed"

\* ... and if one of the two fails, the memory is freed and NULL returned.
BusFails == i2c_bus = "null" /\ i2c_bus' = "freed" /\ driver' = "none"

-----------------------------------------------------------------------------
\* Broken variant for testing DeadBusRefuses: the result of
\* i2c_master_cmd_begin is not part of the result.
WriteAckedUnseen(chip, chipNext, write) ==
    IF Installed THEN chipNext = [chip EXCEPT ![write[1]] = write[2]]
    ELSE chipNext = chip

\* i2c_bus_write_bytes: write = <<register, value>> reached the chip.
WriteAcked(chip, chipNext, write) ==
    /\ Installed
    /\ chipNext = [chip EXCEPT ![write[1]] = write[2]]

\* It returns an error.  Without a driver nothing was sent; otherwise the
\* chip may or may not have taken the value.
WriteFails(chip, chipNext, write) ==
    IF Installed
    THEN chipNext \in {chip, [chip EXCEPT ![write[1]] = write[2]]}
    ELSE chipNext = chip

=============================================================================
