---------------------------- MODULE MCSerialLine ----------------------------
(***************************************************************************)
(* Both ends of the serial line, for the model checker.  A behaviour is    *)
(* one of the board (Firmware) or one of the host's parser (AVRFraming),   *)
(* as unit says; the variables of the other keep their first values.       *)
(***************************************************************************)
EXTENDS Firmware

CONSTANTS
  Payloads, Commands, MaxFaults, MaxFrames, BufferSize, None, \* of AVRFraming
  MaxInAll \* how many disturbances and changes of the pin a behaviour of the board has

VARIABLES
  unit, \* "board" or "host"
  hostLine, hostSent, frames, faults, hostDamaged, damagedLast, hostExpect, command, hostData,
  fired \* of AVRFraming

ofHost == <<hostLine, hostSent, frames, faults, hostDamaged, damagedLast, hostExpect, command,
            hostData, fired>>

Host == INSTANCE AVRFraming WITH
  line <- hostLine, sent <- hostSent, damaged <- hostDamaged, expect <- hostExpect,
  data <- hostData

ASSUME HostAssumption == Host!FramingAssumption

-----------------------------------------------------------------------------
(* Values *)

\* Queries of every kind that a host sends, on a board with one chip.
MCBytes == 0 .. 255
MCQueries ==
  {[command |-> CMB_DEVICE_IDENTIFICATION, data |-> <<>>],
   [command |-> CMB_I2C, data |-> <<64, 1, 0, 2>>],
   [command |-> CMB_I2C, data |-> <<0, 1, 1, 5>>]}

\* n bytes of which those from first to last are 0xFF, so that blocks without, with some
\* and with nothing but 0xFF occur, at the beginning and at the end: shorter than a
\* block, one that ends its block with the escape byte, and longer.
PayloadOf(n, first, last) == [k \in 1 .. n |-> IF k \in first .. last THEN 255 ELSE 65]
MCPayloads ==
  UNION {{PayloadOf(n, first, last) : first \in {1, 2, n, n + 1}, last \in {0, 1, n - 1, n}} :
         n \in {1, 2, 7, 9}}

-----------------------------------------------------------------------------
\* The board may find any chip silent.
MCInit ==
  /\ unit \in {"board", "host"}
  /\ Init /\ (unit # "board" => absent = {})
  /\ Host!Init

MCNext ==
  \/ /\ unit = "board" /\ Next /\ UNCHANGED <<unit, ofHost>>
     /\ disturbances' + changes' <= MaxInAll
  \/ unit = "host" /\ Host!Next /\ UNCHANGED <<unit, vars>>

MCSpec == MCInit /\ [][MCNext]_<<unit, vars, ofHost>>

-----------------------------------------------------------------------------
\* Every variable of both keeps its type; the parser on the host keeps within its buffer
\* and fires only packets it has a parser for.
SerialTypeOK == IF unit = "board" THEN TypeOK ELSE Host!TypeOK

\* 0xFF delimits frames and occurs nowhere else in them.
DelimitersOnly == unit = "host" => Host!DelimitersOnly

\* After one intact frame the host fires the next one exactly as it was sent.
Resynchronized == unit = "host" => Host!Resynchronized
=============================================================================
