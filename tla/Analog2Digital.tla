---------------------------- MODULE Analog2Digital ----------------------------
(***************************************************************************)
(* AVRTools' analog to digital converter (lib/AVRTools/Analog2Digital.cpp) *)
(* as an ATmega2560 builds it: which pin it measures is in two registers   *)
(* and, once more, in sCurrentChannel.                                     *)
(***************************************************************************)
EXTENDS Integers

CONSTANTS
  References, \* of A2DVoltageReference
  Channels    \* channels asked for, valid or not

VARIABLES
  ADEN,             \* the converter is on
  REFS, MUX, MUX5,  \* reference; pin, in two registers
  sCurrentChannel,
  ADC,              \* the last conversion: the pin and the reference it was made with
  reference,        \* what was set last
  reading           \* what was asked and what the call returned

adcVars == <<ADEN, REFS, MUX, MUX5, sCurrentChannel, ADC, reference, reading>>

Unread == [channel |-> -1, on |-> FALSE, result |-> 0]

AdcInit ==
  /\ ADEN = FALSE /\ REFS \in References /\ MUX = 0 /\ MUX5 = 0 /\ sCurrentChannel = 0
  /\ ADC = 0 /\ reference = REFS /\ reading = Unread

InitKeepingChannel(ref) ==
  /\ ADEN' = TRUE /\ REFS' = ref /\ MUX' = 0 /\ MUX5' = 0
  /\ reference' = ref /\ reading' = Unread
  /\ UNCHANGED <<sCurrentChannel, ADC>>

InitA2D(ref) ==
  /\ ADEN' = TRUE /\ REFS' = ref /\ MUX' = 0 /\ MUX5' = 0 /\ sCurrentChannel' = 0
  /\ reference' = ref /\ reading' = Unread
  /\ UNCHANGED ADC

TurnOffA2D ==
  /\ ADEN' = FALSE /\ reading' = Unread
  /\ UNCHANGED <<REFS, MUX, MUX5, sCurrentChannel, ADC, reference>>

SetA2DVoltageReference(ref) ==
  /\ REFS' = ref /\ reference' = ref /\ reading' = Unread
  /\ UNCHANGED <<ADEN, MUX, MUX5, sCurrentChannel, ADC>>

NoChannel(channel) ==
  /\ channel < 0 \/ channel > 15
  /\ reading' = [channel |-> channel, on |-> ADEN, result |-> 0]
  /\ UNCHANGED <<ADEN, REFS, MUX, MUX5, sCurrentChannel, ADC, reference>>

\* The registers are written only for another channel than the last.  A converter that is
\* off converts nothing: the result is that of an earlier call.
ReadA2D(channel) ==
  /\ channel \in 0 .. 15
  /\ IF sCurrentChannel = channel THEN UNCHANGED <<MUX, MUX5>>
     ELSE MUX5' = channel \div 8 /\ MUX' = channel % 8
  /\ sCurrentChannel' = channel
  /\ ADC' = IF ADEN THEN [pin |-> 8 * MUX5' + MUX', reference |-> REFS] ELSE ADC
  /\ reading' = [channel |-> channel, on |-> ADEN, result |-> ADC']
  /\ UNCHANGED <<ADEN, REFS, reference>>

AdcNext ==
  \/ TurnOffA2D
  \/ \E ref \in References : InitA2D(ref) \/ SetA2DVoltageReference(ref)
  \/ \E channel \in Channels : NoChannel(channel) \/ ReadA2D(channel)

AdcSpec == AdcInit /\ [][AdcNext]_adcVars

-----------------------------------------------------------------------------
\* Every variable keeps its type.
AdcTypeOK ==
  /\ ADEN \in BOOLEAN /\ REFS \in References /\ reference \in References
  /\ MUX \in 0 .. 7 /\ MUX5 \in {0, 1} /\ sCurrentChannel \in 0 .. 15

\* However the converter was switched and its reference changed in between, what a call
\* returns while it is on was measured at the pin the call asks for, with the reference
\* set last.
ReadsAsked ==
  reading.on /\ reading.channel \in 0 .. 15 =>
    reading.result = [pin |-> reading.channel, reference |-> reference]
=============================================================================
