------------------------------ MODULE MCI2cBus ------------------------------
(* Messages too long for the slave, that are answered, and to all slaves. *)
EXTENDS I2cBus

MCRequests ==
  {[address |-> 1, tx |-> <<3, 4, 5, 6>>, rx |-> 0],
   [address |-> 1, tx |-> <<6>>, rx |-> 2], [address |-> 1, tx |-> <<>>, rx |-> 1],
   [address |-> 0, tx |-> <<7, 8>>, rx |-> 0]}
MCAnswers == {<<>>, <<9, 9, 9>>}
=============================================================================
