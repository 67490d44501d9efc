------------------------------- MODULE MCCore -------------------------------
(* Small instance: fourteen words, one for each kind of instruction, every *)
(* word also a datum and an address.  Words 0 to 6 are RAM: 4 and 5 may   *)
(* not be written and 6 not be read before it was written.  7 is the CSR   *)
(* device's and the others belong to no device.                            *)
EXTENDS Core

Op(k, d, s, t, i) == [kind |-> k, rd |-> d, rs1 |-> s, rs2 |-> t, imm |-> i]

MCDecode == [w \in 0 .. 13 |->
  CASE w = 0  -> Op(<<"I", "ADDI">>, 1, 1, 0, 2)
    [] w = 1  -> Op(<<"S", "SW">>, 0, 1, 2, 0)
    [] w = 2  -> Op(<<"J", "JAL">>, 2, 0, 0, -2)
    [] w = 3  -> Op(<<"C", "ECALL">>, 0, 0, 0, 0)
    [] w = 4  -> Op(<<"B", "BEQ">>, 0, 1, 2, -1)
    [] w = 5  -> Op(<<"I", "LW">>, 2, 1, 0, 1)
    [] w = 6  -> Op(<<"B", "bad">>, 0, 1, 2, -1)
    [] w = 7  -> Op(<<"U", "LUI">>, 2, 0, 0, 1)
    [] w = 8  -> Op(<<"R", "ADD">>, 0, 1, 2, 0)
    [] w = 9  -> Op(<<"I", "JALR">>, 1, 2, 0, 1)
    [] w = 10 -> Op(<<"I", "bad">>, 1, 1, 0, 0)
    [] w = 11 -> Op(<<"R", "bad">>, 1, 1, 2, 0)
    [] w = 12 -> Op(<<"S", "bad">>, 1, 1, 0, 0)
    [] w = 13 -> Op(<<"Unknown", "bad">>, 0, 0, 0, 0)]

(* Every program of three instructions, then a jump back and data.         *)
MCImages == {[a \in 0 .. 6 |-> IF a < 3 THEN p[a + 1] ELSE IF a = 3 THEN 2 ELSE 7] :
               p \in (0 .. 13) \X (0 .. 13) \X (0 .. 13)}

(* As emulator_run leaves them: x1 points nowhere, x2 into RAM.            *)
MCInitRegs == [r \in 0 .. 2 |-> CASE r = 0 -> 0 [] r = 1 -> 12 [] r = 2 -> 3]
=============================================================================
