-------------------------- MODULE MCMonitorMemory --------------------------
(***************************************************************************)
(* Instances of MonitorMemory for TLC: nine bytes of three values, the     *)
(* UART at address 4, the reset vector at 7 and 8.                         *)
(***************************************************************************)
EXTENDS MonitorMemory

CONSTANTS here, there, short, long, gone

MCDevice == {4}
MCDisk == [f \in {here, there} \X {short, long, gone} |->
             CASE f = <<here, short>> -> <<1>>
               [] f = <<here, long>> -> <<2, 1, 2, 2>>
               [] f = <<there, short>> -> <<2, 2>>
               [] OTHER -> <<>>]
MCTooLong == {<<there, long>>}
Inside == {2, 6, 7}
ToTheEnd == {6, 8}
=============================================================================
