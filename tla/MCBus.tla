------------------------------- MODULE MCBus -------------------------------
(* emulator_run for each core: two argument strings and six pushes.        *)
EXTENDS Bus

MCSetupOps == <<"write_multiple", "write_multiple", "write_single", "write_single",
                "write_single", "write_single", "write_single", "write_single">>

(* The same for two cores: the last operation of each kind.                *)
MCShortSetupOps == <<"write_multiple", "write_single">>
=============================================================================
