------------------------------ MODULE MCBackup ------------------------------
(* NightlyBackup with the ticks of its nights. *)
EXTENDS NightlyBackup
Ticks == {"local", "off"} \X (1..Nights)
=============================================================================
