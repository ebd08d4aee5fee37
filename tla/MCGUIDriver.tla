---------------------------- MODULE MCGUIDriver ----------------------------
(* One GUI and one connection that says nothing, for TLC. *)
EXTENDS GUIDriver

CONSTANT Probe

MCConn == {Gui, Probe}

\* A GUI started by hand that is hasty or not, and one started by the driver.
PatientModes == {<<FALSE, TRUE>>, <<FALSE, FALSE>>, <<TRUE, FALSE>>}

\* A GUI that the driver starts and that may end as soon as it has sent a message.
HastyModes == {<<TRUE, TRUE>>}
=============================================================================
