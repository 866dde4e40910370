---------------------------- MODULE MCUpnpEvents ----------------------------
(***************************************************************************)
(* Values for TLC: two of the seven services, two callback connections.    *)
(* The device puts CONTENT-LENGTH before another field.                    *)
(***************************************************************************)
EXTENDS UpnpEvents

CONSTANTS connectionManager, renderingControl

MCuris == <<connectionManager, renderingControl>>

MCDeviceHeaders == {<<"CONTENT-LENGTH", "OTHER">>}
=============================================================================
