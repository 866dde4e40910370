--------------------------- MODULE MCSoapControl ----------------------------
(***************************************************************************)
(* Values for TLC: two methods that set parameters, one that does not, and *)
(* the state of another object that can be taken for that one's.           *)
(***************************************************************************)
EXTENDS SoapControl

MCCalls == {<<"AvTransport", "GetCurrentState">>, <<"RenderingControl", "GetMute">>,
            <<"RenderingControl", "SetVolume">>,
            <<"RenderingControl", "GetCurrentState">>}

MCDeviceHeaders == {<<"CONTENT-LENGTH", "OTHER">>}
=============================================================================
