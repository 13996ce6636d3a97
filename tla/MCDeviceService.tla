--------------------------- MODULE MCDeviceService --------------------------
(* Instances of DeviceService for TLC.                                     *)
EXTENDS DeviceService

Four == <<"Metering", "LoadReduction", "EMS_Current_Limit", "EVSECurrentLimit">>

\* The meter of the charger has a point with the name of one of the two.
\* A first version without the points, a correction that has both in one
\* profile, and one that spreads them over two.
Corrected ==
  <<{<<"Metering", "SafeCurrent">>, <<"LoadReduction", "other">>},
    {<<"Metering", "SafeCurrent">>, <<"LoadReduction", "other">>, <<"EMS_Current_Limit", "SafeCurrent">>,
     <<"EMS_Current_Limit", "MaxReceiveTimeSec">>},
    {<<"EMS_Current_Limit", "MaxReceiveTimeSec">>, <<"EVSECurrentLimit", "SafeCurrent">>,
     <<"EVSECurrentLimit", "MaxReceiveTimeSec">>}>>
=============================================================================
