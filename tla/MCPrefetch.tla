------------------------------- MODULE MCPrefetch -------------------------------
(* A white and a temperature lamp and three of the features.               *)
EXTENDS Prefetch

CONSTANTS bulb, spot

MCDevice == {bulb, spot}
MCdevs == <<spot, bulb>>
MCfts == <<"on", "colorTemperature", "brightness">>
MCFeatures == [d \in MCDevice |-> IF d = spot THEN {"on", "colorTemperature", "brightness"}
                                              ELSE {"on", "brightness"}]
================================================================================
