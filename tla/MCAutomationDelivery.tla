---------------------- MODULE MCAutomationDelivery ----------------------
(* Small instances of AutomationDelivery: every version of the code        *)
(* subscribes to every event.                                              *)
EXTENDS AutomationDelivery

MCSubs == [v \in Codes |-> Events]
=============================================================================
