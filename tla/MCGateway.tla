----------------------------- MODULE MCGateway -----------------------------
(***************************************************************************)
(* Instances of Gateway for TLC: which channels are used and what arrives. *)
(***************************************************************************)
EXTENDS Gateway

MqttAndTcp == {"mqtt", "tcp"}
UsbAndTcp == {"usb", "tcp"}
SomeTexts == {"get", "set", "shell", "restart", "nop", "noField"}
SomeOutputs == {"shell", "error", "noField"}
SerialTexts == {"getSerial", "setSerial", "shell"}
=============================================================================
