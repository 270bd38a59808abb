--------------------------- MODULE MCWhatsAppBridge ---------------------------
(* The instance of WhatsAppBridge for TLC: two messages of an owner and a  *)
(* relative on the family's list.                                          *)
EXTENDS WhatsAppBridge

CONSTANTS relative

TwoMessages == 1..2
TwoTasks    == 1..2
MixedSays ==
  {Owner} \X {"ask", "family", "agent", "oneshot", "end", "text"}
    \cup {relative} \X {"weather", "agent"}
==============================================================================
