----------------------------- MODULE MCSettings -----------------------------
(***************************************************************************)
(* The settings with two values for each key, started from every file      *)
(* these can make up, with the ports without a section and a key there     *)
(* that nobody looks at.                                                   *)
(***************************************************************************)
EXTENDS Settings

CONSTANTS d0, d1

MCValue == {"15711", "568", "true", "false", d0, d1}
MCDefault == [k \in Key |->
  CASE k \in PortKey -> "15711" [] k = "check_updates" -> "true" [] OTHER -> d0]

Ports == {"15711", "568", Malformed, Missing}
MCInitialFile == {NoFile} \cup
  {[settings |-> [k \in Key |->
      CASE k = "server_port" -> s [] k = "client_port" -> c
        [] k = "check_updates" -> u [] OTHER -> d],
    unsectioned |-> [k \in Key |->
      CASE k = "server_port" -> ls [] k = "client_port" -> lc
        [] k = "check_updates" -> lu [] OTHER -> Missing]] :
   s \in Ports, c \in {"15711", Missing}, u \in {"true", "false", Malformed, Missing},
   d \in {d0, d1, Missing}, ls \in Ports \ {"15711"}, lc \in {"568", Missing},
   lu \in {"false", Missing}}
=============================================================================
