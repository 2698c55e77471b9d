----------------------------- MODULE MCApplications -----------------------------
(* Instances of Applications for TLC. *)
EXTENDS Applications, TLC

\* Two applications in GetNext, and the position with and without node_info.
MCConfigured == {{"text", "telemetry"}, {"node_info", "position"}, {"text", "position"}}

\* The node has channels 0 and 1; 1 has a key of the wrong length.
MCChannels == 0 .. 1

\* The applications on a good channel, on the one with the bad key, and on one the
\* node does not have: what the position is given itself is not used.
MCAssignments ==
    {"text" :> 0 @@ "telemetry" :> 1 @@ "node_info" :> 2 @@ "position" :> 0,
     "text" :> 2 @@ "telemetry" :> 0 @@ "node_info" :> 0 @@ "position" :> 1}

\* Any of those that publish may fail to marshal its message.
MCUnmarshallable == Periodic
===============================================================================
