------------------------------ MODULE MCNotify ------------------------------
EXTENDS Notify

MCText == {Line("none", "idle"), Line("none", "idle") \o Line("READY", "1")}

(* Keys repeated with other values, in both orders, and lines to ignore. *)
MCRaw == {Line("READY", "1") \o Line("READY", "0") \o Line("none", "STOPPING"),
          Line("STATUS", "idle") \o Line("STOPPING", "0") \o Line("OTHER", "1")
            \o Line("STATUS", "busy") \o Line("STOPPING", "1")}
=============================================================================
