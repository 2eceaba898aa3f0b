---------------------------- MODULE MCV2Delivery ----------------------------
(* Three events in (ts, event_id) order; two share a ts. *)
EXTENDS V2Delivery

MCOutbox == <<[id |-> 2, ts |-> 1, zone |-> "naive", body |-> "x"],
              [id |-> 1, ts |-> 2, zone |-> "naive", body |-> "y"],
              [id |-> 3, ts |-> 2, zone |-> "naive", body |-> "x"]>>
=============================================================================
