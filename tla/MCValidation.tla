---------------------------- MODULE MCValidation ----------------------------
(* Documents for TLC: a good object with at most two fields changed. *)
EXTENDS Validation, TLC

Good == [f \in REQUIRED_FIELDS |->
    CASE f \in {"schema_version", "producer_sequence"} -> "small"
      [] f = "metric_value" -> "real"
      [] f \in {"injected_duplicate", "injected_late"} -> "bool"
      [] f \in {"produced_at", "event_time"} -> "instant"
      [] OTHER -> "text"]

TwoChanges == {[form |-> "object", payload |-> (f :> v) @@ (g :> w) @@ Good] :
                  f \in REQUIRED_FIELDS, g \in REQUIRED_FIELDS, v \in Kinds, w \in Kinds}
Others == [form : Forms \ {"object"}, payload : {Good}]

MCDocuments == TwoChanges \cup Others
=============================================================================
