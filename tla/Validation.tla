----------------------------- MODULE Validation -----------------------------
(***************************************************************************)
(* validate_event of flink/logic.py and the side output it decides in      *)
(* ParseValidateFunction: one Kafka value becomes a typed row, or a        *)
(* dead-letter envelope with one of four categories, or an exception.      *)
(*                                                                         *)
(* A JSON value is represented by its kind: what the readers of the fields *)
(* and the columns of ClickHouse can tell apart.                           *)
(***************************************************************************)
EXTENDS Integers, Sequences

\* What json.loads makes of the value: "broken" raises JSONDecodeError, and
\* "undecodable" (an integer of over 4300 digits, too deep a nesting) raises
\* something else.
Forms == {"object", "other value", "broken", "undecodable"}

\* Numbers: "zero", "small" (to UINT16_MAX), "long" (to LONG_MAX), "huge" (negative
\* or beyond, yet within the range of a float), "overflowing" (beyond it), "real"
\* and "nonfinite".  Texts: "blank", "text", and of the texts that are ISO-8601
\* timestamps "instant" (in the range of DateTime64(3)), "local" (without an
\* offset) and "distant" (out of range).
Wholes == {"zero", "small", "long", "huge", "overflowing"}
Numbers == Wholes \cup {"real", "nonfinite"}
Texts == {"text", "instant", "local", "distant"}
Values == Numbers \cup Texts \cup {"blank", "bool", "null"}
Kinds == Values \cup {"absent"}

INVALID_JSON == "invalid_json"
MISSING_FIELD == "missing_field"
INVALID_TYPE == "invalid_type"
INVALID_TIMESTAMP == "invalid_timestamp"
ERROR_CATEGORIES == {INVALID_JSON, MISSING_FIELD, INVALID_TYPE, INVALID_TIMESTAMP}
VALID == "valid"
RAISES == "raises"

\* The order in which _build_validated_event reads the fields, and its readers.
Order ==
    << <<"schema_version", "uint16">>, <<"producer_sequence", "long">>,
       <<"metric_value", "number">>,
       <<"injected_duplicate", "flag">>, <<"injected_late", "flag">>,
       <<"producer_run_id", "string">>, <<"produced_at", "time">>,
       <<"event_id", "string">>, <<"tenant_id", "string">>,
       <<"device_id", "string">>, <<"metric_name", "string">>,
       <<"event_time", "time">>,
       <<"region", "string">>, <<"firmware", "string">> >>

REQUIRED_FIELDS == {Order[i][1] : i \in DOMAIN Order}

-----------------------------------------------------------------------------
(* The readers.                                                            *)

\* mutant: a bool is an int, as Python has it
BooleansCount(reader, v) ==
    IF reader = "uint16" THEN v \in {"small", "bool"}
                         ELSE v \in {"zero", "small", "long", "bool"}
\* _read_bounded_integer
Bounded(reader, v) ==
    IF reader = "uint16" THEN v = "small" ELSE v \in {"zero", "small", "long"}

\* _read_finite_number, where float() of too long an integer raises
Finite(v) == v \in Numbers \ {"nonfinite"}

\* _parse_timestamp
Timestamp(v) == v = "instant"

Read(reader, v) ==
    CASE reader \in {"uint16", "long"} -> IF Bounded(reader, v) THEN VALID ELSE INVALID_TYPE
      [] reader = "number" -> IF v = "overflowing" THEN RAISES
                              ELSE IF Finite(v) THEN VALID ELSE INVALID_TYPE
      [] reader = "flag" -> IF v = "bool" THEN VALID ELSE INVALID_TYPE
      [] reader = "string" -> IF v \in Texts THEN VALID ELSE INVALID_TYPE
      [] reader = "time" -> IF Timestamp(v) THEN VALID ELSE INVALID_TIMESTAMP

\* mutant: an absent field is found when it is read
MissingAreRead(payload) == {}
Missing(payload) == {f \in REQUIRED_FIELDS : payload[f] = "absent"}

\* The first field, in reading order, whose reader does not return.
FirstIssue(payload) ==
    LET outcome == [i \in DOMAIN Order |-> Read(Order[i][2], payload[Order[i][1]])]
        issues == {i \in DOMAIN Order : outcome[i] # VALID}
    IN IF issues = {} THEN VALID
       ELSE outcome[CHOOSE i \in issues : \A k \in issues : i <= k]

validate_event(raw) ==
    CASE raw.form = "broken" -> INVALID_JSON
      [] raw.form = "undecodable" -> RAISES
      [] raw.form = "other value" -> INVALID_TYPE
      [] raw.form = "object" -> IF Missing(raw.payload) # {} THEN MISSING_FIELD
                                ELSE FirstIssue(raw.payload)

-----------------------------------------------------------------------------
(* The operator.                                                           *)

CONSTANT Documents  \* bound: the Kafka values to try

ASSUME DocumentsAssumption ==
    Documents \subseteq [form : Forms, payload : [REQUIRED_FIELDS -> Kinds]]

VARIABLES
    raw,      \* the Kafka value at hand
    outcome,  \* VALID, a category, RAISES, or "none" before it is processed
    row,      \* whether a row was emitted
    envelope  \* whether an envelope was emitted
vars == <<raw, outcome, row, envelope>>

Init ==
    /\ raw \in Documents
    /\ outcome = "none" /\ row = FALSE /\ envelope = FALSE

\* process_element
ProcessElement ==
    /\ outcome = "none"
    /\ outcome' = validate_event(raw)
    /\ row' = (outcome' = VALID)
    /\ envelope' = (outcome' \in ERROR_CATEGORIES)
    /\ UNCHANGED raw

Spec == Init /\ [][ProcessElement]_vars

-----------------------------------------------------------------------------
(* Properties.                                                             *)

\* The kinds that both the Flink type of PARSED_SCHEMA and the column of
\* perfmon.telemetry_events (clickhouse/init.sql) can hold.
Fits(f) ==
    CASE f = "schema_version" -> {"small"}
      [] f = "producer_sequence" -> {"zero", "small", "long"}
      [] f = "metric_value" -> Numbers \ {"nonfinite", "overflowing"}
      [] f \in {"injected_duplicate", "injected_late"} -> {"bool"}
      [] f \in {"produced_at", "event_time"} -> {"instant"}
      [] OTHER -> Texts

Unfit == {f \in REQUIRED_FIELDS : raw.payload[f] \notin Fits(f)}

\* A row is emitted exactly for an object all of whose fields fit the table,
\* whatever combination of fields is wrong: no row that ClickHouse would refuse
\* reaches the sink, whose retries would end by failing the job over and over,
\* and no good event is dropped.
RowsFitTheTable ==
    outcome # "none" => (row <=> raw.form = "object" /\ Unfit = {})

\* The category of an envelope names a real defect of the value, and an absent
\* field takes precedence over any other defect
\* (test_missing_fields_take_precedence_over_invalid_present_values).
CategoryIsDeserved ==
    envelope =>
        /\ outcome = INVALID_JSON <=> raw.form = "broken"
        /\ outcome = MISSING_FIELD <=>
               raw.form = "object" /\ \E f \in Unfit : raw.payload[f] = "absent"
        /\ outcome = INVALID_TIMESTAMP => Unfit \cap {"produced_at", "event_time"} # {}
        /\ outcome = INVALID_TYPE =>
               \/ raw.form = "other value"
               \/ Unfit \ {"produced_at", "event_time"} # {}

\* Every Kafka value becomes a row or an envelope with one of the four bounded
\* categories (docstring of validate_event, logic.py:238).
OneOfFourCategories == outcome # "none" => row \/ envelope
=============================================================================
