-------------------------- MODULE ValidationProofs --------------------------
(***************************************************************************)
(* Proofs about Validation, for every combination of the kinds of all      *)
(* fields, where the runs try at most two wrong fields at a time.          *)
(***************************************************************************)
EXTENDS Validation, WellFoundedInduction, TLAPS

TimeFields == {"produced_at", "event_time"}

\* The readers, by field.
LEMMA OrderProperty ==
    /\ DOMAIN Order = 1 .. 14
    /\ \A i \in 1 .. 14 :
          \/ Order[i] = <<"schema_version", "uint16">>
          \/ Order[i] = <<"producer_sequence", "long">>
          \/ Order[i] = <<"metric_value", "number">>
          \/ /\ Order[i][1] \in {"injected_duplicate", "injected_late"}
             /\ Order[i][2] = "flag"
          \/ Order[i][1] \in TimeFields /\ Order[i][2] = "time"
          \/ /\ Order[i][1] \in {"producer_run_id", "event_id", "tenant_id", "device_id",
                                 "metric_name", "region", "firmware"}
             /\ Order[i][2] = "string"
BY DEF Order, TimeFields

\* A reader returns exactly for the values that fit, and otherwise it reports a
\* wrong timestamp for the two times and a wrong type for the other fields.
LEMMA ReadProperty ==
    ASSUME NEW i \in 1 .. 14, NEW v \in Kinds
    PROVE  /\ Read(Order[i][2], v) = VALID <=> v \in Fits(Order[i][1])
           /\ Read(Order[i][2], v) \in {VALID, RAISES, INVALID_TYPE, INVALID_TIMESTAMP}
           /\ Read(Order[i][2], v) = INVALID_TIMESTAMP => Order[i][1] \in TimeFields
           /\ Read(Order[i][2], v) = INVALID_TYPE => Order[i][1] \notin TimeFields
<1> USE DEF Read, Bounded, Finite, Timestamp, Fits, VALID, RAISES, INVALID_TYPE,
            INVALID_TIMESTAMP, Kinds, Values, Numbers, Wholes, Texts, TimeFields
<1>1. CASE Order[i] = <<"schema_version", "uint16">>
  BY <1>1
<1>2. CASE Order[i] = <<"producer_sequence", "long">>
  BY <1>2
<1>3. CASE Order[i] = <<"metric_value", "number">>
  BY <1>3
<1>4. CASE /\ Order[i][1] \in {"injected_duplicate", "injected_late"}
           /\ Order[i][2] = "flag"
  BY <1>4
<1>5. CASE Order[i][1] \in TimeFields /\ Order[i][2] = "time"
  BY <1>5
<1>6. CASE /\ Order[i][1] \in {"producer_run_id", "event_id", "tenant_id", "device_id",
                               "metric_name", "region", "firmware"}
           /\ Order[i][2] = "string"
  BY <1>6
<1> QED
  BY <1>1, <1>2, <1>3, <1>4, <1>5, <1>6, OrderProperty

LEMMA RequiredFields ==
    \A f : f \in REQUIRED_FIELDS <=> \E i \in 1 .. 14 : Order[i][1] = f
BY OrderProperty DEF REQUIRED_FIELDS

\* What the object loses is what the first wrong field loses.
LEMMA FirstIssueProperty ==
    ASSUME NEW payload \in [REQUIRED_FIELDS -> Kinds]
    PROVE  /\ FirstIssue(payload) = VALID
                 <=> \A f \in REQUIRED_FIELDS : payload[f] \in Fits(f)
           /\ FirstIssue(payload) \in {VALID, RAISES, INVALID_TYPE, INVALID_TIMESTAMP}
           /\ FirstIssue(payload) = INVALID_TIMESTAMP =>
                 \E f \in REQUIRED_FIELDS \cap TimeFields : payload[f] \notin Fits(f)
           /\ FirstIssue(payload) = INVALID_TYPE =>
                 \E f \in REQUIRED_FIELDS \ TimeFields : payload[f] \notin Fits(f)
<1> DEFINE out == [i \in DOMAIN Order |-> Read(Order[i][2], payload[Order[i][1]])]
           issues == {i \in DOMAIN Order : out[i] # VALID}
           first == CHOOSE i \in issues : \A k \in issues : i <= k
<1>1. FirstIssue(payload) = IF issues = {} THEN VALID ELSE out[first]
  BY DEF FirstIssue
<1>2. ASSUME NEW i \in 1 .. 14
      PROVE  /\ Order[i][1] \in REQUIRED_FIELDS /\ payload[Order[i][1]] \in Kinds
             /\ out[i] = Read(Order[i][2], payload[Order[i][1]])
  BY OrderProperty, RequiredFields
<1>3. ASSUME NEW i \in 1 .. 14
      PROVE  /\ i \in issues <=> payload[Order[i][1]] \notin Fits(Order[i][1])
             /\ out[i] \in {VALID, RAISES, INVALID_TYPE, INVALID_TIMESTAMP}
             /\ out[i] = INVALID_TIMESTAMP => Order[i][1] \in TimeFields
             /\ out[i] = INVALID_TYPE => Order[i][1] \notin TimeFields
  <2> HIDE DEF out
  <2> QED
    BY <1>2, ReadProperty, OrderProperty
<1>4. issues \subseteq 1 .. 14
  BY OrderProperty
<1> HIDE DEF out, issues
<1>5. ASSUME issues # {} PROVE first \in issues
  <2>1. PICK i \in issues : \A k \in issues : <<k, i>> \notin OpToRel(<, Nat)
    <3>1. issues \subseteq Nat
      BY <1>4
    <3> QED
      BY <1>5, <3>1, NatLessThanWellFounded, WFMin
  <2>2. \A k \in issues : i \in Nat /\ k \in Nat /\ <<k, i>> \in Nat \X Nat
    BY <1>4
  <2>3. \A k \in issues : ~(k < i)
    BY <2>1, <2>2, Zenon DEF OpToRel
  <2>4. ASSUME NEW k \in issues PROVE i <= k
    <3>1. i \in Nat /\ k \in Nat /\ ~(k < i)
      BY <2>2, <2>3
    <3> HIDE DEF first
    <3> QED
      BY <3>1
  <2> QED
    BY <2>4
<1>6. CASE issues = {}
  <2>1. FirstIssue(payload) = VALID
    BY <1>1, <1>6
  <2>2. \A f \in REQUIRED_FIELDS : payload[f] \in Fits(f)
    BY <1>3, <1>6, RequiredFields
  <2> QED
    BY <2>1, <2>2 DEF VALID, INVALID_TYPE, INVALID_TIMESTAMP
<1>7. CASE issues # {}
  <2> HIDE DEF first
  <2>1. first \in issues /\ first \in 1 .. 14 /\ FirstIssue(payload) = out[first]
    BY <1>1, <1>4, <1>5, <1>7 DEF first
  <2>2. /\ Order[first][1] \in REQUIRED_FIELDS
        /\ payload[Order[first][1]] \notin Fits(Order[first][1])
    BY <1>2, <1>3, <2>1
  <2>3. out[first] # VALID
    BY <2>1 DEF issues
  <2> QED
    BY <1>3, <2>1, <2>2, <2>3
<1> QED
  BY <1>6, <1>7

LEMMA AbsentIsUnfit == \A f : "absent" \notin Fits(f)
BY DEF Fits, Numbers, Wholes, Texts

\* The verdict on a value: valid exactly if it is an object whose fields all fit,
\* otherwise a category that names a defect, or an exception.
LEMMA ValidateProperty ==
    ASSUME NEW doc \in [form : Forms, payload : [REQUIRED_FIELDS -> Kinds]]
    PROVE  LET verdict == validate_event(doc)
               unfit == {f \in REQUIRED_FIELDS : doc.payload[f] \notin Fits(f)}
           IN  /\ verdict \in ERROR_CATEGORIES \cup {VALID, RAISES}
               /\ verdict = VALID <=> doc.form = "object" /\ unfit = {}
               /\ verdict = INVALID_JSON <=> doc.form = "broken"
               /\ verdict = MISSING_FIELD <=>
                     doc.form = "object" /\ \E f \in unfit : doc.payload[f] = "absent"
               /\ verdict = INVALID_TIMESTAMP => unfit \cap TimeFields # {}
               /\ verdict = INVALID_TYPE =>
                     doc.form = "other value" \/ unfit \ TimeFields # {}
<1> DEFINE verdict == validate_event(doc)
           unfit == {f \in REQUIRED_FIELDS : doc.payload[f] \notin Fits(f)}
<1> USE DEF VALID, RAISES, INVALID_JSON, MISSING_FIELD, INVALID_TYPE, INVALID_TIMESTAMP,
            ERROR_CATEGORIES
<1>1. doc.form \in Forms /\ doc.payload \in [REQUIRED_FIELDS -> Kinds]
  OBVIOUS
<1>2. CASE doc.form # "object"
  <2>1. \/ doc.form = "broken" /\ verdict = INVALID_JSON
        \/ doc.form = "undecodable" /\ verdict = RAISES
        \/ doc.form = "other value" /\ verdict = INVALID_TYPE
    BY <1>1, <1>2 DEF validate_event, Forms
  <2> HIDE DEF verdict, unfit
  <2> QED
    BY <2>1 DEF verdict, unfit
<1>3. CASE doc.form = "object" /\ Missing(doc.payload) # {}
  <2>1. verdict = MISSING_FIELD
    BY <1>3 DEF validate_event
  <2>2. \E f \in unfit : doc.payload[f] = "absent"
    BY <1>3, AbsentIsUnfit DEF Missing
  <2> QED
    BY <1>3, <2>1, <2>2
<1>4. CASE doc.form = "object" /\ Missing(doc.payload) = {}
  <2>1. verdict = FirstIssue(doc.payload)
    BY <1>4 DEF validate_event
  <2>2. ~ \E f \in unfit : doc.payload[f] = "absent"
    BY <1>4 DEF Missing
  <2>3. /\ verdict = VALID <=> unfit = {}
        /\ verdict \in {VALID, RAISES, INVALID_TYPE, INVALID_TIMESTAMP}
        /\ verdict = INVALID_TIMESTAMP => unfit \cap TimeFields # {}
        /\ verdict = INVALID_TYPE => unfit \ TimeFields # {}
    <3> HIDE DEF verdict
    <3> QED
      BY <1>1, <2>1, FirstIssueProperty
  <2> QED
    BY <1>4, <2>2, <2>3
<1> QED
  BY <1>2, <1>3, <1>4

-----------------------------------------------------------------------------
(* The operator emits what validation decides.                             *)

Decided == /\ raw \in Documents
           /\ outcome # "none" => outcome = validate_event(raw)
           /\ row <=> outcome = VALID
           /\ envelope <=> outcome \in ERROR_CATEGORIES

LEMMA DecidedInvariant == Spec => []Decided
<1>1. Init => Decided
  BY DEF Init, Decided, VALID, ERROR_CATEGORIES, INVALID_JSON, MISSING_FIELD,
         INVALID_TYPE, INVALID_TIMESTAMP
<1>2. Decided /\ [ProcessElement]_vars => Decided'
  <2> SUFFICES ASSUME Decided, [ProcessElement]_vars PROVE Decided'
    OBVIOUS
  <2>1. raw' = raw
    BY DEF ProcessElement, vars
  <2>2. validate_event(raw)' = validate_event(raw)
    BY <2>1, Zenon
  <2>3. CASE ProcessElement
    <3>1. /\ outcome' = validate_event(raw)
          /\ row' <=> outcome' = VALID
          /\ envelope' <=> outcome' \in ERROR_CATEGORIES
      BY <2>3 DEF ProcessElement
    <3> QED
      BY <2>1, <2>2, <3>1, Zenon DEF Decided, VALID, ERROR_CATEGORIES, INVALID_JSON,
         MISSING_FIELD, INVALID_TYPE, INVALID_TIMESTAMP
  <2>4. CASE UNCHANGED vars
    <3>1. outcome' = outcome /\ row' = row /\ envelope' = envelope
      BY <2>4 DEF vars
    <3> QED
      BY <2>1, <2>2, <3>1, Zenon DEF Decided, VALID, ERROR_CATEGORIES, INVALID_JSON,
         MISSING_FIELD, INVALID_TYPE, INVALID_TIMESTAMP
  <2> QED
    BY <2>3, <2>4
<1> QED
  BY <1>1, <1>2, PTL DEF Spec

LEMMA DocumentTypes ==
    ASSUME Decided
    PROVE  raw \in [form : Forms, payload : [REQUIRED_FIELDS -> Kinds]]
BY DocumentsAssumption DEF Decided

\* A row is emitted exactly for an object all of whose fields fit the table
\* (validate_event, ParseValidateFunction and clickhouse/init.sql), for every
\* combination of good and bad fields.
THEOREM RowsFitTheTableHolds == Spec => []RowsFitTheTable
<1>1. Decided => RowsFitTheTable
  BY DocumentTypes, ValidateProperty DEF Decided, RowsFitTheTable, Unfit
<1> QED
  BY <1>1, DecidedInvariant, PTL

\* The category of an envelope names a real defect, and an absent field goes first,
\* for every combination of defects (_build_validated_event, logic.py).
THEOREM CategoryIsDeservedHolds == Spec => []CategoryIsDeserved
<1>1. Decided => CategoryIsDeserved
  BY DocumentTypes, ValidateProperty
  DEF Decided, CategoryIsDeserved, Unfit, TimeFields, ERROR_CATEGORIES,
      INVALID_JSON, MISSING_FIELD, INVALID_TYPE, INVALID_TIMESTAMP
<1> QED
  BY <1>1, DecidedInvariant, PTL
=============================================================================
