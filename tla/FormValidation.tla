--------------------------- MODULE FormValidation ---------------------------
(***************************************************************************)
(* jquery.validate.unobtrusive.js on top of jquery.validate.js: a form of  *)
(* the web application with data-val attributes, the rules made of them,   *)
(* the checks while the user edits, submits and resets it, and the answers *)
(* of a server that validates a field remotely.                            *)
(*                                                                         *)
(* Answers come at any time: after the value has changed, after a reset,   *)
(* while the form waits for them to be submitted, or never.                *)
(*                                                                         *)
(* A value is what the rules tell apart of it.  Which message is shown,    *)
(* and how, is left out: a field's message is marked as an error or not.   *)
(***************************************************************************)
EXTENDS Naturals, FiniteSets

CONSTANTS
    Field,
    None,        \* an attribute's parameter that is not there; no data
    Value,       \* the values of fields
    Entry,       \* Entry[f]: those a user may enter in field f
    Attributes,  \* Attributes[f]: the data-val attributes of field f
    Default,     \* the values the page comes with
    Accepted     \* Accepted[f]: the data the server accepts of field f

\* length: of the text; whole: the pattern matches all of it; formed: it is a
\* date, a number, an address, whatever the field's own adapter asks for.
Text == [length : Nat, whole : BOOLEAN, formed : BOOLEAN]

\* Not "creditcard", "extension" and "fileextensions", nor "nonalphamin" of
\* "password": pages load jquery.validate.js alone, which has no such method, and
\* a check that meets their rule throws and lets the form go unchecked.
Simple == {"date", "digits", "email", "number", "url"}
Adapter == Simple \cup {"required", "regex", "length", "remote"}
Attribute ==
    [adapter : Adapter, min : Nat \cup {None}, max : Nat \cup {None},
     fields : SUBSET Field]   \* additionalfields, {} if there are none

ASSUME FormAssumption ==
    /\ IsFiniteSet(Field)
    /\ Value \subseteq Text
    /\ Entry \in [Field -> SUBSET Value]
    /\ Attributes \in [Field -> SUBSET Attribute]
    /\ Default \in [Field -> Value]
    /\ None \notin UNION {[S -> Value] : S \in SUBSET Field}

VARIABLES
    attached,   \* the document is ready, and the form has its validator
    value,      \* value[f]: what is in field f
    validator,  \* what validator and form remember
    sent        \* the submit is not prevented, and the page is left

vars == <<attached, value, validator, sent>>

\* What is asked of the server about a field: values of some fields.
Data == UNION {[S -> Value] : S \in SUBSET Field}

-----------------------------------------------------------------------------
(* Attributes and the rules made of them *)

IsEmpty(v) == v.length = 0

\* A rule with its parameters; those it has not are left at 0 or {}.
Rule(name) == [name |-> name, min |-> 0, max |-> 0, fields |-> {}]

\* Variant: a length with both bounds asks for the upper one only.
MinMaxForgetsMin(a, minRule, maxRule, minMaxRule) ==
    IF a.max # None THEN {[Rule(maxRule) EXCEPT !.max = a.max]} ELSE {}

\* addMinMax: one rule of three, by the bounds that are there.
MinMax(a, minRule, maxRule, minMaxRule) ==
    IF a.min # None /\ a.max # None
    THEN {[Rule(minMaxRule) EXCEPT !.min = a.min, !.max = a.max]}
    ELSE IF a.min # None THEN {[Rule(minRule) EXCEPT !.min = a.min]}
    ELSE IF a.max # None THEN {[Rule(maxRule) EXCEPT !.max = a.max]}
    ELSE {}

\* adapt, for each of the adapters.
Adapt(f, a) ==
    CASE a.adapter = "length" -> MinMax(a, "minlength", "maxlength", "rangelength")
      [] a.adapter = "remote" ->
            {[Rule("remote") EXCEPT !.fields = IF a.fields = {} THEN {f} ELSE a.fields]}
      [] OTHER -> {Rule(a.adapter)}

\* Variant: parseElement adds no rule of its own.
RulesAskedFor == [f \in Field |-> UNION {Adapt(f, a) : a \in Attributes[f]}]

\* parseElement.
Rules ==
    [f \in Field |-> {Rule("__dummy__")} \cup UNION {Adapt(f, a) : a \in Attributes[f]}]

\* A method of the validator that needs no server.
Passes(rule, v) ==
    /\ rule.name = "required" => ~IsEmpty(v)
    /\ ~IsEmpty(v) =>
        /\ rule.name = "regex"       => v.whole
        /\ rule.name = "minlength"   => v.length >= rule.min
        /\ rule.name = "maxlength"   => v.length <= rule.max
        /\ rule.name = "rangelength" => v.length \in rule.min .. rule.max
        /\ rule.name \in Simple      => v.formed

\* optional(element): "dependency-mismatch" from those that need a value.
Mismatches(rule, v) ==
    IsEmpty(v) /\ rule.name \notin {"__dummy__", "required", "regex"}

RemoteRules == [f \in Field |-> {rule \in Rules[f] : rule.name = "remote"}]

\* The fields it sends; the element's own is among them in any case.
DataFields ==
    [f \in Field |-> {f} \cup UNION {rule.fields : rule \in RemoteRules[f]}]

\* data of the remote rule: the values when it is asked for, not when it was made.
DataOf(f, vals) == [g \in DataFields[f] |-> vals[g]]

-----------------------------------------------------------------------------
(* The validator *)

\* previousValue of an element that has none.
NoPrevious == [old |-> None, valid |-> TRUE]
NoRequest == [data |-> None, detached |-> FALSE]

\* invalid[f]: "unknown" where the object has no such key.  errorMap, success:
\* errors and successes of the last check.  request[f]: the one under way, which
\* is detached from the element once a reset has removed its previousValue.
\* mark[f]: field-validation-error; summary: the errors in the summary, if shown.
FreshValidator ==
    [invalid   |-> [f \in Field |-> "unknown"],
     submitted |-> {}, errorMap |-> {}, success |-> {},
     pending   |-> {}, pendingRequest |-> 0, formSubmitted |-> FALSE,
     previous  |-> [f \in Field |-> NoPrevious],
     request   |-> [f \in Field |-> NoRequest],
     mark      |-> [f \in Field |-> FALSE],
     summary   |-> {}]

\* What check makes of field f.  "skipped": its only rule needs a value.
Outcome(v, f, vals) ==
    IF \E rule \in Rules[f] : ~Passes(rule, vals[f])
    THEN "error"
    ELSE IF RemoteRules[f] # {} /\ ~IsEmpty(vals[f])
    THEN IF v.previous[f].old # DataOf(f, vals) THEN "pending"
         ELSE IF v.previous[f].valid THEN "valid" ELSE "error"
    ELSE IF Cardinality(Rules[f]) = 1 /\ \A rule \in Rules[f] : Mismatches(rule, vals[f])
    THEN "skipped"
    ELSE "valid"

\* Variant: every request is counted, also of a field that has one already.
CountEvery(v, S) == Cardinality(S)

\* startRequest.
CountNew(v, S) == Cardinality(S \ v.pending)

\* What follows from the outcomes of the fields S.
Checked(v, S, outcome, vals) ==
    LET started == {f \in S : outcome[f] = "pending"} IN
    [v EXCEPT
        !.errorMap = {f \in S : outcome[f] = "error"},
        !.success = {f \in S : outcome[f] = "valid"},
        !.pending = @ \cup started,
        !.pendingRequest = @ + CountNew(v, started),
        !.previous = [f \in Field |->
            IF f \in started THEN [@[f] EXCEPT !.old = DataOf(f, vals)] ELSE @[f]],
        !.request = [f \in Field |->
            IF f \in started THEN [data |-> DataOf(f, vals), detached |-> FALSE] ELSE @[f]]]

\* check, of the fields S: one remote request at most of each is under way.
Check(v, S, vals) == Checked(v, S, [f \in S |-> Outcome(v, f, vals)], vals)

\* showErrors: onError for each error, onError and onSuccess for each success.
ShowErrors(v) ==
    [v EXCEPT !.mark = [f \in Field |->
        IF f \in v.success THEN FALSE ELSE IF f \in v.errorMap THEN TRUE ELSE @[f]]]

\* invalid-form: onErrors.
InvalidForm(v) ==
    IF v.errorMap # {} THEN [v EXCEPT !.summary = v.errorMap] ELSE v

\* What form() makes of a check of all fields.
FormChecked(c) ==
    ShowErrors(InvalidForm(
        [c EXCEPT
            !.submitted = @ \cup c.errorMap,
            !.invalid = [f \in Field |-> IF f \in c.errorMap THEN "invalid" ELSE "unknown"]]))

\* form(): it is valid if errorMap is empty.
Form(v, vals) == FormChecked(Check(v, Field, vals))

\* What element() makes of a check of one field.
ElementChecked(c, f) ==
    ShowErrors([c EXCEPT !.invalid[f] = IF f \in c.errorMap THEN "invalid" ELSE "valid"])

\* element()
Element(v, f, vals) == ElementChecked(Check(v, {f}, vals), f)

\* A validator, and whether the form goes out.
Kept(v) == [validator |-> v, sent |-> FALSE]
Out(v) == [validator |-> v, sent |-> TRUE]

\* What the handler of submit does after form().
Decided(w) ==
    IF w.errorMap # {} THEN Kept(w)
    ELSE IF w.pendingRequest > 0 THEN Kept([w EXCEPT !.formSubmitted = TRUE])
    ELSE Out(w)

\* The handler of submit.
Submitted(v, vals) == Decided(Form(v, vals))

Stopped(v, f) ==
    [v EXCEPT !.pendingRequest = IF @ = 0 THEN 0 ELSE @ - 1, !.pending = @ \ {f}]

\* Variant: the form was valid when it was submitted, and is not checked again.
StopTrusting(v, f, valid, vals) ==
    LET w == Stopped(v, f) IN
    IF valid /\ w.pendingRequest = 0 /\ w.formSubmitted
    THEN Out([w EXCEPT !.formSubmitted = FALSE])
    ELSE Kept(w)

\* submit(), of a form that was just found valid.
SubmittedAgain(s) == [s EXCEPT !.validator.formSubmitted = FALSE]

\* What waits for the last answer is submitted, unless it is not valid any
\* more, or has to wait again.
Resumed(w, checked, valid, vals) ==
    LET isLast == w.pendingRequest = 0 /\ w.formSubmitted IN
    IF isLast /\ valid
    THEN IF checked.errorMap = {} /\ checked.pendingRequest = 0
         THEN SubmittedAgain(Submitted(checked, vals))
         ELSE Kept(checked)
    ELSE IF isLast THEN Kept([InvalidForm(w) EXCEPT !.formSubmitted = FALSE])
    ELSE Kept(w)

\* stopRequest
StopRequest(v, f, valid, vals) ==
    Resumed(Stopped(v, f), Form(Stopped(v, f), vals), valid, vals)

\* success of the remote request: the answer is shown whatever is in the field
\* by now.  Of the last check a refusal keeps the rest.
Answered(v, f, valid) ==
    ShowErrors([v EXCEPT
        !.request[f] = NoRequest,
        !.errorMap = IF valid THEN {} ELSE @ \cup {f},
        !.success = IF valid THEN {f} ELSE @ \ {f},
        !.invalid[f] = IF valid THEN "valid" ELSE "invalid",
        !.previous[f].valid = IF v.request[f].detached THEN @ ELSE valid])

\* onReset with resetForm.  The requests under way go on.
ResetForm(v) ==
    [v EXCEPT
        !.invalid = FreshValidator.invalid,
        !.submitted = {}, !.errorMap = {}, !.success = {},
        !.previous = FreshValidator.previous,
        !.request = [f \in Field |->
            IF @[f] = NoRequest THEN NoRequest ELSE [@[f] EXCEPT !.detached = TRUE]],
        !.mark = FreshValidator.mark,
        !.summary = {}]

-----------------------------------------------------------------------------

Init ==
    /\ attached = FALSE
    /\ value = Default
    /\ validator = FreshValidator
    /\ sent = FALSE

\* Document ready: parse, and attachValidation of the form.
Ready ==
    /\ ~attached /\ ~sent
    /\ attached' = TRUE
    /\ UNCHANGED <<value, validator, sent>>

\* onkeyup validates a field once it has been found wrong, or checked.
ValidatesOnKey(f) ==
    attached /\ (f \in validator.submitted \/ validator.invalid[f] # "unknown")

Edit(f, val) ==
    /\ ~sent /\ val # value[f]
    /\ value' = [value EXCEPT ![f] = val]
    /\ validator' = IF ValidatesOnKey(f) THEN Element(validator, f, value') ELSE validator
    /\ UNCHANGED <<attached, sent>>

\* Pasted by the mouse: no key, no check.
Paste(f, val) ==
    /\ ~sent /\ val # value[f]
    /\ value' = [value EXCEPT ![f] = val]
    /\ UNCHANGED <<attached, validator, sent>>

\* onfocusout
Leave(f) ==
    /\ attached /\ ~sent
    /\ f \in validator.submitted \/ ~IsEmpty(value[f])
    /\ validator' = Element(validator, f, value)
    /\ UNCHANGED <<attached, value, sent>>

\* Before the document is ready nothing prevents it.
Submit ==
    /\ ~sent
    /\ IF attached
       THEN \E s \in {Submitted(validator, value)} :
                validator' = s.validator /\ sent' = s.sent
       ELSE sent' = TRUE /\ UNCHANGED validator
    /\ UNCHANGED <<attached, value>>

Reset ==
    /\ ~sent
    /\ validator' = IF attached THEN ResetForm(validator) ELSE validator
    /\ value' = Default
    /\ UNCHANGED <<attached, sent>>

\* The server answers the request of field f.
Answer(f) ==
    /\ ~sent /\ validator.request[f] # NoRequest
    /\ LET valid == validator.request[f].data \in Accepted[f] IN
       \E s \in {StopRequest(Answered(validator, f, valid), f, valid, value)} :
            validator' = s.validator /\ sent' = s.sent
    /\ UNCHANGED <<attached, value>>

\* It fails: there is no error handler, and the field stays pending.
AnswerFails(f) ==
    /\ ~sent /\ validator.request[f] # NoRequest
    /\ validator' = [validator EXCEPT !.request[f] = NoRequest]
    /\ UNCHANGED <<attached, value, sent>>

\* The server answers the form with a new page.
NewPage ==
    /\ sent
    /\ attached' = FALSE /\ value' = Default
    /\ validator' = FreshValidator /\ sent' = FALSE

Next ==
    \/ Ready \/ Submit \/ Reset \/ NewPage
    \/ \E f \in Field :
        \/ \E val \in Entry[f] : Edit(f, val) \/ Paste(f, val)
        \/ Leave(f) \/ Answer(f) \/ AnswerFails(f)

Spec == Init /\ [][Next]_vars

-----------------------------------------------------------------------------
(* Properties *)

ValidatorType ==
    [invalid : [Field -> {"unknown", "valid", "invalid"}],
     submitted : SUBSET Field, errorMap : SUBSET Field, success : SUBSET Field,
     pending : SUBSET Field, pendingRequest : Nat, formSubmitted : BOOLEAN,
     previous : [Field -> [old : Data \cup {None}, valid : BOOLEAN]],
     request : [Field -> [data : Data \cup {None}, detached : BOOLEAN]],
     mark : [Field -> BOOLEAN], summary : SUBSET Field]

TypeOK ==
    /\ attached \in BOOLEAN /\ sent \in BOOLEAN
    /\ value \in [Field -> Value]
    /\ validator \in ValidatorType

\* The counter is the number of fields that wait for an answer, and a field with
\* a request under way is one of them.
PendingIsCounted(v) ==
    /\ v.pendingRequest = Cardinality(v.pending)
    /\ \A f \in Field : v.request[f] # NoRequest => f \in v.pending

\* What an element remembers of the server is what the server says, unless its
\* request is still to be answered.
PreviousIsTrue(v) ==
    \A f \in Field :
        LET p == v.previous[f] IN
        p.old # None /\ f \notin v.pending => p.valid = (p.old \in Accepted[f])

\* The request under way is about what its element remembers to have asked, or
\* the element has forgotten and has asked nothing since.
RequestIsRemembered(v) ==
    \A f \in Field :
        LET r == v.request[f] IN
        r # NoRequest =>
            v.previous[f].old = IF r.detached THEN None ELSE r.data

\* The errors and the successes of the last check are still what invalid says.
LastCheckIsKept(v) ==
    \A f \in Field :
        /\ f \in v.errorMap => v.invalid[f] = "invalid"
        /\ f \in v.success => v.invalid[f] # "invalid"

\* The validator's account of its remote requests is right after any edits,
\* resets, late and lost answers: what is pending is counted (jquery.validate.js
\* does not trust its own counter, line 1127), and what a field remembers of an
\* answer is what the server says of what was asked.
ValidatorInductive ==
    /\ TypeOK
    /\ PendingIsCounted(validator)
    /\ PreviousIsTrue(validator)
    /\ RequestIsRemembered(validator)
    /\ LastCheckIsKept(validator)

MarksMatch(v) == \A f \in Field \ v.pending : v.mark[f] = (v.invalid[f] = "invalid")

\* A field's message is marked as an error exactly where the validator has the
\* field as invalid, once no answer about it is awaited: the two are kept by
\* different files, that of the marks by onError, onSuccess and onReset.
MarksMatchErrors == MarksMatch(validator)

\* What an attribute asks of a value, whatever rules are made of it.
Meets(f, a) ==
    \/ IsEmpty(value[f]) /\ a.adapter # "required"
    \/ /\ ~IsEmpty(value[f])
       /\ a.adapter = "regex" => value[f].whole
       /\ a.adapter \in Simple => value[f].formed
       /\ a.adapter = "length" =>
            /\ a.min # None => value[f].length >= a.min
            /\ a.max # None => value[f].length <= a.max
       /\ a.adapter = "remote" => DataOf(f, value) \in Accepted[f]

\* Whenever the validator lets a form go out, by a click or with the last answer
\* it waited for, every field meets all of its attributes as it is sent.
SubmitsOnlyValid ==
    attached /\ sent => \A f \in Field : \A a \in Attributes[f] : Meets(f, a)

=============================================================================
