------------------------ MODULE FormValidationProofs ------------------------
(***************************************************************************)
(* The validator of a form, for any fields, attributes of Adapter, values  *)
(* and answers of the server: its account of remote requests, the marks of *)
(* the fields and what it lets out.                                        *)
(***************************************************************************)
EXTENDS FormValidation, FiniteSetTheorems, TLAPS

Values == [Field -> Value]

\* The account of remote requests.
Sound(v) ==
    /\ v \in ValidatorType
    /\ PendingIsCounted(v) /\ PreviousIsTrue(v) /\ RequestIsRemembered(v)

\* What is shown, and what was found by the last check.
Shown(v) == LastCheckIsKept(v) /\ MarksMatch(v)

-----------------------------------------------------------------------------
(* Rules and data *)

\* A rule only names fields of its form.
LEMMA RulesNameFields ==
  ASSUME NEW f \in Field, NEW rule \in Rules[f]
  PROVE  rule.fields \subseteq Field
  <1>1. CASE rule = Rule("__dummy__")
    BY <1>1 DEF Rule
  <1>2. CASE \E a \in Attributes[f] : rule \in Adapt(f, a)
    <2>1. PICK a \in Attributes[f] : rule \in Adapt(f, a)
      BY <1>2
    <2>2. a \in Attribute
      BY <2>1, FormAssumption DEF FormAssumption
    <2>3. CASE a.adapter = "length"
      BY <2>1, <2>3 DEF Adapt, MinMax, Rule
    <2>4. CASE a.adapter = "remote"
      BY <2>1, <2>2, <2>4 DEF Adapt, Rule, Attribute
    <2>5. CASE a.adapter \notin {"length", "remote"}
      BY <2>1, <2>2, <2>5 DEF Adapt, Rule, Attribute
    <2> QED BY <2>3, <2>4, <2>5
  <1> QED BY <1>1, <1>2 DEF Rules

\* What the server is asked about is data, and never None.
LEMMA DataIsData ==
  ASSUME NEW f \in Field, NEW vals \in Values
  PROVE  DataOf(f, vals) \in Data /\ DataOf(f, vals) # None
  <1>1. DataFields[f] \subseteq Field
    BY RulesNameFields DEF DataFields, RemoteRules
  <1>2. DataOf(f, vals) \in [DataFields[f] -> Value]
    BY <1>1 DEF DataOf, Values
  <1>3. DataOf(f, vals) \in Data
    BY <1>1, <1>2 DEF Data
  <1> QED BY <1>3, FormAssumption DEF FormAssumption, Data

\* A field whose rules all pass meets all that its attributes ask for, but the
\* server's consent.
LEMMA PassingMeets ==
  ASSUME NEW f \in Field, value \in Values,
         \A rule \in Rules[f] : Passes(rule, value[f]),
         NEW a \in Attributes[f],
         a.adapter = "remote" =>
            IsEmpty(value[f]) \/ DataOf(f, value) \in Accepted[f]
  PROVE  Meets(f, a)
  <1>1. a \in Attribute /\ Adapt(f, a) \subseteq Rules[f]
    BY FormAssumption DEF FormAssumption, Rules
  <1>2. value[f] \in Text
    BY FormAssumption DEF FormAssumption, Values
  <1>3. CASE a.adapter = "length"
    <2> DEFINE v == value[f]
               both == [Rule("rangelength") EXCEPT !.min = a.min, !.max = a.max]
               low  == [Rule("minlength") EXCEPT !.min = a.min]
               high == [Rule("maxlength") EXCEPT !.max = a.max]
    <2>1. \A rule \in MinMax(a, "minlength", "maxlength", "rangelength") : Passes(rule, v)
      BY <1>1, <1>3 DEF Adapt
    <2>2. a.min \in Nat \cup {None} /\ a.max \in Nat \cup {None}
      BY <1>1 DEF Attribute
    <2>3. CASE a.min # None /\ a.max # None
      <3>1. Passes(both, v)
        BY <2>1, <2>3 DEF MinMax
      <3>2. both.name = "rangelength" /\ both.min = a.min /\ both.max = a.max
        BY DEF Rule
      <3>3. IsEmpty(v) \/ v.length \in a.min .. a.max
        BY <3>1, <3>2 DEF Passes
      <3> HIDE DEF both
      <3>4. ~IsEmpty(v) => v.length >= a.min /\ v.length <= a.max
        BY <1>2, <2>2, <2>3, <3>3 DEF Text
      <3> QED BY <1>3, <3>4 DEF Meets, Simple
    <2>4. CASE a.min # None /\ a.max = None
      <3>1. Passes(low, v)
        BY <2>1, <2>4 DEF MinMax
      <3>2. low.name = "minlength" /\ low.min = a.min
        BY DEF Rule
      <3>3. IsEmpty(v) \/ v.length >= a.min
        BY <3>1, <3>2 DEF Passes
      <3> QED BY <1>3, <2>4, <3>3 DEF Meets, Simple
    <2>5. CASE a.min = None /\ a.max # None
      <3>1. Passes(high, v)
        BY <2>1, <2>5 DEF MinMax
      <3>2. high.name = "maxlength" /\ high.max = a.max
        BY DEF Rule
      <3>3. IsEmpty(v) \/ v.length <= a.max
        BY <3>1, <3>2 DEF Passes
      <3> QED BY <1>3, <2>5, <3>3 DEF Meets, Simple
    <2>6. CASE a.min = None /\ a.max = None
      BY <1>3, <2>6 DEF Meets, Simple
    <2> QED BY <2>3, <2>4, <2>5, <2>6
  <1>4. CASE a.adapter = "remote"
    BY <1>4 DEF Meets, Simple
  <1>5. CASE a.adapter \in Simple \cup {"required", "regex"}
    <2>1. Rule(a.adapter) \in Rules[f]
      BY <1>1, <1>5 DEF Adapt, Simple
    <2>2. Passes(Rule(a.adapter), value[f])
      BY <2>1
    <2> QED BY <1>5, <2>2 DEF Passes, Rule, Meets, Simple
  <1> QED BY <1>1, <1>3, <1>4, <1>5 DEF Attribute, Adapter

-----------------------------------------------------------------------------
(* The account of requests *)

\* The fields of S that check starts a request for.
Started(v, S, vals) == {f \in S : Outcome(v, f, vals) = "pending"}

\* What check leaves of the validator, component by component.
IsChecked(c, v, S, vals, started) ==
    /\ c.errorMap = {f \in S : Outcome(v, f, vals) = "error"}
    /\ c.success = {f \in S : Outcome(v, f, vals) = "valid"}
    /\ c.pending = v.pending \cup started
    /\ c.pendingRequest = v.pendingRequest + CountNew(v, started)
    /\ c.previous = [f \in Field |->
        IF f \in started THEN [v.previous[f] EXCEPT !.old = DataOf(f, vals)]
        ELSE v.previous[f]]
    /\ c.request = [f \in Field |->
        IF f \in started THEN [data |-> DataOf(f, vals), detached |-> FALSE]
        ELSE v.request[f]]
    /\ c.invalid = v.invalid /\ c.submitted = v.submitted
    /\ c.formSubmitted = v.formSubmitted
    /\ c.mark = v.mark /\ c.summary = v.summary

LEMMA CheckParts ==
  ASSUME NEW v \in ValidatorType, NEW S \in SUBSET Field, NEW vals
  PROVE  IsChecked(Check(v, S, vals), v, S, vals, Started(v, S, vals))
  <1> DEFINE outcome == [f \in S |-> Outcome(v, f, vals)]
  <1>1. /\ {f \in S : outcome[f] = "pending"} = Started(v, S, vals)
        /\ {f \in S : outcome[f] = "error"} = {f \in S : Outcome(v, f, vals) = "error"}
        /\ {f \in S : outcome[f] = "valid"} = {f \in S : Outcome(v, f, vals) = "valid"}
    BY DEF Started
  <1> QED BY <1>1 DEF Check, Checked, IsChecked, ValidatorType

\* Replaced components of their types keep the validator in its type.
Replaced(v, errors, successes, pending, count, previous, request) ==
    [v EXCEPT
        !.errorMap = errors,
        !.success = successes,
        !.pending = pending,
        !.pendingRequest = count,
        !.previous = previous,
        !.request = request]

LEMMA ReplacedType ==
  ASSUME NEW v \in ValidatorType,
         NEW e1 \in SUBSET Field, NEW e2 \in SUBSET Field, NEW e3 \in SUBSET Field,
         NEW e4 \in Nat,
         NEW e5 \in [Field -> [old : Data \cup {None}, valid : BOOLEAN]],
         NEW e6 \in [Field -> [data : Data \cup {None}, detached : BOOLEAN]]
  PROVE  Replaced(v, e1, e2, e3, e4, e5, e6) \in ValidatorType
  BY DEF ValidatorType, Replaced

LEMMA CheckType ==
  ASSUME NEW v \in ValidatorType, NEW S \in SUBSET Field, NEW vals \in Values
  PROVE  Check(v, S, vals) \in ValidatorType
  <1> DEFINE outcome == [f \in S |-> Outcome(v, f, vals)]
             started == {f \in S : outcome[f] = "pending"}
             errors == {f \in S : outcome[f] = "error"}
             successes == {f \in S : outcome[f] = "valid"}
             pending == v.pending \cup started
             count == v.pendingRequest + CountNew(v, started)
             previous == [f \in Field |->
                IF f \in started THEN [v.previous[f] EXCEPT !.old = DataOf(f, vals)]
                ELSE v.previous[f]]
             request == [f \in Field |->
                IF f \in started THEN [data |-> DataOf(f, vals), detached |-> FALSE]
                ELSE v.request[f]]
  <1>1. Check(v, S, vals) =
            Replaced(v, errors, successes, pending, count, previous, request)
    BY Zenon DEF Check, Checked, Replaced
  <1>2. /\ started \in SUBSET Field /\ errors \in SUBSET Field
        /\ successes \in SUBSET Field
    OBVIOUS
  <1> HIDE DEF outcome, started, errors, successes
  <1>3. pending \in SUBSET Field
    BY <1>2 DEF ValidatorType
  <1>4. count \in Nat
    <2>1. CountNew(v, started) \in Nat
      BY <1>2, FormAssumption, FS_Subset, FS_CardinalityType
      DEF CountNew, FormAssumption
    <2> QED BY <2>1 DEF ValidatorType
  <1>5. ASSUME NEW f \in Field
        PROVE  /\ v.previous[f] \in [old : Data \cup {None}, valid : BOOLEAN]
               /\ v.request[f] \in [data : Data \cup {None}, detached : BOOLEAN]
               /\ DataOf(f, vals) \in Data
    BY DataIsData DEF ValidatorType
  <1>6. previous \in [Field -> [old : Data \cup {None}, valid : BOOLEAN]]
    BY <1>5
  <1>7. request \in [Field -> [data : Data \cup {None}, detached : BOOLEAN]]
    BY <1>5
  <1> HIDE DEF pending, count, previous, request
  <1> QED BY <1>1, <1>2, <1>3, <1>4, <1>6, <1>7, ReplacedType

\* Check counts what it starts, and remembers what it asks.
LEMMA CheckSound ==
  ASSUME NEW v, Sound(v), NEW S \in SUBSET Field, NEW vals \in Values
  PROVE  Sound(Check(v, S, vals))
  <1> DEFINE c == Check(v, S, vals)
             started == Started(v, S, vals)
  <1>0. v \in ValidatorType /\ PendingIsCounted(v) /\ PreviousIsTrue(v) /\ RequestIsRemembered(v)
    BY DEF Sound
  <1>1. c \in ValidatorType
    BY <1>0, CheckType
  <1>20. IsChecked(c, v, S, vals, started)
    BY <1>0, CheckParts
  <1>3. started \subseteq Field /\ v.pending \subseteq Field
    BY <1>0 DEF Started, ValidatorType
  <1> HIDE DEF c, started
  <1>2. /\ c.pending = v.pending \cup started
        /\ c.pendingRequest = v.pendingRequest + CountNew(v, started)
        /\ c.previous = [f \in Field |->
              IF f \in started THEN [v.previous[f] EXCEPT !.old = DataOf(f, vals)]
              ELSE v.previous[f]]
        /\ c.request = [f \in Field |->
              IF f \in started THEN [data |-> DataOf(f, vals), detached |-> FALSE]
              ELSE v.request[f]]
    BY <1>20 DEF IsChecked
  <1>4. PendingIsCounted(c)
    <2>1. IsFiniteSet(started) /\ IsFiniteSet(v.pending)
      BY <1>3, FormAssumption, FS_Subset DEF FormAssumption
    <2>2. /\ IsFiniteSet(started \ v.pending)
          /\ (started \ v.pending) \cap v.pending = {}
          /\ v.pending \cup started = v.pending \cup (started \ v.pending)
      BY <2>1, FS_Difference
    <2>3. Cardinality(c.pending) =
            Cardinality(v.pending) + Cardinality(started \ v.pending)
              - Cardinality(v.pending \cap (started \ v.pending))
      BY <1>2, <2>1, <2>2, FS_Union
    <2>4. Cardinality(v.pending \cap (started \ v.pending)) = 0
      BY <2>2, FS_EmptySet
    <2>5. Cardinality(started \ v.pending) \in Nat /\ Cardinality(v.pending) \in Nat
      BY <2>1, <2>2, FS_CardinalityType
    <2>6. c.pendingRequest = Cardinality(c.pending)
      BY <1>0, <1>2, <2>3, <2>4, <2>5 DEF PendingIsCounted, CountNew
    <2>7. \A f \in Field : c.request[f] # NoRequest => f \in c.pending
      BY <1>0, <1>2 DEF PendingIsCounted
    <2> QED BY <2>6, <2>7 DEF PendingIsCounted
  <1>5. PreviousIsTrue(c)
    <2>1. \A f \in Field : f \notin c.pending =>
            f \notin v.pending /\ c.previous[f] = v.previous[f]
      BY <1>2
    <2> QED BY <1>0, <2>1 DEF PreviousIsTrue
  <1>6. RequestIsRemembered(c)
    <2> SUFFICES ASSUME NEW f \in Field, c.request[f] # NoRequest
                 PROVE  c.previous[f].old =
                            IF c.request[f].detached THEN None ELSE c.request[f].data
      BY DEF RequestIsRemembered
    <2>1. CASE f \in started
      <3>1. v.previous[f] \in [old : Data \cup {None}, valid : BOOLEAN]
        BY <1>0 DEF ValidatorType
      <3>2. c.previous[f].old = DataOf(f, vals)
        BY <1>2, <2>1, <3>1
      <3>3. ~c.request[f].detached /\ c.request[f].data = DataOf(f, vals)
        BY <1>2, <2>1
      <3> QED BY <3>2, <3>3
    <2>2. CASE f \notin started
      <3>1. c.previous[f] = v.previous[f] /\ c.request[f] = v.request[f]
        BY <1>2, <2>2
      <3> QED BY <1>0, <3>1 DEF RequestIsRemembered
    <2> QED BY <2>1, <2>2
  <1> QED BY <1>1, <1>4, <1>5, <1>6 DEF Sound, c

\* w has the account of v.
SameAccount(w, v) ==
    /\ w \in ValidatorType
    /\ w.pending = v.pending /\ w.pendingRequest = v.pendingRequest
    /\ w.previous = v.previous /\ w.request = v.request

\* w has the account of v, and what the last check found and showed.
SameButSubmit(w, v) ==
    /\ SameAccount(w, v)
    /\ w.errorMap = v.errorMap /\ w.success = v.success
    /\ w.invalid = v.invalid /\ w.mark = v.mark

LEMMA SameIsSound ==
  ASSUME NEW v, Sound(v), NEW w, SameAccount(w, v)
  PROVE  Sound(w)
  BY DEF Sound, SameAccount, PendingIsCounted, PreviousIsTrue, RequestIsRemembered

LEMMA SameIsShown ==
  ASSUME NEW v, Shown(v), NEW w, SameButSubmit(w, v)
  PROVE  Shown(w)
  BY DEF Shown, SameButSubmit, SameAccount, LastCheckIsKept, MarksMatch

LEMMA ShowErrorsParts ==
  ASSUME NEW v \in ValidatorType
  PROVE  LET w == ShowErrors(v)
         IN  /\ SameAccount(w, v) /\ w.formSubmitted = v.formSubmitted
             /\ w.errorMap = v.errorMap /\ w.success = v.success
             /\ w.invalid = v.invalid
             /\ w.mark = [f \in Field |->
                    IF f \in v.success THEN FALSE
                    ELSE IF f \in v.errorMap THEN TRUE ELSE v.mark[f]]
  <1> DEFINE mark == [f \in Field |->
                IF f \in v.success THEN FALSE
                ELSE IF f \in v.errorMap THEN TRUE ELSE v.mark[f]]
  <1>1. mark \in [Field -> BOOLEAN]
    BY DEF ValidatorType
  <1>2. ShowErrors(v) = [v EXCEPT !.mark = mark]
    BY DEF ShowErrors
  <1> HIDE DEF mark
  <1>3. /\ ShowErrors(v) \in ValidatorType /\ ShowErrors(v).mark = mark
        /\ SameAccount(ShowErrors(v), v)
        /\ ShowErrors(v).formSubmitted = v.formSubmitted
        /\ ShowErrors(v).errorMap = v.errorMap /\ ShowErrors(v).success = v.success
        /\ ShowErrors(v).invalid = v.invalid
    BY <1>1, <1>2 DEF ValidatorType, SameAccount
  <1> QED BY <1>3 DEF mark

LEMMA InvalidFormParts ==
  ASSUME NEW v \in ValidatorType
  PROVE  SameButSubmit(InvalidForm(v), v) /\ InvalidForm(v).formSubmitted = v.formSubmitted
  BY DEF InvalidForm, ValidatorType, SameButSubmit, SameAccount

\* A checked field is found wrong, right or pending: the rule parseElement adds
\* to those asked for passes without a value, so that no field is skipped.
LEMMA NoneIsSkipped ==
  ASSUME NEW v, NEW f \in Field, NEW vals
  PROVE  Outcome(v, f, vals) \in {"error", "pending", "valid"}
  <1>1. Rule("__dummy__") \in Rules[f]
    BY DEF Rules
  <1>2. ~Mismatches(Rule("__dummy__"), vals[f])
    BY DEF Mismatches, Rule
  <1> QED BY <1>1, <1>2 DEF Outcome

\* What form() leaves of the validator, after the check c.
IsForm(w, c, v) ==
    /\ SameAccount(w, c) /\ w.formSubmitted = v.formSubmitted
    /\ w.errorMap = c.errorMap /\ w.success = c.success
    /\ w.invalid = [f \in Field |->
        IF f \in c.errorMap THEN "invalid" ELSE "unknown"]
    /\ w.mark = [f \in Field |->
        IF f \in c.success THEN FALSE
        ELSE IF f \in c.errorMap THEN TRUE ELSE v.mark[f]]

LEMMA FormParts ==
  ASSUME NEW v \in ValidatorType, NEW vals \in Values
  PROVE  IsForm(Form(v, vals), Check(v, Field, vals), v)
  <1> DEFINE c == Check(v, Field, vals)
             invalid == [f \in Field |->
                IF f \in c.errorMap THEN "invalid" ELSE "unknown"]
             d == [c EXCEPT !.submitted = @ \cup c.errorMap, !.invalid = invalid]
             e == InvalidForm(d)
  <1>1. c \in ValidatorType
    BY CheckType
  <1>2. c.formSubmitted = v.formSubmitted /\ c.mark = v.mark
    <2>1. IsChecked(c, v, Field, vals, Started(v, Field, vals))
      BY CheckParts
    <2> HIDE DEF c
    <2> QED BY <2>1 DEF IsChecked
  <1>3. Form(v, vals) = ShowErrors(e)
    BY Zenon DEF Form, FormChecked
  <1>4. invalid \in [Field -> {"unknown", "valid", "invalid"}]
    OBVIOUS
  <1>5. invalid = [f \in Field |-> IF f \in c.errorMap THEN "invalid" ELSE "unknown"]
    OBVIOUS
  <1> HIDE DEF c, invalid
  <1>61. c.submitted \cup c.errorMap \in SUBSET Field
    BY <1>1 DEF ValidatorType
  <1>62. d = [c EXCEPT !.submitted = c.submitted \cup c.errorMap, !.invalid = invalid]
    OBVIOUS
  <1>63. \A s \in SUBSET Field, i \in [Field -> {"unknown", "valid", "invalid"}] :
            [c EXCEPT !.submitted = s, !.invalid = i] \in ValidatorType
    BY <1>1 DEF ValidatorType
  <1>64. d \in ValidatorType
    BY <1>4, <1>61, <1>63
  <1>6. /\ d \in ValidatorType /\ SameAccount(d, c)
        /\ d.formSubmitted = c.formSubmitted /\ d.mark = c.mark
        /\ d.errorMap = c.errorMap /\ d.success = c.success /\ d.invalid = invalid
    BY <1>1, <1>62, <1>64 DEF ValidatorType, SameAccount
  <1> HIDE DEF d
  <1>7. SameButSubmit(e, d) /\ e.formSubmitted = d.formSubmitted
    BY <1>6, InvalidFormParts
  <1>8. e \in ValidatorType
    BY <1>7 DEF SameButSubmit, SameAccount
  <1> HIDE DEF e
  <1>9. /\ SameAccount(ShowErrors(e), e) /\ ShowErrors(e).formSubmitted = e.formSubmitted
        /\ ShowErrors(e).errorMap = e.errorMap /\ ShowErrors(e).success = e.success
        /\ ShowErrors(e).invalid = e.invalid
        /\ ShowErrors(e).mark = [f \in Field |->
                IF f \in e.success THEN FALSE
                ELSE IF f \in e.errorMap THEN TRUE ELSE e.mark[f]]
    BY <1>8, ShowErrorsParts
  <1>10. /\ e.errorMap = c.errorMap /\ e.success = c.success /\ e.mark = v.mark
         /\ e.invalid = invalid /\ e.formSubmitted = v.formSubmitted
         /\ SameAccount(ShowErrors(e), c)
    BY <1>2, <1>6, <1>7, <1>9 DEF SameButSubmit, SameAccount
  <1> DEFINE w == ShowErrors(e)
  <1> HIDE DEF w
  <1>11. IsForm(w, c, v)
    BY <1>5, <1>9, <1>10 DEF IsForm, w
  <1> QED BY <1>3, <1>11 DEF c, w

-----------------------------------------------------------------------------
(* Checks *)

LEMMA FormKeeps ==
  ASSUME NEW v, Sound(v), NEW vals \in Values
  PROVE  Sound(Form(v, vals)) /\ Shown(Form(v, vals))
  <1> DEFINE c == Check(v, Field, vals)
             w == Form(v, vals)
  <1>1. v \in ValidatorType
    BY DEF Sound
  <1>2. IsForm(w, c, v)
    BY <1>1, FormParts
  <1>3. IsChecked(c, v, Field, vals, Started(v, Field, vals))
    BY <1>1, CheckParts
  <1>4. Sound(w)
    <2>1. Sound(c)
      BY CheckSound
    <2> HIDE DEF c, w
    <2> QED BY <1>2, <2>1, SameIsSound DEF IsForm
  <1> HIDE DEF c, w
  <1>5. \A f \in Field :
            f \in w.pending \/ f \in c.errorMap \/ f \in c.success
    <2>1. \A f \in Field : Outcome(v, f, vals) \in {"error", "pending", "valid"}
      BY NoneIsSkipped
    <2> QED BY <1>2, <1>3, <2>1 DEF IsChecked, IsForm, Started, SameAccount
  <1>6. c.errorMap \cap c.success = {}
    BY <1>3 DEF IsChecked
  <1>7. LastCheckIsKept(w)
    BY <1>2, <1>6 DEF LastCheckIsKept, IsForm
  <1>8. MarksMatch(w)
    BY <1>2, <1>5, <1>6 DEF MarksMatch, IsForm
  <1> QED BY <1>4, <1>7, <1>8 DEF Shown, w

\* What element() leaves of the validator, after the check c.
IsElement(w, c, v, g) ==
    /\ SameAccount(w, c)
    /\ w.errorMap = c.errorMap /\ w.success = c.success
    /\ w.invalid = [v.invalid EXCEPT
        ![g] = IF g \in c.errorMap THEN "invalid" ELSE "valid"]
    /\ w.mark = [f \in Field |->
        IF f \in c.success THEN FALSE
        ELSE IF f \in c.errorMap THEN TRUE ELSE v.mark[f]]

LEMMA ElementParts ==
  ASSUME NEW v \in ValidatorType, NEW g \in Field, NEW vals \in Values
  PROVE  IsElement(Element(v, g, vals), Check(v, {g}, vals), v, g)
  <1> DEFINE c == Check(v, {g}, vals)
             found == IF g \in c.errorMap THEN "invalid" ELSE "valid"
             d == [c EXCEPT !.invalid[g] = found]
  <1>1. c \in ValidatorType
    BY CheckType
  <1>2. c.invalid = v.invalid /\ c.mark = v.mark
    <2>1. IsChecked(c, v, {g}, vals, Started(v, {g}, vals))
      BY CheckParts
    <2> HIDE DEF c
    <2> QED BY <2>1 DEF IsChecked
  <1>3. Element(v, g, vals) = ShowErrors(d)
    BY Zenon DEF Element, ElementChecked
  <1>4. found \in {"unknown", "valid", "invalid"} /\ found = IF g \in c.errorMap THEN "invalid" ELSE "valid"
    OBVIOUS
  <1> HIDE DEF c, found
  <1>5. [c.invalid EXCEPT ![g] = found] \in [Field -> {"unknown", "valid", "invalid"}]
    BY <1>1, <1>4 DEF ValidatorType
  <1>6. d = [c EXCEPT !.invalid = [c.invalid EXCEPT ![g] = found]]
    BY <1>1 DEF ValidatorType
  <1>7. \A i \in [Field -> {"unknown", "valid", "invalid"}] :
            [c EXCEPT !.invalid = i] \in ValidatorType
    BY <1>1 DEF ValidatorType
  <1>8. d \in ValidatorType
    BY <1>5, <1>6, <1>7
  <1>9. /\ SameAccount(d, c) /\ d.mark = c.mark
        /\ d.errorMap = c.errorMap /\ d.success = c.success
        /\ d.invalid = [c.invalid EXCEPT ![g] = found]
    BY <1>1, <1>6, <1>8 DEF ValidatorType, SameAccount
  <1> HIDE DEF d
  <1>10. /\ SameAccount(ShowErrors(d), d)
         /\ ShowErrors(d).errorMap = d.errorMap /\ ShowErrors(d).success = d.success
         /\ ShowErrors(d).invalid = d.invalid
         /\ ShowErrors(d).mark = [f \in Field |->
                IF f \in d.success THEN FALSE
                ELSE IF f \in d.errorMap THEN TRUE ELSE d.mark[f]]
    BY <1>8, ShowErrorsParts
  <1>11. SameAccount(ShowErrors(d), c)
    BY <1>9, <1>10 DEF SameAccount
  <1> DEFINE w == ShowErrors(d)
  <1> HIDE DEF w
  <1>12. /\ SameAccount(w, c)
         /\ w.errorMap = c.errorMap /\ w.success = c.success
         /\ w.invalid = [v.invalid EXCEPT ![g] = found]
         /\ w.mark = [f \in Field |->
                IF f \in c.success THEN FALSE
                ELSE IF f \in c.errorMap THEN TRUE ELSE v.mark[f]]
    BY <1>2, <1>9, <1>10, <1>11 DEF w
  <1>13. IsElement(w, c, v, g)
    BY <1>4, <1>12 DEF IsElement
  <1> QED BY <1>3, <1>13 DEF c, w

LEMMA ElementKeeps ==
  ASSUME NEW v, Sound(v), Shown(v), NEW g \in Field, NEW vals \in Values
  PROVE  Sound(Element(v, g, vals)) /\ Shown(Element(v, g, vals))
  <1> DEFINE c == Check(v, {g}, vals)
             w == Element(v, g, vals)
  <1>1. v \in ValidatorType
    BY DEF Sound
  <1>2. IsElement(w, c, v, g)
    BY <1>1, ElementParts
  <1>3. IsChecked(c, v, {g}, vals, Started(v, {g}, vals))
    BY <1>1, CheckParts
  <1>4. Sound(w)
    <2>1. Sound(c)
      BY CheckSound
    <2> HIDE DEF c, w
    <2> QED BY <1>2, <2>1, SameIsSound DEF IsElement
  <1> HIDE DEF c, w
  <1>5. /\ c.errorMap \subseteq {g} /\ c.success \subseteq {g}
        /\ c.errorMap \cap c.success = {} /\ v.pending \subseteq w.pending
        /\ g \in w.pending \/ g \in c.errorMap \/ g \in c.success
    <2>1. /\ c.errorMap = {f \in {g} : Outcome(v, f, vals) = "error"}
          /\ c.success = {f \in {g} : Outcome(v, f, vals) = "valid"}
          /\ w.pending = v.pending \cup {f \in {g} : Outcome(v, f, vals) = "pending"}
      BY <1>2, <1>3 DEF IsChecked, IsElement, Started, SameAccount
    <2>2. Outcome(v, g, vals) \in {"error", "pending", "valid"}
      BY NoneIsSkipped
    <2> QED BY <2>1, <2>2
  <1>6. v.invalid \in [Field -> {"unknown", "valid", "invalid"}]
    BY <1>1 DEF ValidatorType
  <1>7. LastCheckIsKept(w)
    BY <1>2, <1>5, <1>6 DEF LastCheckIsKept, IsElement
  <1>8. MarksMatch(w)
    <2> SUFFICES ASSUME NEW f \in Field, f \notin w.pending
                 PROVE  w.mark[f] = (w.invalid[f] = "invalid")
      BY DEF MarksMatch
    <2>1. CASE f = g
      BY <1>2, <1>5, <1>6, <2>1 DEF IsElement
    <2>2. CASE f # g
      <3>1. w.mark[f] = v.mark[f] /\ w.invalid[f] = v.invalid[f]
        BY <1>2, <1>5, <1>6, <2>2 DEF IsElement
      <3>2. f \notin v.pending
        BY <1>5
      <3> QED BY <3>1, <3>2 DEF MarksMatch, Shown
    <2> QED BY <2>1, <2>2
  <1> QED BY <1>4, <1>7, <1>8 DEF Shown, w

-----------------------------------------------------------------------------
(* Answers *)

\* What is true of a field that has just been answered.
IsSettled(v, f) ==
    /\ f \in v.pending /\ v.request[f] = NoRequest
    /\ v.previous[f].old # None =>
            v.previous[f].valid = (v.previous[f].old \in Accepted[f])
    /\ v.mark[f] = (v.invalid[f] = "invalid")

\* The server's answer is true of what its element remembers to have asked; a
\* refusal shows the errors of the last check again, which are still errors.
LEMMA AnsweredKeeps ==
  ASSUME NEW v, Sound(v), Shown(v), NEW g \in Field, v.request[g] # NoRequest,
         NEW valid, valid = (v.request[g].data \in Accepted[g])
  PROVE  LET w == Answered(v, g, valid)
         IN  Sound(w) /\ Shown(w) /\ IsSettled(w, g)
  <1> DEFINE told == IF v.request[g].detached THEN v.previous[g].valid ELSE valid
             request == [v.request EXCEPT ![g] = NoRequest]
             errors == IF valid THEN {} ELSE v.errorMap \cup {g}
             successes == IF valid THEN {g} ELSE v.success \ {g}
             invalid == [v.invalid EXCEPT ![g] = IF valid THEN "valid" ELSE "invalid"]
             previous == [v.previous EXCEPT ![g] = [v.previous[g] EXCEPT !.valid = told]]
             d == [v EXCEPT !.request = request, !.errorMap = errors,
                    !.success = successes, !.invalid = invalid, !.previous = previous]
             w == ShowErrors(d)
  <1>1. /\ v \in ValidatorType /\ PendingIsCounted(v) /\ PreviousIsTrue(v)
        /\ RequestIsRemembered(v) /\ valid \in BOOLEAN
    BY DEF Sound
  <1>2. Answered(v, g, valid) = w
    BY <1>1 DEF Answered, ValidatorType
  <1>3. /\ v.previous[g] \in [old : Data \cup {None}, valid : BOOLEAN]
        /\ v.invalid \in [Field -> {"unknown", "valid", "invalid"}]
        /\ v.previous \in [Field -> [old : Data \cup {None}, valid : BOOLEAN]]
        /\ v.request \in [Field -> [data : Data \cup {None}, detached : BOOLEAN]]
        /\ v.errorMap \subseteq Field /\ v.success \subseteq Field
        /\ v.mark \in [Field -> BOOLEAN]
    BY <1>1 DEF ValidatorType
  <1>4. told \in BOOLEAN
    BY <1>1, <1>3
  <1>5. previous[g].old = v.previous[g].old /\ previous[g].valid = told
    BY <1>3
  <1>6. /\ request \in [Field -> [data : Data \cup {None}, detached : BOOLEAN]]
        /\ invalid \in [Field -> {"unknown", "valid", "invalid"}]
        /\ previous \in [Field -> [old : Data \cup {None}, valid : BOOLEAN]]
        /\ errors \subseteq Field /\ successes \subseteq Field
    BY <1>3, <1>4 DEF NoRequest
  <1>7. \A f \in Field \ {g} : previous[f] = v.previous[f] /\ request[f] = v.request[f]
                /\ invalid[f] = v.invalid[f]
    BY <1>3
  <1>8. request[g] = NoRequest /\ invalid[g] = IF valid THEN "valid" ELSE "invalid"
    BY <1>3
  <1>9. /\ errors \subseteq v.errorMap \cup {g} /\ successes \subseteq v.success \cup {g}
        /\ valid => errors = {} /\ successes = {g}
        /\ ~valid => g \in errors /\ g \notin successes
    OBVIOUS
  <1>10. v.previous[g].old # None => told = (v.previous[g].old \in Accepted[g])
    BY <1>1 DEF RequestIsRemembered
  <1> HIDE DEF told, request, errors, successes, invalid, previous
  <1>11. d \in ValidatorType
    BY <1>1, <1>6 DEF ValidatorType
  <1>12. /\ d.request = request /\ d.errorMap = errors /\ d.success = successes
         /\ d.invalid = invalid /\ d.previous = previous /\ d.pending = v.pending
         /\ d.pendingRequest = v.pendingRequest /\ d.mark = v.mark
    BY <1>1 DEF ValidatorType
  <1> HIDE DEF d
  <1>13. g \in v.pending
    BY <1>1 DEF PendingIsCounted
  <1>14. Sound(d)
    <2>1. PendingIsCounted(d)
      BY <1>1, <1>7, <1>8, <1>12 DEF PendingIsCounted
    <2>2. PreviousIsTrue(d)
      BY <1>1, <1>7, <1>12, <1>13 DEF PreviousIsTrue
    <2>3. RequestIsRemembered(d)
      BY <1>1, <1>7, <1>8, <1>12 DEF RequestIsRemembered
    <2> QED BY <1>11, <2>1, <2>2, <2>3 DEF Sound
  <1>15. /\ SameAccount(w, d)
         /\ w.errorMap = d.errorMap /\ w.success = d.success /\ w.invalid = d.invalid
         /\ w.mark = [f \in Field |->
                IF f \in d.success THEN FALSE
                ELSE IF f \in d.errorMap THEN TRUE ELSE d.mark[f]]
    BY <1>11, ShowErrorsParts
  <1> HIDE DEF w
  <1>16. Sound(w)
    BY <1>14, <1>15, SameIsSound
  <1>17. LastCheckIsKept(w)
    BY <1>7, <1>8, <1>9, <1>12, <1>15 DEF LastCheckIsKept, Shown
  <1>18. MarksMatch(w)
    <2> SUFFICES ASSUME NEW f \in Field, f \notin w.pending
                 PROVE  w.mark[f] = (w.invalid[f] = "invalid")
      BY DEF MarksMatch
    <2>1. f # g /\ f \notin v.pending
      BY <1>12, <1>13, <1>15 DEF SameAccount
    <2>2. v.mark[f] = (v.invalid[f] = "invalid")
      BY <2>1 DEF Shown, MarksMatch
    <2>3. CASE f \in d.success
      <3>1. f \in v.success
        BY <1>9, <1>12, <2>1, <2>3
      <3>2. v.invalid[f] # "invalid"
        BY <3>1 DEF Shown, LastCheckIsKept
      <3>3. w.mark[f] = FALSE
        BY <1>15, <2>3
      <3> QED BY <1>7, <1>12, <1>15, <2>1, <3>2, <3>3
    <2>4. CASE f \notin d.success /\ f \in d.errorMap
      <3>1. f \in v.errorMap
        BY <1>9, <1>12, <2>1, <2>4
      <3>2. v.invalid[f] = "invalid"
        BY <3>1 DEF Shown, LastCheckIsKept
      <3>3. w.mark[f] = TRUE
        BY <1>15, <2>4
      <3> QED BY <1>7, <1>12, <1>15, <2>1, <3>2, <3>3
    <2>5. CASE f \notin d.success /\ f \notin d.errorMap
      BY <1>7, <1>12, <1>15, <2>1, <2>2, <2>5
    <2> QED BY <2>3, <2>4, <2>5
  <1>19. IsSettled(w, g)
    <2>1. g \in w.pending /\ w.request[g] = NoRequest
      BY <1>8, <1>12, <1>13, <1>15 DEF SameAccount
    <2>2. w.previous[g].old # None =>
            w.previous[g].valid = (w.previous[g].old \in Accepted[g])
      BY <1>5, <1>10, <1>12, <1>15 DEF SameAccount
    <2>3. w.mark[g] = (w.invalid[g] = "invalid")
      <3>1. CASE valid
        BY <1>8, <1>9, <1>12, <1>15, <3>1
      <3>2. CASE ~valid
        BY <1>8, <1>9, <1>12, <1>15, <3>2
      <3> QED BY <3>1, <3>2
    <2> QED BY <2>1, <2>2, <2>3 DEF IsSettled
  <1> QED BY <1>2, <1>16, <1>17, <1>18, <1>19 DEF Shown

\* stopRequest takes the field off the count.
LEMMA StoppedKeeps ==
  ASSUME NEW v, Sound(v), Shown(v), NEW g \in Field, IsSettled(v, g)
  PROVE  Sound(Stopped(v, g)) /\ Shown(Stopped(v, g))
  <1> DEFINE count == IF v.pendingRequest = 0 THEN 0 ELSE v.pendingRequest - 1
             w == [v EXCEPT !.pendingRequest = count, !.pending = v.pending \ {g}]
  <1>1. /\ v \in ValidatorType /\ PendingIsCounted(v) /\ PreviousIsTrue(v)
        /\ RequestIsRemembered(v)
    BY DEF Sound
  <1>2. Stopped(v, g) = w
    BY Zenon DEF Stopped
  <1>3. count \in Nat /\ v.pending \subseteq Field
    BY <1>1 DEF ValidatorType
  <1>4. /\ IsFiniteSet(v.pending) /\ g \in v.pending
        /\ Cardinality(v.pending) \in Nat
    BY <1>3, FormAssumption, FS_Subset, FS_CardinalityType DEF FormAssumption, IsSettled
  <1>5. Cardinality(v.pending \ {g}) = Cardinality(v.pending) - 1
    BY <1>4, FS_RemoveElement
  <1>6. Cardinality(v.pending) # 0
    BY <1>4, FS_EmptySet
  <1>7. count = Cardinality(v.pending \ {g})
    BY <1>1, <1>4, <1>5, <1>6 DEF PendingIsCounted
  <1> HIDE DEF count
  <1>8. w \in ValidatorType
    BY <1>1, <1>3 DEF ValidatorType
  <1>9. /\ w.pendingRequest = count /\ w.pending = v.pending \ {g}
        /\ w.previous = v.previous /\ w.request = v.request
        /\ w.errorMap = v.errorMap /\ w.success = v.success
        /\ w.invalid = v.invalid /\ w.mark = v.mark
    BY <1>1 DEF ValidatorType
  <1> HIDE DEF w
  <1>10. PendingIsCounted(w)
    BY <1>1, <1>7, <1>9 DEF PendingIsCounted, IsSettled
  <1>11. PreviousIsTrue(w)
    BY <1>1, <1>9 DEF PreviousIsTrue, IsSettled
  <1>12. RequestIsRemembered(w)
    BY <1>1, <1>9 DEF RequestIsRemembered
  <1>13. LastCheckIsKept(w)
    BY <1>9 DEF Shown, LastCheckIsKept
  <1>14. MarksMatch(w)
    BY <1>9 DEF Shown, MarksMatch, IsSettled
  <1> QED BY <1>2, <1>8, <1>10, <1>11, <1>12, <1>13, <1>14 DEF Sound, Shown

\* Every field meets its attributes.
AllMeet == \A f \in Field : \A a \in Attributes[f] : Meets(f, a)

\* A form found valid with nothing pending meets all of its attributes: what is
\* remembered of the server is true, and about the values there are.
LEMMA ValidMeets ==
  ASSUME NEW v, Sound(v), value \in Values,
         Form(v, value).errorMap = {}, Form(v, value).pendingRequest = 0
  PROVE  AllMeet
  <1> DEFINE c == Check(v, Field, value)
  <1>1. v \in ValidatorType /\ PreviousIsTrue(v)
    BY DEF Sound
  <1>2. Sound(c)
    BY CheckSound
  <1>3. IsChecked(c, v, Field, value, Started(v, Field, value))
    BY <1>1, CheckParts
  <1>4. c.errorMap = {} /\ c.pendingRequest = 0
    <2>1. IsForm(Form(v, value), c, v)
      BY <1>1, FormParts
    <2> HIDE DEF c
    <2> QED BY <2>1 DEF IsForm, SameAccount
  <1> HIDE DEF c
  <1>5. c.pending = {}
    <2>1. c.pending \subseteq Field /\ c.pendingRequest = Cardinality(c.pending)
      BY <1>2 DEF Sound, PendingIsCounted, ValidatorType
    <2>2. IsFiniteSet(c.pending)
      BY <2>1, FormAssumption, FS_Subset DEF FormAssumption
    <2> QED BY <1>4, <2>1, <2>2, FS_EmptySet
  <1> SUFFICES ASSUME NEW f \in Field, NEW a \in Attributes[f]
               PROVE  Meets(f, a)
    BY DEF AllMeet
  <1>6. Outcome(v, f, value) = "valid" /\ f \notin v.pending
    <2>1. Outcome(v, f, value) \in {"error", "pending", "valid"}
      BY NoneIsSkipped
    <2> QED BY <1>3, <1>4, <1>5, <2>1 DEF IsChecked, Started
  <1>7. \A rule \in Rules[f] : Passes(rule, value[f])
    BY <1>6 DEF Outcome
  <1>8. ASSUME a.adapter = "remote", ~IsEmpty(value[f])
        PROVE  DataOf(f, value) \in Accepted[f]
    <2>1. RemoteRules[f] # {}
      <3> DEFINE r == [Rule("remote") EXCEPT !.fields =
                        IF a.fields = {} THEN {f} ELSE a.fields]
      <3>1. r \in Adapt(f, a)
        BY <1>8 DEF Adapt
      <3>2. r \in Rules[f]
        BY <3>1 DEF Rules
      <3>3. r.name = "remote"
        BY DEF Rule
      <3> QED BY <3>2, <3>3 DEF RemoteRules
    <2>2. /\ v.previous[f].old = DataOf(f, value)
          /\ v.previous[f].valid
      BY <1>6, <1>7, <1>8, <2>1 DEF Outcome
    <2>3. DataOf(f, value) # None
      BY DataIsData
    <2> QED BY <1>1, <1>6, <2>2, <2>3 DEF PreviousIsTrue
  <1> QED BY <1>7, <1>8, PassingMeets

LEMMA WithFormSubmitted ==
  ASSUME NEW v \in ValidatorType, NEW b \in BOOLEAN
  PROVE  SameButSubmit([v EXCEPT !.formSubmitted = b], v)
  BY DEF ValidatorType, SameButSubmit, SameAccount

\* The handler of submit.
LEMMA SubmittedKeeps ==
  ASSUME NEW v, Sound(v), value \in Values
  PROVE  LET s == Submitted(v, value)
         IN  /\ s.validator \in ValidatorType
             /\ Sound(s.validator) /\ Shown(s.validator)
             /\ s.sent \in BOOLEAN /\ (s.sent => AllMeet)
  <1> DEFINE w == Form(v, value)
             x == [w EXCEPT !.formSubmitted = TRUE]
             s == Submitted(v, value)
  <1>1. Sound(w) /\ Shown(w)
    BY FormKeeps
  <1>2. w \in ValidatorType
    BY <1>1 DEF Sound
  <1>3. SameButSubmit(x, w)
    BY <1>2, WithFormSubmitted
  <1>4. Sound(x) /\ Shown(x)
    <2>1. SameAccount(x, w)
      BY <1>3 DEF SameButSubmit
    <2> HIDE DEF x, w
    <2> QED BY <1>1, <1>3, <2>1, SameIsSound, SameIsShown
  <1>5. \/ s = Kept(w) \/ s = Kept(x)
        \/ s = Out(w) /\ w.errorMap = {} /\ ~(w.pendingRequest > 0)
    <2>1. s = IF w.errorMap # {} THEN Kept(w)
              ELSE IF w.pendingRequest > 0 THEN Kept(x) ELSE Out(w)
      BY Zenon DEF Submitted, Decided
    <2> HIDE DEF w, x, s
    <2> QED BY <2>1
  <1>6. ~(w.pendingRequest > 0) => w.pendingRequest = 0
    BY <1>2 DEF ValidatorType
  <1>7. w.errorMap = {} /\ w.pendingRequest = 0 => AllMeet
    BY ValidMeets
  <1> HIDE DEF w, x, s
  <1>8. Sound(s.validator) /\ Shown(s.validator) /\ s.sent \in BOOLEAN /\ (s.sent => AllMeet)
    <2>1. \A y : Kept(y).validator = y /\ Kept(y).sent = FALSE
      BY DEF Kept
    <2>2. \A y : Out(y).validator = y /\ Out(y).sent = TRUE
      BY DEF Out
    <2>3. CASE s = Kept(w)
      BY <1>1, <2>1, <2>3
    <2>4. CASE s = Kept(x)
      BY <1>4, <2>1, <2>4
    <2>5. CASE s = Out(w) /\ w.errorMap = {} /\ ~(w.pendingRequest > 0)
      BY <1>1, <1>6, <1>7, <2>2, <2>5
    <2> QED BY <1>5, <2>3, <2>4, <2>5
  <1> QED BY <1>8 DEF Sound, s

\* stopRequest after an answer: whatever it does with a form that waits.
LEMMA StopRequestKeeps ==
  ASSUME NEW v, Sound(v), Shown(v), NEW g \in Field, IsSettled(v, g),
         value \in Values, NEW valid \in BOOLEAN
  PROVE  LET s == StopRequest(v, g, valid, value)
         IN  /\ Sound(s.validator) /\ Shown(s.validator)
             /\ s.sent \in BOOLEAN /\ (s.sent => AllMeet)
  <1> DEFINE w == Stopped(v, g)
             isLast == w.pendingRequest = 0 /\ w.formSubmitted
             checked == Form(w, value)
             out == Submitted(checked, value)
             calm == [out EXCEPT !.validator.formSubmitted = FALSE]
             refused == [InvalidForm(w) EXCEPT !.formSubmitted = FALSE]
             s == StopRequest(v, g, valid, value)
  <1>1. Sound(w) /\ Shown(w)
    BY StoppedKeeps
  <1>2. Sound(checked) /\ Shown(checked)
    BY <1>1, FormKeeps
  <1>3. /\ out.validator \in ValidatorType
        /\ Sound(out.validator) /\ Shown(out.validator)
        /\ out.sent \in BOOLEAN /\ (out.sent => AllMeet)
    BY <1>2, SubmittedKeeps
  <1>4. /\ calm.validator = [out.validator EXCEPT !.formSubmitted = FALSE]
        /\ calm.sent = out.sent
    <2>1. out = Kept(out.validator) \/ out = Out(out.validator)
      BY DEF Submitted, Decided, Kept, Out
    <2> HIDE DEF out
    <2> QED BY <2>1 DEF Kept, Out
  <1>5. Sound(calm.validator) /\ Shown(calm.validator)
    <2>1. SameButSubmit(calm.validator, out.validator)
      BY <1>3, <1>4, WithFormSubmitted
    <2>2. SameAccount(calm.validator, out.validator)
      BY <2>1 DEF SameButSubmit
    <2> HIDE DEF calm, out
    <2> QED BY <1>3, <2>1, <2>2, SameIsSound, SameIsShown
  <1>6. Sound(refused) /\ Shown(refused)
    <2>1. w \in ValidatorType
      BY <1>1 DEF Sound
    <2>2. SameButSubmit(InvalidForm(w), w)
      BY <2>1, InvalidFormParts
    <2>3. InvalidForm(w) \in ValidatorType
      BY <2>2 DEF SameButSubmit, SameAccount
    <2>4. SameButSubmit(refused, InvalidForm(w))
      BY <2>3, WithFormSubmitted
    <2>5. SameButSubmit(refused, w) /\ SameAccount(refused, w)
      BY <2>2, <2>4 DEF SameButSubmit, SameAccount
    <2> HIDE DEF refused, w
    <2> QED BY <1>1, <2>5, SameIsSound, SameIsShown
  <1>7. s = calm \/ s = Kept(checked) \/ s = Kept(refused) \/ s = Kept(w)
    <2>1. s = IF isLast /\ valid
              THEN IF checked.errorMap = {} /\ checked.pendingRequest = 0
                   THEN calm ELSE Kept(checked)
              ELSE IF isLast THEN Kept(refused) ELSE Kept(w)
      BY Zenon DEF StopRequest, Resumed, SubmittedAgain
    <2> HIDE DEF s, isLast, calm, checked, refused, w
    <2> QED BY <2>1
  <1>8. \A y : Kept(y).validator = y /\ Kept(y).sent = FALSE
    BY DEF Kept
  <1> HIDE DEF s, calm, checked, refused, w, isLast, out
  <1>9. CASE s = calm
    BY <1>3, <1>4, <1>5, <1>9 DEF s
  <1>10. CASE s = Kept(checked)
    BY <1>2, <1>8, <1>10 DEF s
  <1>11. CASE s = Kept(refused)
    BY <1>6, <1>8, <1>11 DEF s
  <1>12. CASE s = Kept(w)
    BY <1>1, <1>8, <1>12 DEF s
  <1> QED BY <1>7, <1>9, <1>10, <1>11, <1>12

LEMMA FreshKeeps ==
  /\ FreshValidator \in ValidatorType
  /\ Sound(FreshValidator) /\ Shown(FreshValidator)
  <1>1. FreshValidator \in ValidatorType
    BY DEF FreshValidator, ValidatorType, NoPrevious, NoRequest
  <1>2. /\ FreshValidator.pending = {} /\ FreshValidator.pendingRequest = 0
        /\ FreshValidator.previous = [f \in Field |-> NoPrevious]
        /\ FreshValidator.request = [f \in Field |-> NoRequest]
        /\ FreshValidator.errorMap = {} /\ FreshValidator.success = {}
        /\ FreshValidator.invalid = [f \in Field |-> "unknown"]
        /\ FreshValidator.mark = [f \in Field |-> FALSE]
    BY DEF FreshValidator
  <1>3. PendingIsCounted(FreshValidator)
    BY <1>2, FS_EmptySet DEF PendingIsCounted
  <1>4. PreviousIsTrue(FreshValidator) /\ RequestIsRemembered(FreshValidator)
    BY <1>2 DEF PreviousIsTrue, RequestIsRemembered, NoPrevious
  <1>5. Shown(FreshValidator)
    BY <1>2 DEF Shown, LastCheckIsKept, MarksMatch
  <1> QED BY <1>1, <1>3, <1>4, <1>5 DEF Sound

\* A reset forgets what was answered, not what is asked.
LEMMA ResetFormKeeps ==
  ASSUME NEW v, Sound(v)
  PROVE  Sound(ResetForm(v)) /\ Shown(ResetForm(v))
  <1> DEFINE w == ResetForm(v)
             request == [f \in Field |->
                IF v.request[f] = NoRequest THEN NoRequest
                ELSE [v.request[f] EXCEPT !.detached = TRUE]]
  <1>1. v \in ValidatorType /\ PendingIsCounted(v)
    BY DEF Sound
  <1>2. \A f \in Field : v.request[f] \in [data : Data \cup {None}, detached : BOOLEAN]
    BY <1>1 DEF ValidatorType
  <1>3. request \in [Field -> [data : Data \cup {None}, detached : BOOLEAN]]
    BY <1>2 DEF NoRequest
  <1>4. \A f \in Field : request[f] # NoRequest =>
            request[f].detached /\ v.request[f] # NoRequest
    BY <1>2 DEF NoRequest
  <1>5. /\ w.request = request /\ w.pending = v.pending
        /\ w.pendingRequest = v.pendingRequest
        /\ w.previous = [f \in Field |-> NoPrevious]
        /\ w.errorMap = {} /\ w.success = {}
        /\ w.invalid = [f \in Field |-> "unknown"] /\ w.mark = [f \in Field |-> FALSE]
    BY <1>1 DEF ResetForm, FreshValidator, ValidatorType
  <1>6. w \in ValidatorType
    <2>1. \A r \in [Field -> [data : Data \cup {None}, detached : BOOLEAN]],
             p \in [Field -> [old : Data \cup {None}, valid : BOOLEAN]],
             i \in [Field -> {"unknown", "valid", "invalid"}], m \in [Field -> BOOLEAN] :
            [v EXCEPT !.invalid = i, !.submitted = {}, !.errorMap = {}, !.success = {},
                !.previous = p, !.request = r, !.mark = m, !.summary = {}] \in ValidatorType
      BY <1>1 DEF ValidatorType
    <2>2. w = [v EXCEPT !.invalid = FreshValidator.invalid, !.submitted = {},
                !.errorMap = {}, !.success = {}, !.previous = FreshValidator.previous,
                !.request = request, !.mark = FreshValidator.mark, !.summary = {}]
      BY Zenon DEF ResetForm
    <2>3. /\ FreshValidator.invalid \in [Field -> {"unknown", "valid", "invalid"}]
          /\ FreshValidator.previous \in [Field -> [old : Data \cup {None}, valid : BOOLEAN]]
          /\ FreshValidator.mark \in [Field -> BOOLEAN]
      BY FreshKeeps DEF ValidatorType
    <2> HIDE DEF w, request
    <2> QED BY <1>3, <2>1, <2>2, <2>3
  <1> HIDE DEF w, request
  <1>7. PendingIsCounted(w)
    BY <1>1, <1>4, <1>5 DEF PendingIsCounted
  <1>8. PreviousIsTrue(w) /\ RequestIsRemembered(w)
    BY <1>4, <1>5 DEF PreviousIsTrue, RequestIsRemembered, NoPrevious
  <1>9. Shown(w)
    BY <1>5 DEF Shown, LastCheckIsKept, MarksMatch
  <1> QED BY <1>6, <1>7, <1>8, <1>9 DEF Sound, w

-----------------------------------------------------------------------------
(* The specification *)

\* The inductive invariant: the account of requests, what is shown, and what has
\* been let out.
FormInv ==
    /\ TypeOK
    /\ Sound(validator) /\ Shown(validator)
    /\ attached /\ sent => AllMeet

LEMMA InitFormInv == Init => FormInv
  BY FreshKeeps, FormAssumption DEF Init, FormInv, TypeOK, FormAssumption

LEMMA NextFormInv == FormInv /\ [Next]_vars => FormInv'
  <1> SUFFICES ASSUME FormInv, [Next]_vars PROVE FormInv'
    OBVIOUS
  <1>1. /\ attached \in BOOLEAN /\ sent \in BOOLEAN /\ value \in Values
        /\ Sound(validator) /\ Shown(validator) /\ validator \in ValidatorType
        /\ attached /\ sent => AllMeet
    BY DEF FormInv, TypeOK, Values
  <1>2. ASSUME attached' \in BOOLEAN, sent' \in BOOLEAN, value' \in Values,
               Sound(validator'), Shown(validator'), attached' /\ sent' => AllMeet'
        PROVE  FormInv'
    <2>1. validator' \in ValidatorType
      BY <1>2 DEF Sound
    <2>2. Sound(validator)' /\ Shown(validator)'
      BY <1>2
    <2> QED BY <1>2, <2>1, <2>2 DEF FormInv, TypeOK, Values
  <1>3. ASSUME value' = value, AllMeet PROVE AllMeet'
    BY <1>3 DEF AllMeet, Meets
  <1>4. CASE Ready
    BY <1>1, <1>2, <1>4 DEF Ready
  <1>5. CASE Submit
    <2>1. CASE attached
      <3> DEFINE s == Submitted(validator, value)
      <3>1. /\ Sound(s.validator) /\ Shown(s.validator)
            /\ s.sent \in BOOLEAN /\ (s.sent => AllMeet)
        BY <1>1, SubmittedKeeps
      <3>2. validator' = s.validator /\ sent' = s.sent /\ value' = value /\ attached' = attached
        BY <1>5, <2>1 DEF Submit
      <3> HIDE DEF s
      <3> QED BY <1>1, <1>2, <1>3, <3>1, <3>2
    <2>2. CASE ~attached
      BY <1>1, <1>2, <1>5, <2>2 DEF Submit
    <2> QED BY <2>1, <2>2
  <1>6. CASE Reset
    <2>1. Default \in Values
      BY FormAssumption DEF FormAssumption, Values
    <2>2. Sound(ResetForm(validator)) /\ Shown(ResetForm(validator))
      BY <1>1, ResetFormKeeps
    <2>3. validator' = ResetForm(validator) \/ validator' = validator
      BY <1>6 DEF Reset
    <2>4. Sound(validator') /\ Shown(validator')
      BY <1>1, <2>2, <2>3
    <2> QED BY <1>1, <1>2, <1>6, <2>1, <2>4 DEF Reset
  <1>7. CASE NewPage
    <2>1. Default \in Values
      BY FormAssumption DEF FormAssumption, Values
    <2> QED BY <1>1, <1>2, <1>7, <2>1, FreshKeeps DEF NewPage
  <1>8. ASSUME NEW f \in Field, NEW val \in Entry[f], Edit(f, val)
        PROVE  FormInv'
    <2>1. value' \in Values
      BY <1>1, <1>8, FormAssumption DEF Edit, Values, FormAssumption
    <2>2. Sound(Element(validator, f, value')) /\ Shown(Element(validator, f, value'))
      BY <1>1, <2>1, ElementKeeps
    <2>3. validator' = Element(validator, f, value') \/ validator' = validator
      BY <1>8 DEF Edit
    <2>4. Sound(validator') /\ Shown(validator')
      BY <1>1, <2>2, <2>3
    <2> QED BY <1>1, <1>2, <1>8, <2>1, <2>4 DEF Edit
  <1>9. ASSUME NEW f \in Field, NEW val \in Entry[f], Paste(f, val)
        PROVE  FormInv'
    <2>1. value' \in Values
      BY <1>1, <1>9, FormAssumption DEF Paste, Values, FormAssumption
    <2>2. Sound(validator') /\ Shown(validator')
      BY <1>1, <1>9 DEF Paste
    <2> QED BY <1>1, <1>2, <1>9, <2>1, <2>2 DEF Paste
  <1>10. ASSUME NEW f \in Field, Leave(f)
         PROVE  FormInv'
    <2>1. Sound(Element(validator, f, value)) /\ Shown(Element(validator, f, value))
      BY <1>1, ElementKeeps
    <2>2. Sound(validator') /\ Shown(validator')
      BY <1>10, <2>1 DEF Leave
    <2> QED BY <1>1, <1>2, <1>10, <2>2 DEF Leave
  <1>11. ASSUME NEW f \in Field, Answer(f)
         PROVE  FormInv'
    <2> DEFINE valid == validator.request[f].data \in Accepted[f]
               a == Answered(validator, f, valid)
               s == StopRequest(a, f, valid, value)
    <2>1. /\ validator' = s.validator /\ sent' = s.sent /\ value' = value
          /\ attached' = attached /\ validator.request[f] # NoRequest
      BY <1>11 DEF Answer
    <2>2. Sound(a) /\ Shown(a) /\ IsSettled(a, f)
      BY <1>1, <2>1, AnsweredKeeps
    <2>3. valid \in BOOLEAN
      OBVIOUS
    <2> HIDE DEF valid, a
    <2>4. /\ Sound(s.validator) /\ Shown(s.validator)
          /\ s.sent \in BOOLEAN /\ (s.sent => AllMeet)
      BY <1>1, <2>2, <2>3, StopRequestKeeps
    <2> HIDE DEF s
    <2> QED BY <1>1, <1>2, <1>3, <2>1, <2>4
  <1>12. ASSUME NEW f \in Field, AnswerFails(f)
         PROVE  FormInv'
    <2> DEFINE w == validator'
               request == [validator.request EXCEPT ![f] = NoRequest]
    <2>1. w = [validator EXCEPT !.request = request]
      BY <1>1, <1>12 DEF AnswerFails, ValidatorType
    <2>2. validator.request \in [Field -> [data : Data \cup {None}, detached : BOOLEAN]]
      BY <1>1 DEF ValidatorType
    <2>3. /\ request \in [Field -> [data : Data \cup {None}, detached : BOOLEAN]]
          /\ \A g \in Field : request[g] # NoRequest => request[g] = validator.request[g]
      BY <2>2 DEF NoRequest
    <2> HIDE DEF request, w
    <2>4. /\ w \in ValidatorType /\ w.request = request
          /\ w.pending = validator.pending /\ w.pendingRequest = validator.pendingRequest
          /\ w.previous = validator.previous
          /\ w.errorMap = validator.errorMap /\ w.success = validator.success
          /\ w.invalid = validator.invalid /\ w.mark = validator.mark
      BY <1>1, <2>1, <2>3 DEF ValidatorType
    <2>5. Sound(w)
      <3>1. PendingIsCounted(w)
        BY <1>1, <2>3, <2>4 DEF Sound, PendingIsCounted
      <3>2. PreviousIsTrue(w)
        BY <1>1, <2>4 DEF Sound, PreviousIsTrue
      <3>3. RequestIsRemembered(w)
        BY <1>1, <2>3, <2>4 DEF Sound, RequestIsRemembered
      <3> QED BY <2>4, <3>1, <3>2, <3>3 DEF Sound
    <2>6. Shown(w)
      BY <1>1, <2>4 DEF Shown, LastCheckIsKept, MarksMatch
    <2>7. Sound(validator') /\ Shown(validator')
      BY <2>5, <2>6 DEF w
    <2> QED BY <1>1, <1>2, <1>12, <2>7 DEF AnswerFails
  <1>13. CASE UNCHANGED vars
    BY <1>1, <1>2, <1>3, <1>13 DEF vars
  <1> QED
    BY <1>4, <1>5, <1>6, <1>7, <1>8, <1>9, <1>10, <1>11, <1>12, <1>13 DEF Next

\* The invariant holds of every behaviour.
THEOREM FormInvHolds == Spec => []FormInv
  BY InitFormInv, NextFormInv, PTL DEF Spec

\* For any form and any server: what the validator counts as pending, and what
\* its fields remember of the server, is right after any edits, resets, late and
\* lost answers.
THEOREM ValidatorInductiveHolds == Spec => []ValidatorInductive
  <1>1. FormInv => ValidatorInductive
    BY DEF FormInv, ValidatorInductive, Sound, Shown
  <1> QED BY <1>1, FormInvHolds, PTL

\* For any form and any server: the marks made by onError, onSuccess and onReset
\* are the validator's errors wherever no answer is awaited.
THEOREM MarksMatchErrorsHold == Spec => []MarksMatchErrors
  <1>1. FormInv => MarksMatchErrors
    BY DEF FormInv, MarksMatchErrors, Shown
  <1> QED BY <1>1, FormInvHolds, PTL

\* For any form whose attributes are of Adapter (all of whose rules have a method in
\* the library the pages load) and any server: what the validator lets out, at once
\* or after the last answer, meets every attribute of every field, the remote ones
\* included.
THEOREM SubmitsOnlyValidHolds == Spec => []SubmitsOnlyValid
  <1>1. FormInv => SubmitsOnlyValid
    BY DEF FormInv, SubmitsOnlyValid, AllMeet
  <1> QED BY <1>1, FormInvHolds, PTL

=============================================================================
