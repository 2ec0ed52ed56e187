------------------------- MODULE MCFormValidation -------------------------
(* A small form for TLC. *)
EXTENDS FormValidation, TLC

CONSTANTS title, owner

OfLength(n) == [length |-> n, whole |-> TRUE, formed |-> TRUE]
Blank == OfLength(0)
Short == OfLength(1)
Fit   == OfLength(2)

MCField == {title, owner}
MCValue == {Blank, Short, Fit}

\* Only a reset empties the title again.
MCEntry == title :> {Short, Fit} @@ owner :> MCValue

At(adapter) == [adapter |-> adapter, min |-> None, max |-> None, fields |-> {}]

\* title is optional; the remote rule of owner is about both fields.
MCAttributes ==
    title :> {At("remote")} @@
    owner :> {At("required"),
              [At("length") EXCEPT !.min = 2, !.max = 3],
              [At("remote") EXCEPT !.fields = {title, owner}]}

MCDefault == [f \in MCField |-> Blank]

\* The server accepts the title, and owners only together with it.
MCAccepted ==
    title :> {title :> Fit} @@
    owner :> {title :> Fit @@ owner :> o : o \in {Short, Fit}}

=============================================================================
