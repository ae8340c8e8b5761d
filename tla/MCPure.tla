------------------------------- MODULE MCPure -------------------------------
(***************************************************************************)
(* The four parts that work on data alone, checked in one run: a behaviour *)
(* is one of PathRules, of JsonFields, of Base64 or of Inference, and what *)
(* the other three would work on stays as it is.                           *)
(***************************************************************************)
EXTENDS PathRules, JsonFields, Base64, Inference

VARIABLE part

vars == <<part, typed, json, b64, net>>

(* Roots that are relative or absolute, and end in a slash or not.         *)
MCRoots == {<<"r">>, <<"r", "/">>, <<"/", "r", "/", "r">>}

(* What has to be escaped, the letter of an escape, and the letters of a   *)
(* key that is read and set and of one that is read as a number.           *)
MCTextChars == {Quote, Back, Feed, "n", "r", "p"}

(* The key of the task id and what it can be set in quotes with.           *)
MCTemplateChars == {Quote, "t"}

(* Boxes that reach over the canvas on both sides.                         *)
MCNoise == {[a \in Axes |-> [lo |-> -5, hi |-> 9, den |-> 2]]}

(* Negative, zero, a fraction, and one that takes coordinates past an int. *)
MCScales == {<<-2, 1>>, <<0, 1>>, <<1, 2>>, <<3, 1>>}

(* Where a part stays that a behaviour is not of.                          *)
Idle(p) ==
  /\ p # "path" => typed = <<>>
  /\ p # "json" => json = [form |-> "bare", field |-> "t", text |-> <<>>]
  /\ p # "b64"  => B64Init
  /\ p # "net"  => net = [mode |-> "worker", at |-> "wait", size |-> Blank, sight |-> {},
                          scaled |-> Blank, outputs |-> {}, own |-> FALSE, doomed |-> FALSE,
                          said |-> "nothing", defects |-> {}]

PureInit == Init /\ JsonInit /\ B64Init /\ InfInit /\ part \in {"path", "json", "b64", "net"} /\ Idle(part)

PathStep == part = "path" /\ Next /\ UNCHANGED <<part, json, b64, net>>

JsonStep == part = "json" /\ JsonNext /\ UNCHANGED <<part, typed, b64, net>>

B64Step == part = "b64" /\ B64Next /\ UNCHANGED <<part, typed, json, net>>

InfStep == part = "net" /\ InfNext /\ UNCHANGED <<part, typed, json, b64>>

PureNext == PathStep \/ JsonStep \/ B64Step \/ InfStep

PureSpec == PureInit /\ [][PureNext]_vars

=============================================================================
