----------------------------- MODULE JsonFields -----------------------------
(***************************************************************************)
(* The JSON of the service and of the client library, which is written by  *)
(* putting texts together and read by looking for texts in it              *)
(* (src/service_protocol.cpp, caller_client_cpp/src/protocol.cpp; what both*)
(* have is the same text).  A key is one letter here, a text a sequence of *)
(* characters; the state is a message in which one value is being typed.   *)
(***************************************************************************)
EXTENDS Integers, Sequences, FiniteSets, SequencesExt

CONSTANTS
  TextChars,      \* characters of the value that is typed
  MaxTextLength   \* bound: its length

Quote == "\""
Back  == "\\"
Feed  == "LF"     \* a control character that has an escape of its own
Space == " "

ASSUME TextAssumption == MaxTextLength \in Nat

-----------------------------------------------------------------------------
(* The messages and their fields, in the order they are written.           *)

Fields ==
  [submit    |-> <<"c", "v", "t", "q", "r", "a", "p">>,   \* and the job file
   oldSubmit |-> <<"c", "v", "t", "f", "g", "a", "p">>,
   state     |-> <<"v", "t", "s", "q", "r", "a", "p", "x">>,
   reply     |-> <<"c", "v", "t", "s", "r", "x">>,
   input     |-> <<"d", "m", "t", "h", "b">>,
   bare      |-> <<>>]                                    \* {}

Forms == DOMAIN Fields

(* Numbers are written without quotes and have a value when not there.     *)
Numbers == {"p", "h"}

Default == [k \in Numbers |-> IF k = "p" THEN <<"0">> ELSE <<"1">>]

NumberChars == {"0", "1", "2", "-", "+", ".", "e", "E"}

(* Written only when not empty; and the earlier names of two fields.       *)
Optional == [form \in Forms |-> IF form = "state" THEN {"x"}
                                ELSE IF form = "reply" THEN {"r", "x"} ELSE {}]

EarlierName == [k \in {"q", "r"} |-> IF k = "q" THEN "f" ELSE "g"]

(* The other keys, which are those of strings.                             *)
Texts == {"c", "v", "t", "q", "r", "f", "g", "a", "s", "x", "d", "m", "b"}

(* What a field holds that nothing was typed in.                           *)
Usual == [k \in Texts \cup Numbers |-> IF k \in Numbers THEN <<"2">> ELSE <<"U", k>>]

VARIABLE json   \* form of the message, field that is typed, the text so far

Strings(form) == IF Fields[form] = <<>> THEN {"t"} ELSE ToSet(Fields[form]) \ Numbers

JsonInit ==
  json \in UNION {[form : {form}, field : Strings(form), text : {<<>>}] : form \in Forms}

TypeText(c) ==
  /\ Len(json.text) < MaxTextLength
  /\ json' = [json EXCEPT !.text = Append(@, c)]

JsonNext == \E c \in TextChars : TypeText(c)

JsonSpec == JsonInit /\ [][JsonNext]_json

-----------------------------------------------------------------------------
(* Writing.                                                                *)

Joined(texts) ==
  LET upTo[n \in 0 .. Len(texts)] == IF n = 0 THEN <<>> ELSE upTo[n - 1] \o texts[n]
  IN  upTo[Len(texts)]

(* Variant: it is only quotes that are escaped.                            *)
EscapeQuotes(v) ==
  Joined([i \in DOMAIN v |-> IF v[i] = Quote THEN <<Back, Quote>> ELSE <<v[i]>>])

EscapeJsonString(v) ==
  Joined([i \in DOMAIN v |-> IF v[i] \in {Quote, Back} THEN <<Back, v[i]>>
                             ELSE IF v[i] = Feed THEN <<Back, "n">> ELSE <<v[i]>>])

Quoted(v) == <<Quote>> \o v \o <<Quote>>

FieldText(k, v, gap) ==
  Quoted(<<k>>) \o <<":">> \o gap \o IF k \in Numbers THEN v ELSE Quoted(EscapeJsonString(v))

(* BuildSubmitJson, BuildSubmitJobJson, BuildTaskStateJson and             *)
(* BuildTaskReplyJson; a file for the input has blanks in it.              *)
Build(fields, values, gap) ==
  <<"{">> \o Joined([i \in DOMAIN fields |->
                       (IF i = 1 THEN <<>> ELSE <<",">>)
                         \o FieldText(fields[i], values[fields[i]], gap)]) \o <<"}">>

-----------------------------------------------------------------------------
(* Reading.  0 is a position that was not found.                           *)

First1(S) == IF S = {} THEN 0 ELSE Min(S)

(* The first place where the key stands in quotes, as a key or not.        *)
FindKey(text, k) == First1({i \in 1 .. Len(text) - 2 : SubSeq(text, i, i + 2) = Quoted(<<k>>)})

FindValueStart(text, key) ==
  LET colon == First1({i \in key .. Len(text) : text[i] = ":"})
  IN  IF key = 0 \/ colon = 0 THEN 0
      ELSE Min({i \in colon + 1 .. Len(text) + 1 :
                  i > Len(text) \/ text[i] # Space})

StringAt(text, at) == at # 0 /\ at <= Len(text) /\ text[at] = Quote

(* Variant: an escaped quote ends a string as well.                        *)
FindFirstQuote(text, at) ==
  IF StringAt(text, at) THEN First1({i \in at + 1 .. Len(text) : text[i] = Quote}) ELSE 0

(* A quote ends a string unless a backslash before it takes it.            *)
FindStringEnd(text, at) ==
  LET end[i \in at + 1 .. Len(text) + 2] ==
        IF i > Len(text) THEN 0
        ELSE IF text[i] = Back THEN end[i + 2]
        ELSE IF text[i] = Quote THEN i ELSE end[i + 1]
  IN  IF StringAt(text, at) THEN end[at + 1] ELSE 0

(* What a string says: escapes are taken back, up to the closing quote.    *)
ParseJsonStringValue(text, at) ==
  LET rest[i \in at + 1 .. Len(text) + 2] ==
        IF i > Len(text) \/ text[i] = Quote THEN <<>>
        ELSE IF text[i] # Back THEN <<text[i]>> \o rest[i + 1]
        ELSE IF i = Len(text) THEN <<>>
        ELSE <<IF text[i + 1] = "n" THEN Feed ELSE text[i + 1]>> \o rest[i + 2]
  IN  IF StringAt(text, at) THEN rest[at + 1] ELSE <<>>

ExtractJsonString(text, k) == ParseJsonStringValue(text, FindValueStart(text, FindKey(text, k)))

ExtractJsonNumber(text, k) ==
  LET at  == FindValueStart(text, FindKey(text, k))
      end == Min({i \in at .. Len(text) + 1 : i > Len(text) \/ text[i] \notin NumberChars})
  IN  IF at = 0 \/ end = at THEN Default[k] ELSE SubSeq(text, at, end - 1)

(* A field of ParseSubmitRequest, ParseTaskState, ParseTaskReply or        *)
(* ParseInputRequest; only the first has earlier names.                    *)
Parse(form, text, k) ==
  LET v == ExtractJsonString(text, k)
  IN  IF k \in Numbers THEN ExtractJsonNumber(text, k)
      ELSE IF v = <<>> /\ form \in {"submit", "oldSubmit"} /\ k \in DOMAIN EarlierName
           THEN ExtractJsonString(text, EarlierName[k])
           ELSE v

(* Where there is a string for the key it is replaced, where there is no   *)
(* key a field is put before the last brace.                               *)
UpsertJsonString(text, k, v) ==
  LET key   == FindKey(text, k)
      at    == FindValueStart(text, key)
      end   == FindStringEnd(text, at)
      open  == First1({i \in DOMAIN text : text[i] = "{"})
      close == SelectLastInSeq(text, LAMBDA c : c = "}")
      comma == IF \E i \in open + 1 .. close - 1 : text[i] # Space THEN <<",">> ELSE <<>>
  IN  IF key # 0
      THEN IF at = 0 \/ end = 0 THEN text
           ELSE SubSeq(text, 1, at - 1) \o Quoted(EscapeJsonString(v))
                  \o SubSeq(text, end + 1, Len(text))
      ELSE IF close = 0 \/ open = 0 \/ open > close THEN text
           ELSE SubSeq(text, 1, close - 1) \o comma \o Quoted(<<k>>) \o <<":">>
                  \o Quoted(EscapeJsonString(v)) \o SubSeq(text, close, Len(text))

-----------------------------------------------------------------------------
(* The message at hand.                                                    *)

Values == [Usual EXCEPT ![json.field] = json.text]

Written ==
  LET fields == Fields[json.form]
  IN  Joined([i \in DOMAIN fields |->
                IF fields[i] \in Optional[json.form] /\ Values[fields[i]] = <<>>
                THEN <<>> ELSE <<fields[i]>>])

Gap == IF json.form = "input" THEN <<Space>> ELSE <<>>

Text == Build(Written, Values, Gap)

(* A value with the key in quotes at its end: being it, or ending in it    *)
(* after a quote of its own, which escaping leaves a quote.                *)
Names1(v, k) == v = <<k>> \/ IsSuffix(<<Quote, k>>, v)

(* The field whose value is found under a key, 0 for none: the field that  *)
(* has the key, or the one after a value that names it, what is first.     *)
Field(fields, values, k) ==
  LET hits == {i \in DOMAIN fields :
                 fields[i] = k \/ (fields[i] \notin Numbers /\ Names1(values[fields[i]], k))}
  IN  IF hits = {} THEN 0
      ELSE IF fields[Min(hits)] = k THEN Min(hits)
      ELSE IF Min(hits) < Len(fields) THEN Min(hits) + 1 ELSE 0

(* What a reader of keys finds: nothing where the kinds do not agree.      *)
Told(fields, values, k) ==
  LET i == Field(fields, values, k)
  IN  IF i # 0 /\ (fields[i] \in Numbers <=> k \in Numbers) THEN values[fields[i]]
      ELSE IF k \in Numbers THEN Default[k] ELSE <<>>

(* Every field of a message is read back as it was written, whatever is in *)
(* it, unless a value before it ends in its name in quotes: then it is the *)
(* field after that value that is read.                                    *)
FieldsReadBack ==
  \A k \in DOMAIN Usual :
    LET told == Told(Written, Values, k)
    IN  Parse(json.form, Text, k) =
          IF told = <<>> /\ json.form \in {"submit", "oldSubmit"} /\ k \in DOMAIN EarlierName
          THEN Told(Written, Values, EarlierName[k]) ELSE told

(* A value that is written before the field of the key, or where there is  *)
(* no such field, has the key in quotes at its end.                        *)
Misled(k) ==
  \E n \in DOMAIN Written : Names1(Values[Written[n]], k) /\ \A m \in 1 .. n : Written[m] # k

(* Unless a value before it ends in its name in quotes, setting a string in*)
(* a text gives the message with that field set, and nothing else changed, *)
(* or with it added at the end where it is not there: whatever was in it,  *)
(* whatever is put there and whatever the other fields hold.               *)
UpsertIsSet ==
  \A k \in {"t", "m", "r"}, v \in {json.text, <<"N">>} :
    ~Misled(k) =>
      UpsertJsonString(Text, k, v) =
        IF \E n \in DOMAIN Written : Written[n] = k
        THEN Build(Written, [Values EXCEPT ![k] = v], Gap)
        ELSE SubSeq(Text, 1, Len(Text) - 1) \o (IF Written = <<>> THEN <<>> ELSE <<",">>)
               \o Quoted(<<k>>) \o <<":">> \o Quoted(EscapeJsonString(v)) \o <<"}">>

(* The task id of a template is overwritten, whatever the template holds.  *)
TaskIdOverwritten ==
  json.form = "input" =>
    \A v \in {json.text, <<"N">>} :
      UpsertJsonString(Text, "t", v) = Build(Written, [Values EXCEPT !["t"] = v], Gap)

=============================================================================
