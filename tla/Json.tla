-------------------------------- MODULE Json --------------------------------
(***************************************************************************)
(* cJSON (third_lib/cjson/cJSON.c), with which commands are read and       *)
(* answers written: parsing, printing, minifying and editing a document.   *)
(* A text is a sequence of tokens: punctuation, single blanks, numbers,    *)
(* and inside quotes runs of plain characters, single special characters   *)
(* and the parts of escapes.  A document is a tree of items; the pointers  *)
(* between neighbours are the order of a sequence, memory never runs out.  *)
(***************************************************************************)
EXTENDS Integers, Sequences, FiniteSetsExt, SequencesExt, TLC

CONSTANTS
  Tokens,      \* what texts are made of
  Parsed,      \* the texts of numbers and the values strtod-like parsing gives them
  Formatted,   \* those of them that sprintf makes for numbers that are not whole
  Large,       \* numbers above it that are not whole are shown with an exponent (1.0e9)
  Hex,         \* four hexadecimal digits and their number
  Utf8,        \* the characters of those numbers
  Controls,    \* control characters without a short escape, and their digits
  LowerCase,   \* upper case tokens and their lower case
  Texts,       \* texts that arrive
  Items, Names,   \* what a document is built from
  MaxNesting,  \* how many levels there are below a document at most
  MaxEdits

Scale == 10000000   \* values count ten-millionths, a digit more than %f shows
Types == {"null", "false", "true", "number", "string", "array", "object"}
Strings == Seq(Tokens)
Numbers == {Parsed[x] : x \in DOMAIN Parsed}

\* An item; string is its name in an object.
Item(type, string, text, num, child) ==
  [type |-> type, string |-> string, valuestring |-> text, valuedouble |-> num, child |-> child]
Plain0(type) == Item(type, <<>>, <<>>, 0, <<>>)
Named(item, name) == [item EXCEPT !.string = name]
Filled(item, children) == [item EXCEPT !.child = children]
cJSON_CreateNumber(num) == Item("number", <<>>, <<>>, num, <<>>)
cJSON_CreateString(s) == Item("string", <<>>, s, 0, <<>>)

\* The items with n levels below them at most: an item has what its type needs, and a name when
\* it is in an object.
Nameless(item) == Named(item, <<>>) = item
Empty(item) == Filled(Named(item, <<>>), <<>>)
Shaped(item) ==
  CASE item.type = "number" -> Named(item, <<>>) = cJSON_CreateNumber(item.valuedouble)
    [] item.type = "string" -> Named(item, <<>>) = cJSON_CreateString(item.valuestring)
    [] item.type = "object" -> Empty(item) = Plain0("object")
    [] item.type = "array"  -> /\ Empty(item) = Plain0("array")
                               /\ \A i \in DOMAIN item.child : Nameless(item.child[i])
    [] OTHER                -> Named(item, <<>>) = Plain0(item.type)
Documents[n \in 0..MaxNesting] ==
  {item \in [type : Types, string : Strings, valuestring : Strings, valuedouble : Numbers,
             child : IF n = 0 THEN {<<>>} ELSE Seq(Documents[n - 1])] : Shaped(item)}

(***************************************************************************)
(* Parsing, from position i of the text t.  A result is the position behind*)
(* what was read and the item, or ok = FALSE and the position ep.          *)
(***************************************************************************)
NoToken == ""
Space == " "
At(t, i) == IF i <= Len(t) THEN t[i] ELSE NoToken
White == {Space, "\n", "\t"}
skip(t, i) == LET S == {j \in i..Len(t) : t[j] \notin White}
              IN  IF S = {} THEN Len(t) + 1 ELSE Min(S)
Fail(i) == [ok |-> FALSE, at |-> i, item |-> Plain0("null")]
Got(i, item) == [ok |-> TRUE, at |-> i, item |-> item]

parse_number(t, i) == Got(i + 1, cJSON_CreateNumber(Parsed[t[i]]))

Backspace == "^"   \* stands for the control character
ShortEscapes == [n |-> "\n", r |-> "\r", t |-> "\t", f |-> "\f", b |-> Backspace]
parse_hex4(x) == IF x \in DOMAIN Hex THEN Hex[x] ELSE 0
High == 55296..56319
Low  == 56320..57343
Pair(uc, uc2) == 65536 + (uc % 1024) * 1024 + (uc2 % 1024)
\* \u: the character (none for 0 and for a surrogate without its partner) and the tokens used.
FromUtf16(t, i) ==
  LET uc  == parse_hex4(At(t, i + 1))
      uc2 == parse_hex4(At(t, i + 4))
  IN  IF uc = 0 \/ uc \in Low THEN [out |-> <<>>, used |-> 2]
      ELSE IF uc \notin High THEN [out |-> <<Utf8[uc]>>, used |-> 2]
      ELSE IF At(t, i + 2) # "\\" \/ At(t, i + 3) # "u" THEN [out |-> <<>>, used |-> 2]
      ELSE IF uc2 \notin Low THEN [out |-> <<>>, used |-> 5]
      ELSE [out |-> <<Utf8[Pair(uc, uc2)]>>, used |-> 5]

\* What was copied of a text up to at, and whether it goes on.
Copied(at, out) == [at |-> at, out |-> out, open |-> TRUE]
Closed(at, out) == [at |-> at, out |-> out, open |-> FALSE]
Escaped(x) == IF x = NoToken THEN <<>> ELSE IF x \in DOMAIN ShortEscapes THEN <<ShortEscapes[x]>> ELSE <<x>>
\* One character of a string more, or its end: the text may end before the closing quote.  A "\"
\* or a "\u" that the end of the text cuts off leads behind that end.
Unescaped(t, i, out) ==
  CASE At(t, i) = NoToken -> Closed(i, out)
    [] At(t, i) = "\""    -> Closed(i + 1, out)
    [] At(t, i) = "\\" /\ At(t, i + 1) = "u" ->
         Copied(i + 1 + FromUtf16(t, i + 1).used, out \o FromUtf16(t, i + 1).out)
    [] At(t, i) = "\\" /\ At(t, i + 1) # "u" -> Copied(i + 2, out \o Escaped(At(t, i + 1)))
    [] OTHER -> Copied(i + 1, Append(out, t[i]))
\* Whether a position is behind the 0 that ends the text, where nobody knows what there is.
Outside(t, at) == at > Len(t) + 1
\* No string has more characters than its text has tokens.  One that leads behind the end fails there.
parse_string(t, i) ==
  LET turn[n \in 0..Len(t)] ==
        IF n = 0 THEN Copied(i + 1, <<>>)
        ELSE LET c == turn[n - 1] IN IF c.open THEN Unescaped(t, c.at, c.out) ELSE c
      last == turn[Len(t)]
  IN  IF At(t, i) # "\"" THEN Fail(i)
      ELSE IF Outside(t, last.at) THEN Fail(last.at)
      ELSE Got(last.at, cJSON_CreateString(last.out))

\* One element of an array or member of an object (r.item), from r.at: the values are those one
\* level down.  After a comma there is another.
Over(r) == [more |-> FALSE, r |-> r]
Another(r) == [more |-> TRUE, r |-> r]
Joined(r, at, child) == Got(at, Filled(r.item, Append(r.item.child, child)))
Continued(t, r, close, next, child) ==
  IF At(t, next) = "," THEN Another(Joined(r, next + 1, child))
  ELSE Over(IF At(t, next) = close THEN Joined(r, next + 1, child) ELSE Fail(next))
Element(t, r, close, value, name) ==
  IF ~value.ok THEN Over(value) ELSE Continued(t, r, close, skip(t, value.at), Named(value.item, name))
NamedElement(t, r, close, values, name) ==
  LET colon == skip(t, name.at)
  IN  IF ~name.ok THEN Over(name)
      ELSE IF At(t, colon) # ":" THEN Over(Fail(colon))
      ELSE Element(t, r, close, values[skip(t, colon + 1)], name.item.valuestring)
Member(t, r, close, values) ==
  IF r.item.type = "object" THEN NamedElement(t, r, close, values, parse_string(t, skip(t, r.at)))
  ELSE Element(t, r, close, values[skip(t, r.at)], <<>>)
Members(t, i, type, close, values) ==
  LET turn[n \in 0..Len(t)] ==
        IF n = 0 THEN Another(Got(i, Plain0(type)))
        ELSE LET c == turn[n - 1] IN IF c.more THEN Member(t, c.r, close, values) ELSE c
  IN  turn[Len(t)].r
Container(t, i, type, close, values) ==
  LET first == skip(t, i + 1)
  IN  IF At(t, first) = close THEN Got(first + 1, Plain0(type)) ELSE Members(t, first, type, close, values)
parse_array(t, i, values)  == Container(t, i, "array", "]", values)
parse_object(t, i, values) == Container(t, i, "object", "}", values)
Value(t, i, values) ==
  IF At(t, i) \in {"null", "false", "true"} THEN Got(i + 1, Plain0(t[i]))
  ELSE IF At(t, i) = "\"" THEN parse_string(t, i)
  ELSE IF At(t, i) \in DOMAIN Parsed THEN parse_number(t, i)
  ELSE IF At(t, i) = "[" THEN parse_array(t, i, values)
  ELSE IF At(t, i) = "{" THEN parse_object(t, i, values)
  ELSE Fail(i)
\* The value at each position, with n levels below it at most: what nests deeper is not read.
parse_value(t) ==
  LET value[n \in 0..MaxNesting] ==
        LET below == IF n = 0 THEN [i \in 1..Len(t) + 1 |-> Fail(i)] ELSE value[n - 1]
        IN  [i \in 1..Len(t) + 1 |-> Value(t, i, below)]
  IN  value[MaxNesting]

\* What follows the value does not matter unless it is asked for the end of the text.
Terminated(t, r) == IF r.ok /\ skip(t, r.at) <= Len(t) THEN Fail(skip(t, r.at)) ELSE r
cJSON_ParseWithOpts(t, require_null_terminated) ==
  IF require_null_terminated THEN Terminated(t, parse_value(t)[skip(t, 1)]) ELSE parse_value(t)[skip(t, 1)]
cJSON_Parse(t) == cJSON_ParseWithOpts(t, FALSE)

(***************************************************************************)
(* Printing: texts are the texts of the children.                          *)
(***************************************************************************)
\* What the last digit that is shown stands for: a whole number is shown with all of them (%d, and
\* %.0f below 1.0e60), others with six behind the point (%f), or with seven of them (%e) when they
\* are below a millionth or large.
Size(v) == IF v < 0 THEN -v ELSE v
Exponents == 0..316   \* no double has more than 309 digits before the point
Seven(v, n) == Size(v) \div 10^n < 10000000
LastDigit(v) ==
  IF v % Scale = 0 THEN 1
  ELSE IF Size(v) \in 10..Large * Scale THEN 10
  ELSE 10^(CHOOSE n \in Exponents : Seven(v, n) /\ (n = 0 \/ ~Seven(v, n - 1)))
Rounded(v, digit) == digit * ((Size(v) + digit \div 2) \div digit)
Shown(v) == IF v < 0 THEN -Rounded(v, LastDigit(v)) ELSE Rounded(v, LastDigit(v))
print_number(v) == IF v % Scale = 0 THEN ToString(v \div Scale)
                   ELSE CHOOSE x \in Formatted : Parsed[x] = Shown(v)

PrintKeepsControls(s) == <<"\"">> \o s \o <<"\"">>                         \* Mistake
Short(c) == {e \in DOMAIN ShortEscapes : ShortEscapes[e] = c}
Escape(c) == IF c \in {"\"", "\\"}         THEN <<"\\", c>>
             ELSE IF c \in DOMAIN Controls THEN <<"\\", "u", Controls[c]>>
             ELSE IF Short(c) # {}         THEN <<"\\", CHOOSE e \in Short(c) : TRUE>>
             ELSE <<c>>
print_string_ptr(s) == <<"\"">> \o FlattenSeq([i \in DOMAIN s |-> Escape(s[i])]) \o <<"\"">>

Tabs(n) == [i \in 1..n |-> "\t"]
print_array(texts, fmt) ==
  LET n == Len(texts)
      Entry(i) == texts[i] \o (IF i = n THEN <<>> ELSE IF fmt THEN <<",", Space>> ELSE <<",">>)
  IN  <<"[">> \o FlattenSeq([i \in 1..n |-> Entry(i)]) \o <<"]">>
print_object(item, texts, depth, fmt) ==
  LET n == Len(texts)
      Line(s) == IF fmt THEN s ELSE <<>>
      Entry(i) == Line(Tabs(depth + 1)) \o print_string_ptr(item.child[i].string)
                  \o <<":">> \o Line(<<"\t">>) \o texts[i]
                  \o (IF i = n THEN <<>> ELSE <<",">>) \o Line(<<"\n">>)
      indent == IF n = 0 /\ depth > 0 THEN depth - 1 ELSE depth
  IN  <<"{">> \o Line(<<"\n">>) \o FlattenSeq([i \in 1..n |-> Entry(i)])
      \o Line(Tabs(indent)) \o <<"}">>
Text(item, texts, depth, fmt) ==
  CASE item.type \in {"null", "false", "true"} -> <<item.type>>
    [] item.type = "number" -> <<print_number(item.valuedouble)>>
    [] item.type = "string" -> print_string_ptr(item.valuestring)
    [] item.type = "array"  -> print_array(texts, fmt)
    [] item.type = "object" -> print_object(item, texts, depth, fmt)
\* The text of an item with n levels below it at most, at the depth MaxNesting - n.
print_value(fmt) ==
  LET value[n \in 0..MaxNesting] ==
        LET below == value[n - 1]
        IN  [item \in Documents[n] |->
               Text(item, [i \in DOMAIN item.child |-> below[item.child[i]]], MaxNesting - n, fmt)]
  IN  value
cJSON_Print(item) == print_value(TRUE)[MaxNesting][item]
cJSON_PrintUnformatted(item) == print_value(FALSE)[MaxNesting][item]

\* The bytes that are allocated for the text of an item, its last 0 included.
Total(numbers) == LET sum[n \in 0..Len(numbers)] == IF n = 0 THEN 0 ELSE sum[n - 1] + numbers[n]
                  IN  sum[Len(numbers)]
Bytes(t) == Total([i \in DOMAIN t |-> Len(t[i])])
More(c) == IF Len(Escape(c)) = 2 THEN 1 ELSE IF c \in DOMAIN Controls THEN 5 ELSE 0
StringRoom(s) == Bytes(s) + Total([i \in DOMAIN s |-> More(s[i])]) + 3
IsInt(v) == v % Scale = 0 /\ v \div Scale \in -2147483647 - 1..2147483647
NumberRoom(v) == IF v = 0 THEN 2 ELSE IF IsInt(v) THEN 21 ELSE 64
MemberRoom(item, texts, i) == Bytes(texts[i]) + Bytes(print_string_ptr(item.child[i].string)) + 2
RoomForgetsTabs(item, texts, depth, fmt) ==                                \* Mistake
  IF texts = <<>> THEN (IF fmt THEN depth + 4 ELSE 3)
  ELSE 7 + Total([i \in DOMAIN texts |-> MemberRoom(item, texts, i)])
ObjectRoom(item, texts, depth, fmt) ==
  IF texts = <<>> THEN (IF fmt THEN depth + 4 ELSE 3)
  ELSE 7 + (IF fmt THEN depth + 1 ELSE 0)
       + Total([i \in DOMAIN texts |-> MemberRoom(item, texts, i) + (IF fmt THEN 3 + depth ELSE 0)])
ArrayRoom(texts, fmt) ==
  IF texts = <<>> THEN 3
  ELSE 5 + Total([i \in DOMAIN texts |-> Bytes(texts[i]) + 2 + (IF fmt THEN 1 ELSE 0)])
Room(item, texts, depth, fmt) ==
  CASE item.type = "number" -> NumberRoom(item.valuedouble)
    [] item.type = "string" -> StringRoom(item.valuestring)
    [] item.type = "array"  -> ArrayRoom(texts, fmt)
    [] item.type = "object" -> ObjectRoom(item, texts, depth, fmt)
    [] OTHER                -> Len(item.type) + 1
\* What is written with its final 0 fits what is allocated, here and in every part.
Fits(fmt) ==
  LET print == print_value(fmt)
      fits[n \in 0..MaxNesting] ==
        LET fit == fits[n - 1]  below == print[n - 1]
        IN  [item \in Documents[n] |->
               LET texts == [i \in DOMAIN item.child |-> below[item.child[i]]]
               IN  /\ Bytes(print[n][item]) < Room(item, texts, MaxNesting - n, fmt)
                   /\ \A i \in DOMAIN item.child :
                        /\ fit[item.child[i]]
                        /\ Bytes(print_string_ptr(item.child[i].string)) < StringRoom(item.child[i].string)]
  IN  fits[MaxNesting]

\* Blanks and comments go, except in strings.  A string or a comment that does not end leads behind
\* the end of the text: with a quote more, such a string would end with that quote.
Blanks == {Space, "\t", "\r", "\n"}
Behind1(t, i, mark, none) == LET S == {j \in i..Len(t) : t[j] = mark}
                             IN  IF S = {} THEN none ELSE Min(S) + 1
BehindString(t, i) == parse_string(Append(t, "\""), i).at
Bared(t, i, out) ==
  LET quote == BehindString(t, i)
  IN  IF At(t, i) = NoToken         THEN Closed(i, out)
      ELSE IF At(t, i) \in Blanks  THEN Copied(i + 1, out)
      ELSE IF At(t, i) = "//"       THEN Copied(Behind1(t, i, "\n", Len(t) + 1), out)
      ELSE IF At(t, i) = "/*"       THEN Copied(Behind1(t, i, "*/", Len(t) + 2), out)
      ELSE IF At(t, i) = "\""       THEN Copied(quote, out \o SubSeq(t, i, Min({quote - 1, Len(t)})))
      ELSE Copied(i + 1, Append(out, t[i]))
Minified(t) ==
  LET turn[n \in 0..Len(t)] ==
        IF n = 0 THEN Copied(1, <<>>)
        ELSE LET c == turn[n - 1] IN IF c.open THEN Bared(t, c.at, c.out) ELSE c
  IN  turn[Len(t)]
cJSON_Minify(t) == Minified(t).out

(***************************************************************************)
(* Editing.  Children are counted from 0 in the code, from 1 here.         *)
(***************************************************************************)
Lower(s) == [i \in DOMAIN s |-> IF s[i] \in DOMAIN LowerCase THEN LowerCase[s[i]] ELSE s[i]]
cJSON_strcasecmp(s1, s2) == Lower(s1) = Lower(s2)
cJSON_GetArraySize(array) == Len(array.child)
\* The position of the first child of that name, one behind the last when there is none.
Place(object, name) ==
  LET S == {i \in DOMAIN object.child : cJSON_strcasecmp(object.child[i].string, name)}
  IN  IF S = {} THEN cJSON_GetArraySize(object) + 1 ELSE Min(S)
cJSON_GetArrayItem(array, which) == array.child[which]
cJSON_GetObjectItem(object, name) == cJSON_GetArrayItem(object, Place(object, name))

cJSON_AddItemToArray(array, item) == Filled(array, Append(array.child, item))
cJSON_AddItemToObject(object, name, item) == cJSON_AddItemToArray(object, Named(item, name))
cJSON_DeleteItemFromArray(array, which) ==
  IF which > cJSON_GetArraySize(array) THEN array ELSE Filled(array, RemoveAt(array.child, which))
cJSON_DeleteItemFromObject(object, name) == cJSON_DeleteItemFromArray(object, Place(object, name))
cJSON_InsertItemInArray(array, which, newitem) ==
  IF which > cJSON_GetArraySize(array) THEN cJSON_AddItemToArray(array, newitem)
  ELSE Filled(array, InsertAt(array.child, which, newitem))
cJSON_ReplaceItemInArray(array, which, newitem) ==
  IF which > cJSON_GetArraySize(array) THEN array ELSE Filled(array, ReplaceAt(array.child, which, newitem))
cJSON_ReplaceItemInObject(object, name, newitem) ==
  cJSON_ReplaceItemInArray(object, Place(object, name), Named(newitem, name))
cJSON_Duplicate(item, recurse) ==
  LET copy[n \in 0..MaxNesting] ==
        LET below == copy[n - 1]
        IN  [x \in Documents[n] |-> Filled(x, [i \in DOMAIN x.child |-> below[x.child[i]]])]
  IN  IF recurse THEN copy[MaxNesting][item] ELSE Filled(item, <<>>)

cJSON_CreateObject == Plain0("object")
cJSON_CreateArray == Plain0("array")
cJSON_CreateBool(b) == Plain0(IF b THEN "true" ELSE "false")
cJSON_CreateNull == Plain0("null")
cJSON_CreateIntArray(numbers) ==
  Filled(cJSON_CreateArray, [i \in DOMAIN numbers |-> cJSON_CreateNumber(Scale * numbers[i])])
cJSON_CreateStringArray(strings) ==
  Filled(cJSON_CreateArray, [i \in DOMAIN strings |-> cJSON_CreateString(strings[i])])

(***************************************************************************)
(* What the tables of tokens have to say.                                  *)
(***************************************************************************)
\* The digits of \u that mean a character, or with a second four of them, have one.
HexMeans(x) ==
  /\ Hex[x] \in Nat
  /\ Hex[x] \notin {0} \cup High \cup Low => Hex[x] \in DOMAIN Utf8
  /\ Hex[x] \in High => \A y \in DOMAIN Hex : Hex[y] \in Low => Pair(Hex[x], Hex[y]) \in DOMAIN Utf8
\* What is one byte in every text.
Marks == {"{", "}", "[", "]", ",", ":", "\"", "\\", "u", "\t", "\n", Space} \cup DOMAIN ShortEscapes
ASSUME JsonAssumption ==
  /\ MaxNesting \in Nat \ {0} /\ Tokens \subseteq STRING \ {NoToken}
  /\ \A x \in Tokens \cup Types : Len(x) \in Nat \ {0}
  /\ DOMAIN Parsed \subseteq Tokens /\ 0 \in Numbers /\ Numbers \subseteq Int
  /\ \A e \in DOMAIN ShortEscapes : ShortEscapes[e] \in Tokens
  /\ \A u \in DOMAIN Utf8 : Utf8[u] \in Tokens
  /\ \A x \in DOMAIN Hex : HexMeans(x)
  /\ \A x \in Marks : Len(x) = 1
  /\ \A x \in DOMAIN Controls : Len(Controls[x]) = 4
  /\ \A v \in Numbers : Len(print_number(v)) \in 1..NumberRoom(v) - 1
  /\ \A t \in Texts \cup Names : t \in Strings
  /\ \A item \in Items : item \in Documents[MaxNesting - 1] /\ Nameless(item)

\* What is written of a control character or a number means that character or number, and
\* the text of a number is nothing else.
Punctuation == {"null", "false", "true", "\"", "[", "]", "{", "}", ",", ":", "//", "/*"} \cup Blanks
ASSUME ReadingAssumption ==
  /\ \A x \in DOMAIN Controls : Controls[x] \in DOMAIN Hex /\ Utf8[Hex[Controls[x]]] = x
  /\ \A x \in DOMAIN Controls : Hex[Controls[x]] \notin {0} \cup High \cup Low
  /\ \A v \in Numbers : print_number(v) \in DOMAIN Parsed /\ Parsed[print_number(v)] = Shown(v)
  /\ DOMAIN Parsed \cap Punctuation = {}

\* Behind "\u" there are four digits, unless the text ends: the code skips four characters.
FourDigits(t) == \A i \in 3..Len(t) : t[i - 2] = "\\" /\ t[i - 1] = "u" => Len(t[i]) = 4
ASSUME QuoteAssumption == "\"" \in Tokens
ASSUME TextAssumption == \A t \in Texts : FourDigits(t)

\* No number is half way between two that can be shown: what sprintf makes of it is up to the double.
ASSUME RoundingAssumption ==
  /\ Large \in Nat
  /\ \A v \in Numbers : LastDigit(v) > 1 => 2 * (Size(v) % LastDigit(v)) # LastDigit(v)

(***************************************************************************)
(* A program that reads a text and edits the document.                     *)
(***************************************************************************)
VARIABLES doc, edits
jsonVars == <<doc, edits>>

JsonInit == doc = cJSON_CreateObject /\ edits = 0

\* What is read behind the end of a text is anything or nothing; where it takes the program down,
\* nothing follows.
ReadOutside == doc' \in {doc} \cup Items
Read(t) == LET r == cJSON_Parse(t)
           IN  IF r.ok THEN doc' = r.item ELSE IF Outside(t, r.at) THEN ReadOutside ELSE doc' = doc
ReadMinified(t) == IF Outside(t, Minified(t).at) THEN ReadOutside ELSE Read(cJSON_Minify(t))
EditArray(item) ==
  /\ doc.type = "array"
  /\ \/ doc' = cJSON_AddItemToArray(doc, item)
     \/ \E which \in 1..cJSON_GetArraySize(doc) + 1 :
          doc' \in {cJSON_InsertItemInArray(doc, which, item),
                   cJSON_ReplaceItemInArray(doc, which, item),
                   cJSON_DeleteItemFromArray(doc, which)}
EditObject(item, name) ==
  /\ doc.type = "object"
  /\ doc' \in {cJSON_AddItemToObject(doc, name, item), cJSON_ReplaceItemInObject(doc, name, item),
               cJSON_DeleteItemFromObject(doc, name)}
\* A copy of the document, or of its first level, becomes a part of another.
Wrap(recurse, name) ==
  /\ doc \in Documents[MaxNesting - 1]
  /\ LET copy == cJSON_Duplicate(doc, recurse)
     IN  doc' \in {cJSON_AddItemToObject(cJSON_CreateObject, name, copy),
                  cJSON_AddItemToArray(cJSON_CreateArray, copy)}

JsonStep ==
  /\ edits < MaxEdits /\ edits' = edits + 1
  /\ \/ \E t \in Texts : Read(t) \/ ReadMinified(t)
     \/ \E item \in Items : EditArray(item) \/ \E name \in Names : EditObject(item, name)
     \/ \E name \in Names, recurse \in BOOLEAN : Wrap(recurse, name)

(***************************************************************************)
(* Properties.                                                             *)
(***************************************************************************)
AsShown(item) ==
  LET shown[n \in 0..MaxNesting] ==
        LET below == shown[n - 1]
        IN  [x \in Documents[n] |-> Item(x.type, x.string, x.valuestring, Shown(x.valuedouble),
                                         [i \in DOMAIN x.child |-> below[x.child[i]]])]
  IN  shown[MaxNesting][item]

\* What is printed, with blanks or without, is read back as the same document but for the digits
\* of its numbers that are not shown; minifying the one text gives the other.
RoundTrip ==
  LET text == cJSON_Print(doc)
      bare == cJSON_PrintUnformatted(doc)
  IN  /\ \A t \in {text, bare} : cJSON_ParseWithOpts(t, TRUE) = Got(Len(t) + 1, AsShown(doc))
      /\ cJSON_Minify(text) = bare

\* No part of the document is printed past the end of the memory allocated for it.
PrintFits == \A fmt \in BOOLEAN : Fits(fmt)[doc]
=============================================================================
