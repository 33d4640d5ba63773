----------------------------- MODULE CmdOptions -----------------------------
(***************************************************************************)
(* The two readers of options on the command line: the tokeniser with the  *)
(* compose command, which the application reads, prints, hands to another  *)
(* process and reads again, and the parameters of a service, which the     *)
(* command line interface reads.                                           *)
(*                                                                         *)
(* A text is a sequence of characters.  Options that the code treats alike *)
(* are represented by one: Text, List and Flag.                            *)
(***************************************************************************)
EXTENDS Naturals, SequencesExt

CONSTANT Null

Quote == "'"
Comma == ","
Equals == "="
Semicolon == ";"
Backslash == "\\"
Space == " "

Text == <<"t">>  \* dmAnnotation, dmToHands, dmID, ...
List == <<"l">>  \* dmAttachment
Flag == <<"f">>  \* dmPersonalDelivery, dmAllowSubstDelivery, dmPublishOwnID

Trimmed(s) ==
  LET solid == {i \in DOMAIN s : s[i] # Space}
  IN IF solid = {} THEN <<>> ELSE SubSeq(s, Min(solid), Max(solid))

\* QString::split(); an empty text is one empty part.
Split(s) ==
  FoldLeft(LAMBDA parts, ch :
             IF ch = Semicolon THEN Append(parts, <<>>)
             ELSE [parts EXCEPT ![Len(parts)] = Append(@, ch)],
           << <<>> >>, s)

Joined(parts, separator) ==
  IF parts = <<>> THEN <<>>
  ELSE FoldLeft(LAMBDA s, part : s \o <<separator>> \o part, Head(parts), Tail(parts))

-----------------------------------------------------------------------------
(* cmd_tokeniser.cpp.  A scan has the items that are complete, the         *)
(* characters since, and whether the last of them is within quotes.        *)

Scan == [items |-> <<>>, part |-> <<>>, inQuotes |-> FALSE]
Kept(items, part, ignoreEmpty) ==
  IF ignoreEmpty /\ Trimmed(part) = <<>> THEN items ELSE Append(items, Trimmed(part))

\* MUTANT of SeparatorStep: separators within quotes separate, too.
SeparatorStepInQuotes(sep, ignoreEmpty, s, ch) ==
  IF ch = Quote THEN [s EXCEPT !.part = Append(@, ch), !.inQuotes = ~@]
  ELSE IF ch = sep
       THEN [s EXCEPT !.items = Kept(@, s.part, ignoreEmpty), !.part = <<>>]
  ELSE [s EXCEPT !.part = Append(@, ch)]

SeparatorStep(sep, ignoreEmpty, s, ch) ==
  IF ch = Quote THEN [s EXCEPT !.part = Append(@, ch), !.inQuotes = ~@]
  ELSE IF ch = sep /\ ~s.inQuotes
       THEN [s EXCEPT !.items = Kept(@, s.part, ignoreEmpty), !.part = <<>>]
  ELSE [s EXCEPT !.part = Append(@, ch)]

\* Space between quotes is an item, nothing before a quote is none.
BlockStep(s, ch) ==
  IF ch = Quote
  THEN [items |-> IF s.inQuotes \/ s.part # <<>> THEN Append(s.items, Trimmed(s.part))
                  ELSE s.items,
        part |-> <<>>, inQuotes |-> ~s.inQuotes]
  ELSE [s EXCEPT !.part = Append(@, ch)]

Failed == [ok |-> FALSE, items |-> <<>>]
Answer(items) == [ok |-> TRUE, items |-> items]

separatedItemsQuotes(sep, text, ignoreEmpty) ==
  LET scan == FoldLeft(LAMBDA s, ch : SeparatorStep(sep, ignoreEmpty, s, ch), Scan, text)
  IN IF scan.inQuotes THEN Failed
     ELSE IF text = <<>> THEN Answer(<<>>)
     ELSE Answer(Kept(scan.items, scan.part, ignoreEmpty))

blocksQuotes(text) ==
  LET scan == FoldLeft(BlockStep, Scan, text)
  IN IF scan.inQuotes THEN Failed
     ELSE IF scan.part = <<>> THEN Answer(scan.items)
     ELSE Answer(Append(scan.items, Trimmed(scan.part)))

\* A token, or Null.
TokenOf(option) ==
  LET sides == separatedItemsQuotes(Equals, option, FALSE)
      blocks == [i \in DOMAIN sides.items |-> blocksQuotes(sides.items[i]).items]
  IN IF ~sides.ok \/ Len(sides.items) # 2 THEN Null
     ELSE IF Len(blocks[1]) # 1 \/ Len(blocks[2]) # 1 THEN Null
     ELSE [name |-> blocks[1][1], value |-> blocks[2][1]]

\* Empty content is an error, content without options is not.
tokeniseCmdOption(text) ==
  LET options == separatedItemsQuotes(Comma, text, TRUE)
      tokens == [i \in DOMAIN options.items |-> TokenOf(options.items[i])]
  IN IF text = <<>> \/ ~options.ok \/ \E i \in DOMAIN tokens : tokens[i] = Null
     THEN Failed
     ELSE Answer(tokens)

-----------------------------------------------------------------------------
(* cmd_compose.cpp.  A command is Null when no member was set.             *)

Unset == [text |-> <<>>, list |-> <<>>, flag |-> Null]

stringToNilBool(value) ==
  CASE value \in {<<"0">>, <<"n">>} -> FALSE
    [] value \in {<<"1">>, <<"y">>} -> TRUE
    [] OTHER -> Null
nilBoolToString(flag) == IF flag THEN <<"1">> ELSE <<"0">>

\* A value is set once, and is not empty.
Set(command, token) ==
  LET name == token.name
      value == token.value
  IN IF value = <<>> THEN Null ELSE
     CASE name = Text /\ command.text = <<>> -> [command EXCEPT !.text = value]
       [] name = List /\ command.list = <<>> -> [command EXCEPT !.list = Split(value)]
       [] name = Flag /\ command.flag = Null /\ stringToNilBool(value) # Null ->
            [command EXCEPT !.flag = stringToNilBool(value)]
       [] OTHER -> Null

deserialise(text) ==
  LET tokens == tokeniseCmdOption(text).items
      command == FoldLeft(LAMBDA c, token : IF c = Null THEN Null ELSE Set(c, token),
                          Unset, tokens)
  IN IF command = Unset THEN Null ELSE command

Option(name, value) == name \o <<Equals, Quote>> \o value \o <<Quote>>

\* MUTANT of serialise: the parts of a list are separated as options are.
serialiseCommas(command) ==
  Joined((IF command.text = <<>> THEN <<>> ELSE <<Option(Text, command.text)>>)
         \o (IF command.flag = Null THEN <<>>
             ELSE <<Option(Flag, nilBoolToString(command.flag))>>)
         \o (IF command.list = <<>> THEN <<>>
             ELSE <<Option(List, Joined(command.list, Comma))>>), Comma)

serialise(command) ==
  Joined((IF command.text = <<>> THEN <<>> ELSE <<Option(Text, command.text)>>)
         \o (IF command.flag = Null THEN <<>>
             ELSE <<Option(Flag, nilBoolToString(command.flag))>>)
         \o (IF command.list = <<>> THEN <<>>
             ELSE <<Option(List, Joined(command.list, Semicolon))>>), Comma)

-----------------------------------------------------------------------------
(* cli.cpp: the parameters of a service. *)

Parser ==
  [map |-> <<>>, attribute |-> <<>>, value |-> <<>>, newAttribute |-> TRUE,
   newValue |-> FALSE, special |-> FALSE, error |-> "CLI_SUCCESS"]

\* Attributes whose values may contain paths of Windows.
KeepsBackslashes(attribute) == attribute = List
Known == {Text, List, Flag}

\* An attribute given twice has its last value.
Assigned(map, name, value) ==
  [n \in DOMAIN map \cup {name} |->
     IF n # name THEN map[n] ELSE IF n = List THEN Split(value) ELSE value]

EndOfAttribute(p) ==
  CASE p.attribute = <<>> -> [p EXCEPT !.error = "CLI_ATR_NAME_ERR"]
    [] p.attribute # <<>> /\ p.value = <<>> -> [p EXCEPT !.error = "CLI_ATR_VAL_ERR"]
    [] p.value # <<>> /\ p.attribute # <<>> /\ p.attribute \notin Known ->
         [p EXCEPT !.error = "CLI_UNKNOWN_ATR"]
    [] OTHER -> [p EXCEPT !.map = Assigned(@, p.attribute, p.value),
                          !.attribute = <<>>, !.value = <<>>,
                          !.newAttribute = TRUE, !.newValue = FALSE]

AddToValue(p, ch) == [p EXCEPT !.value = Append(@, ch), !.special = FALSE]

\* MUTANT of ParserStep: an escaped apostrophe ends the value.
ParserStepEscape(p, ch) ==
  CASE ch = Comma -> IF p.newValue THEN [p EXCEPT !.value = Append(@, ch)] ELSE EndOfAttribute(p)
    [] ch = Equals -> IF p.newValue THEN [p EXCEPT !.value = Append(@, ch)]
                      ELSE [p EXCEPT !.newAttribute = FALSE]
    [] ch = Quote -> [p EXCEPT !.newValue = ~@]
    [] ch = Backslash ->
         IF p.special \/ KeepsBackslashes(p.attribute) THEN AddToValue(p, ch)
         ELSE [p EXCEPT !.special = TRUE]
    [] OTHER -> [p EXCEPT !.attribute = IF p.newAttribute THEN Append(@, ch) ELSE @,
                          !.value = IF p.newValue THEN Append(@, ch) ELSE @]

\* An escape waits for the next apostrophe or backslash, however far it is.
ParserStep(p, ch) ==
  CASE ch = Comma -> IF p.newValue THEN [p EXCEPT !.value = Append(@, ch)] ELSE EndOfAttribute(p)
    [] ch = Equals -> IF p.newValue THEN [p EXCEPT !.value = Append(@, ch)]
                      ELSE [p EXCEPT !.newAttribute = FALSE]
    [] ch = Quote -> IF p.special THEN AddToValue(p, ch) ELSE [p EXCEPT !.newValue = ~@]
    [] ch = Backslash ->
         IF p.special \/ KeepsBackslashes(p.attribute) THEN AddToValue(p, ch)
         ELSE [p EXCEPT !.special = TRUE]
    [] OTHER -> [p EXCEPT !.attribute = IF p.newAttribute THEN Append(@, ch) ELSE @,
                          !.value = IF p.newValue THEN Append(@, ch) ELSE @]

parsePamamString(text) ==
  LET Step(p, ch) == IF p.error = "CLI_SUCCESS" THEN ParserStep(p, ch) ELSE p
      parsed == FoldLeft(Step, Parser, text)
      p == IF parsed.error = "CLI_SUCCESS" THEN EndOfAttribute(parsed) ELSE parsed
  IN [error |-> p.error, map |-> IF p.error = "CLI_SUCCESS" THEN p.map ELSE <<>>]

-----------------------------------------------------------------------------
(* What the readers ought to do, as definitions and not as scans. *)

Quotes(s) == {i \in DOMAIN s : s[i] = Quote}
Outside(s, i) == Cardinality({j \in Quotes(s) : j < i}) % 2 = 0

\* The parts of a text between the separators outside quotes, in order.
Parts(s, sep) ==
  LET cuts == {i \in DOMAIN s : s[i] = sep /\ Outside(s, i)}
      starts == SetToSortSeq({1} \cup {i + 1 : i \in cuts}, LAMBDA i, j : i < j)
  IN [k \in DOMAIN starts |->
        Trimmed(SubSeq(s, starts[k], Min({i \in cuts : i >= starts[k]} \cup {Len(s) + 1}) - 1))]

\* A name or a value is written plainly or as a whole in quotes.
Proper(side) ==
  /\ side # <<>>
  /\ Quotes(side) = {} \/ (Len(side) > 1 /\ Quotes(side) = {1, Len(side)})
Content(side) == IF Quotes(side) = {} THEN side ELSE Trimmed(SubSeq(side, 2, Len(side) - 1))

Reading(text) ==
  LET options == SelectSeq(Parts(text, Comma), LAMBDA option : option # <<>>)
      sides == [k \in DOMAIN options |-> Parts(options[k], Equals)]
  IN IF /\ text # <<>>
        /\ Cardinality(Quotes(text)) % 2 = 0
        /\ \A k \in DOMAIN options :
             Len(sides[k]) = 2 /\ \A i \in 1 .. 2 : Proper(sides[k][i])
     THEN Answer([k \in DOMAIN options |->
                    [name |-> Content(sides[k][1]), value |-> Content(sides[k][2])]])
     ELSE Failed

=============================================================================
