--------------------------------- MODULE Texts ---------------------------------
(***************************************************************************)
(* Conversions of text: hexadecimal to and from bytes, values of log       *)
(* fields, descriptions of TSS errors, and TCTI configurations, which      *)
(* three files parse each for itself.  A character is its code.            *)
(***************************************************************************)
EXTENDS Naturals, Sequences, SequencesExt

CONSTANTS
    GivenTexts,      \* what is to be converted
    KnownNames,      \* names of TCTIs that may appear in a log
    max_backend_error_description_size

\* One conversion: of the bytes of a digest ("bytes"), of hexadecimal text
\* ("hex"), of the values of a record's fields ("fields"), of what the TSS says
\* about a response code ("description"), of a TCTI configuration ("config").
Tasks == {"bytes", "hex", "fields", "description", "config"}

ASSUME TextAssumption ==
    /\ \A g \in GivenTexts :
          /\ g.task \in Tasks /\ g.texts \in Seq(Seq(0..255))
          /\ g.task # "fields" => Len(g.texts) = 1
          /\ g.task = "config" => g.startup \in STRING
    /\ KnownNames \subseteq Seq(0..255)
    /\ max_backend_error_description_size \in Nat \ {0}

VARIABLES given, made   \* the texts converted, and what became of them
textVars == <<given, made>>

Nothing == [ok |-> FALSE, done |-> FALSE, texts |-> <<>>]
Made(texts) == [ok |-> TRUE, done |-> TRUE, texts |-> texts]
Refused == [ok |-> FALSE, done |-> TRUE, texts |-> <<>>]

InitText == given \in GivenTexts /\ made = Nothing

Convert(task, result) ==
    /\ given.task = task /\ ~made.done
    /\ made' = result
    /\ UNCHANGED given

-----------------------------------------------------------------------------
(* Hexadecimal.  A definition named ..._Fault is the one after it with a mistake
   a programmer could make; the checks are run against it too, to see that they
   notice. *)

hex_digit(value) == IF value < 10 THEN 48 + value ELSE 87 + value

\* 16 stands for no digit.  Starting capital letters at 9.
decode_hex_digit_Fault(ch) ==
    CASE ch \in 48..57 -> ch - 48
      [] ch \in 97..102 -> ch - 87
      [] ch \in 65..70 -> ch - 56
      [] OTHER -> 16

decode_hex_digit(ch) ==
    CASE ch \in 48..57 -> ch - 48
      [] ch \in 97..102 -> ch - 87
      [] ch \in 65..70 -> ch - 55
      [] OTHER -> 16

encode_hex(bytes) ==
    FlattenSeq([i \in 1..Len(bytes) |-> <<hex_digit(bytes[i] \div 16), hex_digit(bytes[i] % 16)>>])

decode_hex(text) ==
    IF /\ Len(text) % 2 = 0
       /\ \A i \in 1..Len(text) : decode_hex_digit(text[i]) # 16
    THEN Made(<<[i \in 1..Len(text) \div 2 |->
                   16 * decode_hex_digit(text[2 * i - 1]) + decode_hex_digit(text[2 * i])]>>)
    ELSE Refused

EncodeHex == Convert("bytes", Made(<<encode_hex(given.texts[1])>>))
DecodeHex == Convert("hex", decode_hex(given.texts[1]))

-----------------------------------------------------------------------------
(* Values of log fields *)

SPACE == 32
QUOTE == 34
EQUALS == 61
BACKSLASH == 92

needs_quoting(value) ==
    \E i \in 1..Len(value) : value[i] < 32 \/ value[i] \in {SPACE, EQUALS, QUOTE, BACKSLASH}

\* Forgetting that the escape character is a character.
escaped_Fault(c) ==
    CASE c = QUOTE -> <<BACKSLASH, QUOTE>>
      [] c = 10 -> <<BACKSLASH, 110>>
      [] c = 13 -> <<BACKSLASH, 114>>
      [] c = 9 -> <<BACKSLASH, 116>>
      [] c < 32 /\ c \notin {9, 10, 13} ->
            <<BACKSLASH, 120, hex_digit(c \div 16), hex_digit(c % 16)>>
      [] OTHER -> <<c>>

escaped(c) ==
    CASE c \in {QUOTE, BACKSLASH} -> <<BACKSLASH, c>>
      [] c = 10 -> <<BACKSLASH, 110>>
      [] c = 13 -> <<BACKSLASH, 114>>
      [] c = 9 -> <<BACKSLASH, 116>>
      [] c < 32 /\ c \notin {9, 10, 13} ->
            <<BACKSLASH, 120, hex_digit(c \div 16), hex_digit(c % 16)>>
      [] OTHER -> <<c>>

escape_value(value) ==
    IF ~needs_quoting(value) THEN value
    ELSE <<QUOTE>> \o FlattenSeq([i \in 1..Len(value) |-> escaped(value[i])]) \o <<QUOTE>>

\* The fields of a record as both loggers append them, with a key of one letter.
key == 107
rendered(values) ==
    FlattenSeq([i \in 1..Len(values) |-> <<SPACE, key, EQUALS>> \o escape_value(values[i])])

RenderFields == Convert("fields", Made(<<rendered(given.texts)>>))

-----------------------------------------------------------------------------
(* Descriptions of errors *)

unavailable == <<117>>

is_printable_ascii(c) == c \in 32..126

\* No text stands for a null pointer.
sanitized_backend_error_description(decoded) ==
    LET n == IF Len(decoded) < max_backend_error_description_size
             THEN Len(decoded) ELSE max_backend_error_description_size
    IN  IF decoded = <<>> THEN unavailable
        ELSE [i \in 1..n |-> IF is_printable_ascii(decoded[i]) THEN decoded[i] ELSE 95]

\* The description becomes a field of the failure record.
Describe ==
    Convert("description",
            Made(<<rendered(<<sanitized_backend_error_description(given.texts[1])>>)>>))

-----------------------------------------------------------------------------
(* TCTI configurations *)

COLON == 58
is_space(c) == c \in 9..13 \cup {SPACE}

trim(text) ==
    LET kept == {i \in 1..Len(text) : ~is_space(text[i])}
    IN  IF kept = {} THEN <<>>
        ELSE SubSeq(text, CHOOSE i \in kept : \A j \in kept : i =< j,
                          CHOOSE i \in kept : \A j \in kept : j =< i)

\* Position of the first colon; 0 for none.
colon(text) == SelectInSeq(text, LAMBDA c : c = COLON)

\* validate_config of the loader
loader_accepts(config) ==
    LET trimmed == trim(config)
    IN trimmed # <<>> /\ Len(trimmed) = Len(config) /\ colon(trimmed) > 1

\* is_valid_string_config of the fake context
fake_accepts(config) ==
    LET trimmed == trim(config)
    IN trimmed # <<>> /\ Len(trimmed) = Len(config) /\ colon(trimmed) > 1

\* Anything else is an enumerator out of range.
is_valid_startup_mode(startup) == startup \in {"clear", "state", "skip"}

\* fake_tpm_context::create, its validation
fake_created(config, startup) == is_valid_startup_mode(startup) /\ fake_accepts(config)

custom == <<60, 62>>

\* Forgetting that the name may be empty.
sanitized_tcti_name_Fault(config) ==
    LET trimmed == trim(config)
        name == SubSeq(trimmed, 1, colon(trimmed) - 1)
    IN  IF trimmed = <<>> \/ Len(trimmed) # Len(config) \/ colon(trimmed) = 0 THEN <<>>
        ELSE IF name \in KnownNames THEN name ELSE custom

\* The name a log may show; no name for a configuration that is refused.
sanitized_tcti_name(config) ==
    LET trimmed == trim(config)
        name == SubSeq(trimmed, 1, colon(trimmed) - 1)
    IN  IF trimmed = <<>> \/ Len(trimmed) # Len(config) \/ colon(trimmed) \in {0, 1} THEN <<>>
        ELSE IF name \in KnownNames THEN name ELSE custom

\* The records of resolve_tcti, up to where the loader asks the TSS: "configuring"
\* with the name, if there is one; then the loader accepts or refuses.
resolve_tcti(config) ==
    LET name == sanitized_tcti_name(config)
    IN [ok |-> loader_accepts(config), done |-> TRUE,
        texts |-> IF name = <<>> THEN <<>> ELSE <<name>>]

create_context_from_config ==
    Convert("config",
            IF is_valid_startup_mode(given.startup) THEN resolve_tcti(given.texts[1]) ELSE Refused)

NextText == EncodeHex \/ DecodeHex \/ RenderFields \/ Describe \/ create_context_from_config

-----------------------------------------------------------------------------
(* Properties *)

\* A reader of rendered fields: a space outside quotes begins a field, quotes
\* and escapes are undone.
ReadChar(reader, c) ==
    LET within(mode) == [reader EXCEPT !.mode = mode]
        got(mode, char) == [reader EXCEPT !.mode = mode,
                                          !.values[Len(reader.values)] = Append(@, char)]
    IN
    CASE reader.mode = "plain" /\ c = SPACE ->
            [mode |-> "key", values |-> Append(reader.values, <<>>), digit |-> 0]
      [] reader.mode = "key" -> within(IF c = EQUALS THEN "start" ELSE "key")
      [] reader.mode = "start" /\ c = QUOTE -> within("quoted")
      [] reader.mode = "start" /\ c = SPACE ->
            [mode |-> "key", values |-> Append(reader.values, <<>>), digit |-> 0]
      [] reader.mode \in {"start", "plain"} /\ c \notin {SPACE, QUOTE} -> got("plain", c)
      [] reader.mode = "quoted" /\ c = BACKSLASH -> within("escape")
      [] reader.mode = "quoted" /\ c = QUOTE -> within("plain")
      [] reader.mode = "quoted" /\ c \notin {BACKSLASH, QUOTE} -> got("quoted", c)
      [] reader.mode = "escape" /\ c = 120 -> within("high")
      [] reader.mode = "escape" /\ c # 120 ->
            got("quoted", CASE c = 110 -> 10 [] c = 114 -> 13 [] c = 116 -> 9 [] OTHER -> c)
      [] reader.mode = "high" -> [within("low") EXCEPT !.digit = decode_hex_digit(c)]
      [] reader.mode = "low" ->
            [got("quoted", 16 * reader.digit + decode_hex_digit(c)) EXCEPT !.digit = 0]
      [] OTHER -> within("error")

ReadFields(text) ==
    LET read[i \in 0..Len(text)] ==
            IF i = 0 THEN [mode |-> "plain", values |-> <<>>, digit |-> 0]
            ELSE ReadChar(read[i - 1], text[i])
        end == read[Len(text)]
    IN IF end.mode \in {"plain", "start"} THEN end.values ELSE <<<<0>>>>

\* What is encoded can be decoded; pairs of hexadecimal digits and nothing else are
\* accepted, and encode to themselves but for capital letters.
HexComesBack ==
    /\ made.done /\ given.task = "bytes" => decode_hex(made.texts[1]) = Made(given.texts)
    /\ made.done /\ given.task = "hex" =>
          LET text == given.texts[1]
              capitals == 65..70
              lower == [i \in 1..Len(text) |-> IF text[i] \in capitals THEN text[i] + 32 ELSE text[i]]
          IN /\ made.ok <=> Len(text) % 2 = 0 /\ ToSet(text) \subseteq 48..57 \cup capitals \cup 97..102
             /\ made.ok => encode_hex(made.texts[1]) = lower

\* No value of a field can be taken for the end of it or for another field: what a
\* logger writes reads back as the values given, descriptions of errors included,
\* of which no more than the bound is shown.
FieldsComeApart ==
    /\ made.done /\ given.task = "fields" => ReadFields(made.texts[1]) = given.texts
    /\ made.done /\ given.task = "description" =>
          LET shown == ReadFields(made.texts[1])
              decoded == given.texts[1]
          IN /\ Len(shown) = 1
             /\ Len(shown[1]) \in 1..max_backend_error_description_size
             /\ decoded # <<>> =>
                  \A i \in 1..Len(shown[1]) :
                      /\ is_printable_ascii(shown[1][i])
                      /\ is_printable_ascii(decoded[i]) => shown[1][i] = decoded[i]

\* The three parsers of TCTI configurations agree: the log announces a TCTI exactly
\* when the loader will look for one, which is when the fake context of the tests
\* would be created; and of a configuration it shows nothing but a known name.
ConfigurationsAgree ==
    made.done /\ given.task = "config" =>
        LET config == given.texts[1] IN
        /\ made.ok <=> fake_created(config, given.startup)
        /\ made.ok <=> made.texts # <<>>
        /\ made.texts # <<>> =>
              \/ made.texts[1] = custom
              \/ made.texts[1] \in KnownNames /\ IsPrefix(Append(made.texts[1], COLON), config)
=============================================================================
