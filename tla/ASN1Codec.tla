------------------------------ MODULE ASN1Codec ------------------------------
(***************************************************************************)
(* The compact ASN.1 encoding of IEC 61499 as the publishers write it      *)
(* (CompactASN1Publisher::encode...) and the subscribers read it           *)
(* (CompactASN1Subscriber::read...).  A byte is a number, a byte buffer a  *)
(* sequence of them.                                                       *)
(*                                                                         *)
(* A value is a record [type, val] whose val is a sequence of numbers: the *)
(* characters of a string, the one character of an fmiBoolean (a C char),  *)
(* the number of an integer, and a real as the number of its halves.  The  *)
(* bit pattern of a floating point number is never looked into by the      *)
(* code; the big-endian number of halves stands for it.  A 32 bit float    *)
(* has less precision than a double: it keeps whole numbers only.          *)
(***************************************************************************)
EXTENDS Integers, SequencesExt

CONSTANT LengthRadix  \* values of a byte of a string's length field (256)

ASSUME LengthRadixAssumption == LengthRadix \in Nat \ {0}

FMITypes == {"Real", "Integer", "Boolean", "String"}

Value(type, val) == [type |-> type, val |-> val]

(* The values of a type.  A number has 32 bits, a character 8.             *)
Int32 == {n \in Int : -2147483647 - 1 <= n /\ n <= 2147483647}

IsValue(type, v) ==
    /\ v = Value(type, v.val)
    /\ CASE type = "String"  -> v.val \in Seq(0..255)
         [] type = "Boolean" -> v.val \in {<<0>>, <<1>>}
         [] OTHER -> Len(v.val) = 1 /\ v.val \in Seq(Int32)

(* CLASS_APPLICATION with the tag number of the type.                      *)
BOOL0_TAG == 64
BOOL1_TAG == 65
DINT_TAG == 68
REAL_TAG == 74
LREAL_TAG == 75
STRING_TAG == 80

-----------------------------------------------------------------------------
(* Writing.                                                                *)

(* The bytes of a two's complement number, the most significant one first. *)
bigEndian32(n) ==
    <<(n \div 16777216) % 256, (n \div 65536) % 256, (n \div 256) % 256, n % 256>>

(* The numbers of this module fit into the last four bytes.                *)
bigEndian64(n) ==
    LET fill == IF n < 0 THEN 255 ELSE 0
    IN  <<fill, fill, fill, fill>> \o bigEndian32(n)

encodeLREALValue(v) == <<LREAL_TAG>> \o bigEndian64(v.val[1])

(* memcpy() moves sizeof(double) bytes between two 32 bit variables: the   *)
(* four bytes too many fall on stack words that are dead at that point, so *)
(* that the bytes written are those of the float.                          *)
encodeREALValue(v) == <<REAL_TAG>> \o bigEndian32(v.val[1] \div 2)

encodeDINTValue(v) == <<DINT_TAG>> \o bigEndian32(v.val[1])

encodeBOOLValue(v) == IF v.val = <<0>> THEN <<BOOL0_TAG>> ELSE <<BOOL1_TAG>>

(* Mutant: the length field is cut but all characters are written.         *)
encodeSTRINGValueWhole(v) ==
    LET size == Len(v.val) % (LengthRadix * LengthRadix)
    IN  <<STRING_TAG, size \div LengthRadix, size % LengthRadix>> \o v.val

(* The size is cut to the two bytes of the length field.                   *)
encodeSTRINGValue(v) ==
    LET size == Len(v.val) % (LengthRadix * LengthRadix)
    IN  <<STRING_TAG, size \div LengthRadix, size % LengthRadix>>
            \o SubSeq(v.val, 1, size)

encodeValue(asnType, v) ==
    CASE asnType = "LREAL"  -> encodeLREALValue(v)
      [] asnType = "REAL"   -> encodeREALValue(v)
      [] asnType = "DINT"   -> encodeDINTValue(v)
      [] asnType = "BOOL"   -> encodeBOOLValue(v)
      [] asnType = "STRING" -> encodeSTRINGValue(v)

(* The buffer after each of the variables, which follow one another.       *)
bufferAfter(types, values) ==
    LET after[i \in 0..Len(values)] ==
            IF i = 0 THEN <<>> ELSE after[i - 1] \o encodeValue(types[i], values[i])
    IN  after

encodeASN1OutputVariables(types, values) == bufferAfter(types, values)[Len(values)]

(* What the encodings are made for.                                        *)
Encodable(asnType, v) ==
    CASE asnType \in {"LREAL", "REAL"} -> IsValue("Real", v)
      [] asnType = "DINT"   -> IsValue("Integer", v)
      [] asnType = "BOOL"   -> IsValue("Boolean", v)
      [] asnType = "STRING" -> IsValue("String", v)
      [] OTHER -> FALSE

-----------------------------------------------------------------------------
(* Reading.  A read returns its ParsingStatus, the value if there is one,  *)
(* and the bytes that are left in the buffer.                              *)

Parsed(state, value, rest) == [state |-> state, value |-> value, rest |-> rest]

NoValue == Value("String", <<>>)

Incomplete(raw) == Parsed("Incomplete", NoValue, raw)

(* Consumes a tag and size more bytes, which stand for the value.          *)
Consume(raw, size, value) == Parsed("Ok", value, SubSeq(raw, size + 2, Len(raw)))

(* big_to_native() of the bytes up to last, which hold a number that fits  *)
(* into the last four of them.                                             *)
bigToNative(raw, last) ==
    LET msb == raw[last - 3]
    IN  (IF msb < 128 THEN msb ELSE msb - 256) * 16777216
            + raw[last - 2] * 65536 + raw[last - 1] * 256 + raw[last]

readXREALVariable(raw, size, unit) ==
    IF Len(raw) < size + 1 THEN Incomplete(raw)
    ELSE Consume(raw, size, Value("Real", <<unit * bigToNative(raw, size + 1)>>))

readXINTVariable(raw, size) ==
    IF Len(raw) < size + 1 THEN Incomplete(raw)
    ELSE Consume(raw, size, Value("Integer", <<bigToNative(raw, size + 1)>>))

readSTRINGVariable(raw) ==
    IF Len(raw) < 3 THEN Incomplete(raw)
    ELSE LET length == raw[2] * LengthRadix + raw[3]
         IN  IF Len(raw) < 3 + length THEN Incomplete(raw)
             ELSE Consume(raw, 2 + length,
                          Value("String", SubSeq(raw, 4, 3 + length)))

readBOOL0Variable(raw) == Consume(raw, 0, Value("Boolean", <<0>>))
readBOOL1Variable(raw) == Consume(raw, 0, Value("Boolean", <<1>>))

-----------------------------------------------------------------------------
(* boost::cnv::lexical_cast: a value of another type is converted by way   *)
(* of its text.  An fmiBoolean is the character with that code.            *)

Digits[n \in Nat] ==
    IF n < 10 THEN <<48 + n>> ELSE Append(Digits[n \div 10], 48 + (n % 10))

Magnitude(n) == IF n < 0 THEN -n ELSE n
SignText(n) == IF n < 0 THEN <<45>> ELSE <<>>
HalfText == <<46, 53>>

Text(v) ==
    CASE v.type = "Integer" -> SignText(v.val[1]) \o Digits[Magnitude(v.val[1])]
      [] v.type = "Real" -> SignText(v.val[1])
                                \o Digits[Magnitude(v.val[1]) \div 2]
                                \o IF v.val[1] % 2 = 1 THEN HalfText ELSE <<>>
      [] OTHER -> v.val

Unsigned(text) ==
    IF text # <<>> /\ Head(text) \in {43, 45} THEN Tail(text) ELSE text

Sign(text) == IF text # <<>> /\ Head(text) = 45 THEN -1 ELSE 1

IsNumeral(text) == text # <<>> /\ \A i \in DOMAIN text : text[i] \in 48..57

Numeral(text) == FoldLeft(LAMBDA n, digit : 10 * n + digit - 48, 0, text)

(* The value as a sequence of at most one element, empty if the text is    *)
(* none of the type.  Of the decimal fractions only the halves occur.      *)
convertText(dest, text) ==
    LET number == Unsigned(text)
        half == IsSuffix(HalfText, number)
        whole == IF half THEN SubSeq(number, 1, Len(number) - 2) ELSE number
    IN  CASE dest = "String" -> <<Value("String", text)>>
          [] dest = "Boolean" /\ Len(text) = 1 -> <<Value("Boolean", text)>>
          [] dest = "Integer" /\ IsNumeral(number) ->
                <<Value("Integer", <<Sign(text) * Numeral(number)>>)>>
          [] dest = "Real" /\ IsNumeral(whole) ->
                <<Value("Real", <<Sign(text) * (2 * Numeral(whole)
                                                + IF half THEN 1 ELSE 0)>>)>>
          [] OTHER -> <<>>

(* A value of the type that is asked for is copied.                        *)
convert(dest, v) == IF dest = v.type THEN <<v>> ELSE convertText(dest, Text(v))

(* Mutant: the value is handed on without a conversion.                    *)
readAndConvertVariableRaw(dest, parsed) == parsed

readAndConvertVariable(dest, parsed) ==
    IF parsed.state # "Ok" THEN parsed
    ELSE LET converted == convert(dest, parsed.value)
         IN  IF converted = <<>>
             THEN [parsed EXCEPT !.state = "TypeConversionError"]
             ELSE [parsed EXCEPT !.value = Head(converted)]

readNextVariable(dest, raw) ==
    LET tag == Head(raw)
        read == CASE tag = LREAL_TAG  -> readXREALVariable(raw, 8, 1)
                  [] tag = REAL_TAG   -> readXREALVariable(raw, 4, 2)
                  [] tag = STRING_TAG -> readSTRINGVariable(raw)
                  [] tag = BOOL0_TAG  -> readBOOL0Variable(raw)
                  [] tag = BOOL1_TAG  -> readBOOL1Variable(raw)
                  [] tag = DINT_TAG   -> readXINTVariable(raw, 4)
                  [] OTHER -> Parsed("InvalidBufferContent", NoValue, raw)
    IN  readAndConvertVariable(dest, read)

-----------------------------------------------------------------------------
(* The reference the round trip is compared with: the value as an encoding *)
(* carries it.  A float keeps whole numbers, and a string is cut to a      *)
(* length that its length field can express.                               *)
Carried(asnType, value) ==
    CASE asnType = "REAL" -> Value("Real", <<2 * (value.val[1] \div 2)>>)
      [] asnType = "STRING" ->
            Value("String", SubSeq(value.val, 1,
                                   Len(value.val) % (LengthRadix * LengthRadix)))
      [] OTHER -> value

=============================================================================
