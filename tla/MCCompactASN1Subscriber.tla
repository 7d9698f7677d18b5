----------------------- MODULE MCCompactASN1Subscriber -----------------------
(* Small instances of CompactASN1TCPClientSubscriber.                      *)
EXTENDS CompactASN1TCPClientSubscriber

Item(asn, type, val) == [asn |-> asn, value |-> Value(type, val)]

Yes == Item("BOOL", "Boolean", <<1>>)
No == Item("BOOL", "Boolean", <<0>>)
MinusTwo == Item("DINT", "Integer", <<-2>>)
Large == Item("DINT", "Integer", <<70000>>)
Seven == Item("LREAL", "Real", <<14>>)
Halves == Item("LREAL", "Real", <<-3>>)
Float == Item("REAL", "Real", <<5>>)
TextNumber == Item("STRING", "String", <<49, 50>>)    \* "12"
TextLetter == Item("STRING", "String", <<65>>)        \* "A"
TextLong == Item("STRING", "String", <<65, 66, 67, 68, 69>>)
TextNone == Item("STRING", "String", <<>>)

(* Integer, Boolean and String ports, and streams of values that fit the   *)
(* type of their port, that are converted to it and that cannot be, with   *)
(* an incomplete event or an unknown tag behind them.                      *)
DecodePorts == <<"Integer", "Boolean", "String", "Real">>
DecodeStreams ==
    {[items |-> <<MinusTwo, Yes, TextLetter, Seven, Large, No>>, junk |-> <<>>],
     [items |-> <<Seven, TextLetter, Halves, TextNumber, Halves, Yes, MinusTwo>>,
      junk |-> <<0, 65, 68, 0>>],
     [items |-> <<TextNumber, MinusTwo, TextLong, Float, TextNone>>, junk |-> <<>>]}

(* One Integer port: a value that cannot be converted to its type, and one *)
(* of its type that a lost connection may cut anywhere.                    *)
IntegerPort == <<"Integer">>
IntegerStreams == {[items |-> <<Yes, MinusTwo>>, junk |-> <<>>]}

AllOutcomes == {"connected", "refused", "unresolved", "unopened"}

=============================================================================
