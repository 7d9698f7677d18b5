----------------------- MODULE MCCompactASN1Publisher -----------------------
(* A channel with a port of each type, one variable on two ports, and one  *)
(* variable that is on another channel.                                    *)
EXTENDS CompactASN1Publisher

MCPortIDs == <<"level", "count", "level", "name", "valve">>
MCVariables == {"level", "count", "name", "valve", "other"}
MCTypeOf == [id \in MCVariables |->
                CASE id \in {"level", "other"} -> "Real"
                  [] id = "count" -> "Integer"
                  [] id = "name" -> "String"
                  [] id = "valve" -> "Boolean"]
MCValues == [id \in MCVariables |->
                CASE id \in {"level", "other"} ->
                        {Value("Real", <<5>>), Value("Real", <<-600>>)}
                  [] id = "count" ->
                        {Value("Integer", <<2147483647>>), Value("Integer", <<-1>>)}
                  [] id = "name" ->
                        {Value("String", [i \in 1..n |-> 64 + i]) : n \in {1, 3, 4, 6}}
                  [] id = "valve" ->
                        {Value("Boolean", <<1>>), Value("Boolean", <<0>>)}]
MCEncodings == {<<"", "", "", "", "">>, <<"REAL", "DINT", "", "STRING", "BOOL">>,
                <<"", "LREAL", "", "", "">>, <<"", "", "WORD", "", "">>}

=============================================================================
