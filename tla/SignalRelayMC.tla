----------------------------- MODULE SignalRelayMC -----------------------------
(* Instances of SignalRelay for TLC, with the texts of Codec: arguments of *)
(* every kind, nested in containers of the same and of other kinds.        *)
EXTENDS SignalRelay, Codec

Text  == Arg("string", <<"x">>, <<>>)
Empty == Arg("string", <<>>, <<>>)
Query == Arg("string", <<"x", "&", "x">>, <<>>)
Flag  == Arg("boolean", <<"1">>, <<>>)
Bytes == Arg("bytes", <<"1", "2">>, <<>>)
Pair(a, b) == Arg("dict_entry", <<>>, <<a, b>>)
AnyOf(a)   == Arg("variant", <<>>, <<a>>)
Struct(s)  == Arg("struct", <<>>, s)
Array(s)   == Arg("array", <<>>, s)

PlainArgLists ==
    { <<>>,
      <<Query, Flag, Bytes, Empty, Array(<<>>)>>,
      <<Array(<<Pair(Text, AnyOf(Bytes)), Pair(Query, AnyOf(Array(<<Text, Empty>>)))>>), Flag>>,
      <<Struct(<<Struct(<<Text>>), Struct(<<Flag, AnyOf(Struct(<<Text>>))>>)>>), Text>> }

(* Arguments that do not come through.                                     *)
Markup == Arg("string", <<"x", "<", "/", "string", ">">>, <<>>)
Entity == Arg("string", <<"&", "lt;">>, <<>>)
Nobody == Arg("bytes", <<>>, <<>>)
OddArgLists == { <<Markup>>, <<Entity>>, <<Nobody>> }
=============================================================================
