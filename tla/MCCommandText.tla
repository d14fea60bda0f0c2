--------------------------- MODULE MCCommandText ---------------------------
(* Messages: an action, an identifier in every kind of spelling, another       *)
(* field, in any order, spaced, cut short or with something behind them.       *)
EXTENDS CommandText

Actions == DOMAIN PinAnswer \cup {"getConfig", "setConfig", "writeCard", "otaUpdate", "status_now",
                                   "hasAccess", "other"}
Spellings ==
  {<< >>, <<"a">>, <<"a", "a", "a", "a">>, <<Backslash, Quote>>, <<Backslash, Backslash>>,
   <<"a", Backslash, "u0000", "a">>, <<Backslash, "u0001", Backslash, "u0001">>, <<Backslash, "n", "LF">>,
   <<Backslash, HighSurrogate, Backslash, LowSurrogate>>, <<Backslash, HighSurrogate>>, <<Backslash, "q">>,
   <<Backslash, "uZZZZ">>, <<"SOH">>, <<Backslash>>}
Pair(key, value) == Quoted(<<key>>) \o <<":">> \o value
Others ==
  {Pair("config", <<"{">> \o Pair("enableCards", <<"true">>) \o <<"}">>),
   Pair("config", <<"{">> \o Pair("enableCards", <<"false">>) \o <<" ", "}">>),
   Pair("idUser", Quoted(<<"a">>)), Pair("url", Quoted(<<"a">>)), Pair("url", <<"null">>),
   Pair("url", Quoted(<<"a", "a", Backslash, Quote>>)), Pair("url", Quoted(<< >>)),
   Pair("estat", <<"2">>), Pair("estat", Quoted(<<" ", "7", "a">>)), Pair("idPista", <<"1e99">>),
   Pair("pin", <<"7">>), Pair("pin", <<"1e99">>), Pair("pin", Quoted(<<"7">>)), Pair("type", Quoted(<<"a", "a", "a">>)),
   Pair("idPeticion", <<"[", "7", ",", "0", "]">>), Pair("x", <<"[", "[", "]", "]">>),
   Pair("x", <<"[", "[", "[", "]", "]", "]">>), Pair("ACTION", Quoted(<<"getConfig">>)),
   Pair("x", Quoted(<<"SOH", "SOH", "SOH">>))}
FewOthers ==
  {Pair("config", <<"{">> \o Pair("enableCards", <<"true">>) \o <<"}">>), Pair("url", Quoted(<<"a">>)),
   Pair("idUser", Quoted(<<"SOH", Backslash, Quote>>))}
Ends == {<<"}">>, <<" ", "}", "LF">>, <<"}", "a", "a", "a", "a", "a", "a", "a", "a">>, <<"}", "NUL">>, << >>, <<",", "}">>, <<"NUL", "}">>}
Message(parts, end) ==
  <<"{">> \o parts[1] \o FlattenSeq([k \in 1..(Len(parts) - 1) |-> <<",">> \o parts[k + 1]]) \o end

SomeTexts ==
  {Message(<<Pair("action", Quoted(<<a>>)), Pair("idPeticion", Quoted(id)), other>>, end) :
     a \in Actions, id \in Spellings, other \in FewOthers, end \in {<<" ", "}", "LF">>}}
  \cup {Message(<<other, Pair("action", Quoted(<<a>>)), Pair("idPeticion", Quoted(<<"a">>))>>, end) :
     a \in Actions, other \in Others, end \in Ends}
  \cup {Message(<<other, Pair("action", Quoted(<<a>>)), Pair("idPeticion", Quoted(id)), other>>, <<"}">>) :
     a \in {"setConfig", "writeCard"}, other \in FewOthers, id \in {<<"a">>, <<"a", "a", "a">>}}
  \cup {prefix \o Message(<<Pair("action", Quoted(<<a>>)), Pair("idPeticion", Quoted(<<BOM>>))>>, <<"SOH", "}">>) :
     a \in {"getConfig", "pulsador", "setConfig"}, prefix \in {<<BOM>>, <<BOM, "SOH">>, <<"SOH", BOM>>, <<BOM, BOM>>}}
  \cup {<<BOM, "7">>, <<BOM, "7", "LF">>, <<BOM, "NUL">>}
  \cup {<<" ">>, <<"7">>, <<"[", "]">>, <<"[", " ", "]", "]">>, <<"null">>, <<"[", "7", " ">>}
=============================================================================
