---------------------------- MODULE MCFormatters ---------------------------
(* Formatters for TLC: texts with every kind of character, values of every  *)
(* kind, callers of every combination that matters.                        *)
EXTENDS Formatters

EveryTime == {[sod |-> 0, sub |-> 999], [sod |-> 86399, sub |-> 1000],
              [sod |-> 86399, sub |-> 999999]}
OneTime == {[sod |-> 86399, sub |-> 999999]}

PlainText == <<"a", " ", "b">>
OddText == <<Quote, "a", Backslash, HighByte, Newline, Control>>
SomeTexts == {PlainText, OddText}
SomeKeys == {<<"k">>, OddText}

SomeValues ==
  {[kind |-> "string", text |-> OddText], [kind |-> "string", text |-> <<"=", " ">>],
   [kind |-> "nullptr string", text |-> <<>>], [kind |-> "nullptr", text |-> <<>>],
   [kind |-> "absent", text |-> <<>>], [kind |-> "integer", text |-> <<"-7">>],
   [kind |-> "bool", text |-> <<"true">>], [kind |-> "raw", text |-> <<"[", Quote, "1", Quote, "]">>],
   [kind |-> "raw", text |-> <<"[", Newline, "1", "]">>],
   [kind |-> "double", text |-> <<"1", ".", "5">>], [kind |-> "double", text |-> <<"nan">>]}

NoneOrTwo ==
  {<<>>, <<[key |-> <<"b">>, value |-> [kind |-> "double", text |-> <<"2", ".", "5">>]],
           [key |-> <<"k">>, value |-> [kind |-> "string", text |-> OddText]]>>}
NothingBound == {<<>>}

SomeCallers ==
  {[level |-> 0, thread |-> 0,
    location |-> [file |-> <<"src", "/", "m.cpp">>, function |-> <<"f">>, line |-> 12]],
   [level |-> 1, thread |-> 7,
    location |-> [file |-> <<"m", Newline, ".cpp">>, function |-> <<"f">>, line |-> 2]],
   [level |-> 5, thread |-> 7,
    location |-> [file |-> <<"C:", Backslash, "src", Backslash, "m.cpp">>,
                  function |-> Null, line |-> 1]],
   [level |-> 3, thread |-> 7, location |-> [file |-> Null, function |-> Null, line |-> 0]]}

OneMoment == {[day |-> 0, time |-> [sod |-> 86399, sub |-> 999999]]}
PointAndComma == {".", ","}
=============================================================================
