---------------------------- MODULE MCHttpReceiving ----------------------------
(***************************************************************************)
(* Two connections one after the other, for TLC.  The texts have no header *)
(* field, one, two, one that gives a length (last and not last), headers   *)
(* that never end, a body that looks like the end of headers, and bodies   *)
(* the second of which is shorter than the first.                          *)
(***************************************************************************)
EXTENDS HttpReceiving

Short ==
  { <<"g">> \o DoubleCrLf \o <<"1", "2">>,
    <<"x", ":">> \o CrLf,
    DoubleCrLf \o <<"1">> }

Long ==
  { <<"g">> \o CrLf \o <<"x">> \o DoubleCrLf \o DoubleCrLf \o <<"1">>,
    <<"g">> \o CrLf \o <<"x">> \o CrLf \o <<"y">> \o DoubleCrLf \o <<"1", "2">>,
    <<"g">> \o CrLf \o <<"\r", ContentLengthField>> \o DoubleCrLf \o <<"1">>,
    <<"g">> \o CrLf \o <<ContentLengthField>> \o CrLf \o <<"y">> \o DoubleCrLf \o <<"1">> }

SomeTexts == Short \cup Long

Shorter == {DoubleCrLf \o <<"3">>}
=============================================================================
