----------------------------- MODULE MCAiService -----------------------------
(***************************************************************************)
(* Two threads; two places of the table, one that Google puts outside      *)
(* Cairo first, and one that nobody finds in Cairo for sure.               *)
(***************************************************************************)
EXTENDS AiService

MCWord == STRING

Abbassia == <<"abbassia">>
Dokki == <<"dokki">>
Maskan == <<"alf", "maskan">>
Banha == <<"banha">>

MCPlace == {"c1", "c2", "out", "far"}
MCInCairo == {"c1", "c2"}
MCAlias == <<"abasia">> :> Abbassia
MCKnownPlace == Abbassia :> "c1" @@ Dokki :> "c2"

\* The model labels both ends of the English text, and one end of another.
English == <<FROM_E>> \o Dokki \o <<TO_E>> \o Abbassia
Going == <<ASK, GO>> \o Maskan \o <<FROM>> \o Dokki \o <<FROM, KINDLY>>
Leaving == <<GO, "abasia", FROM>> \o Banha
MCText ==
  {English, Going, Leaving, <<HOW, GO, "abasia", AND_I, AT>> \o Dokki \o <<PLEASE>>,
   <<FROM, "abasia", TO>> \o Dokki \o <<PLEASE>>, <<GO, "abasia">>, << >>}
MCTextFromTo == {<<WANT, GO>> \o Maskan \o <<FROM>> \o Banha, <<WANT, GO, FROM, "abasia", TO>> \o Maskan}
MCModelReads ==
  [t \in Text |-> CASE t = English -> [from |-> Dokki, to |-> Abbassia]
                    [] t = Going -> [from |-> NoName, to |-> Banha]
                    [] OTHER -> NoReading]

MCGoogleReply(n) == IF n = Maskan THEN {<<"out">>, <<"out", "c2">>} ELSE {<< >>, <<"far">>}
MCCairoReply(n) == IF n = Maskan THEN {<<"out", "c1">>} ELSE {<< >>, <<"far">>}
MCNominatimReply(n) == IF n = Maskan THEN {<<"c1">>} ELSE {<< >>, <<"far">>, <<"c2">>}

=============================================================================
