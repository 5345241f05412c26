----------------------------- MODULE MCAiGateway -----------------------------
EXTENDS MCAiService, AiGateway

MCAsked == {{t} : t \in MCText \ {<< >>, <<GO, "abasia">>}} \cup {{<<GO, "abasia">>, << >>}}

MCGoogleInTown(n) == IF n = Maskan THEN {<<"out">>} ELSE {<< >>, <<"c2">>}
MCCairoInTown(n) == {<<"out", "c1">>}
MCNominatimInTown(n) == IF n = Maskan THEN {<<"c1">>} ELSE {<< >>}

=============================================================================
