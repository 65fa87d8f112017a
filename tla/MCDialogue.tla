------------------------------ MODULE MCDialogue ------------------------------
(* The dialogue with three countries, an odd number for a grid of two      *)
(* columns, and a spelling for each way a text can be read.                *)
EXTENDS Dialogue

MCCountries == {"country_1", "country_2", "country_3"}

MCSpellings ==
    {<<"letter">>, <<"tick", "mark">>, <<"backslash">>}
=============================================================================
